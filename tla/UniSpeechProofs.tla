-------------------------- MODULE UniSpeechProofs --------------------------
(***************************************************************************)
(* Theorems of UniSpeech, for every number of MRCP requests.               *)
(***************************************************************************)
EXTENDS UniSpeech, SequenceTheorems, TLAPS

(* Types.                                                                  *)

FlagsOK ==
  /\ {is_inprogress, mrcp_request, signalled, live} \subseteq BOOLEAN
  /\ {gaveUp, refused, raced, crashed} \subseteq BOOLEAN

DataOK ==
  /\ object \in {"none", "present", "freed"}
  /\ state \in {"NOT_READY", "READY", "DONE"}
  /\ mrcp_event \in 0..MaxRequests /\ event \in 0..MaxRequests
  /\ cur \in 0..MaxRequests /\ sent \in 0..MaxRequests
  /\ mrcp_response \in [id : 0..MaxRequests, ok : BOOLEAN]
  /\ sm_request \in {"NONE", "ADD", "TERMINATE"}
  /\ sm_response \in {"SUCCESS", "FAILURE"}
  /\ pc \in PCs /\ call \in Calls \cup {"none"} /\ method \in Methods \cup {"none"}
  /\ handling \in {"none", "cleared", "checked", "stored"}
  /\ signalling \in Seq({"ADD", "TERMINATE"})
  /\ requests \in Seq([id : 1..MaxRequests, method : Methods])
  /\ active \in Seq(1..MaxRequests)

LEMMA TypeParts == UniTypeOK <=> DataOK /\ FlagsOK
  BY DEF UniTypeOK, DataOK, FlagsOK

\* The first and the last of a queue.
LEMMA First ==
  ASSUME NEW e
  PROVE  Append(<<>>, e) = <<e>> /\ Len(<<e>>) = 1 /\ <<e>>[1] = e /\ Head(<<e>>) = e
  OBVIOUS

LEMMA Last ==
  ASSUME NEW S, NEW q \in Seq(S), Len(q) = 1
  PROVE  Tail(q) = <<>> /\ Head(q) = q[1] /\ q # <<>>
  <1>1. q # <<>> /\ Head(q) = q[1]
    OBVIOUS
  <1>2. Tail(q) \in Seq(S) /\ Len(Tail(q)) = 0
    BY <1>1
  <1>3. QED
    BY <1>1, <1>2, EmptySeq

LEMMA NoMessageType == NoMessage \in [id : 0..MaxRequests, ok : BOOLEAN]
  BY RequestsAssumption DEF RequestsAssumption, NoMessage

LEMMA InitType == Init => DataOK /\ FlagsOK
  <1>1. Init => DataOK
    BY RequestsAssumption, NoMessageType DEF RequestsAssumption, Init, DataOK, PCs
  <1>2. Init => FlagsOK
    BY Zenon DEF Init, FlagsOK
  <1>3. QED
    BY <1>1, <1>2

\* A request that is sent is a new one ...
LEMMA AskData ==
  ASSUME DataOK, NEW m \in Methods, Ask(m)
  PROVE  /\ requests' \in Seq([id : 1..MaxRequests, method : Methods])
         /\ sent' \in 1..MaxRequests /\ sent' = sent + 1
         /\ pc' = "request_wait" /\ method' = m
         /\ UNCHANGED <<call, mrcp_response, sm_request, sm_response, signalling, active>>
  <1>1. sent + 1 \in 1..MaxRequests
    BY RequestsAssumption DEF RequestsAssumption, DataOK, Ask
  <1>2. [id |-> sent + 1, method |-> m] \in [id : 1..MaxRequests, method : Methods]
    BY <1>1
  <1>3. requests' \in Seq([id : 1..MaxRequests, method : Methods])
    BY <1>2 DEF DataOK, Ask
  <1>4. QED
    BY <1>1, <1>3 DEF Ask, Goto

\* ... and the caller goes on to one of its steps.
LEMMA AfterData ==
  ASSUME DataOK, NEW m, NEW ok, After(m, ok)
  PROVE  pc' \in PCs /\ call' \in Calls \cup {"none"}
  BY DEF DataOK, After, Goto, Return, PCs

LEMMA AskFailsData ==
  ASSUME DataOK, NEW m, AskFails(m)
  PROVE  /\ pc' \in PCs /\ call' \in Calls \cup {"none"}
         /\ UNCHANGED <<waitVars, method, serverVars>>
  BY AfterData DEF AskFails

\* A signalling request is one of the two.
LEMMA SmSendData ==
  ASSUME DataOK, NEW request \in {"ADD", "TERMINATE"}, NEW wait \in Waits,
         SmSend(request, wait)
  PROVE  /\ signalling' \in Seq({"ADD", "TERMINATE"}) /\ pc' \in PCs
         /\ sm_request' \in {"NONE", "ADD", "TERMINATE"}
  BY DEF DataOK, SmSend, PCs

\* The thread keeps the types of the data.
LEMMA RunData == ASSUME DataOK, Run PROVE DataOK'
  <1> USE DEF Goto, Return, objectVars, waitVars, threadVars, taskVars, serverVars,
        historyVars
  <1>1. CASE AddWake
    BY <1>1 DEF DataOK, PCs, AddWake, TimedOut, Spurious
  <1>2. CASE Terminate \/ TerminateWake
    <2>1. CASE Terminate /\ SmSend("TERMINATE", "terminate_wait")
      <3>1. object' = object /\ call' = call
        BY <2>1 DEF Terminate, SmSend, Cleanup
      <3>2. QED
        BY <2>1, <3>1, SmSendData DEF DataOK, Waits, Terminate
    <2>2. CASE Terminate /\ Cleanup
      <3>1. UNCHANGED <<sm_request, signalling>>
        BY <2>2 DEF Terminate, SmSend, Cleanup
      <3>2. QED
        BY <2>2, <3>1 DEF DataOK, PCs, Terminate, Cleanup
    <2>3. CASE TerminateWake
      BY <2>3 DEF DataOK, PCs, TerminateWake, Cleanup, TimedOut, Spurious
    <2>4. QED
      BY <1>2, <2>1, <2>2, <2>3 DEF Terminate
  <1>3. CASE StopAccepted \/ Stopped \/ Changed \/ StartAccepted \/ Started \/ Get
    BY <1>3 DEF DataOK, PCs, StopAccepted, Stopped, Changed, StartAccepted, Started, Get
  <1>4. CASE RequestWake
    <2>1. mrcp_response' \in [id : 0..MaxRequests, ok : BOOLEAN]
      BY <1>4, NoMessageType DEF DataOK, RequestWake, TimedOut, Spurious
    <2>2. pc' \in PCs /\ call' \in Calls \cup {"none"}
      BY <1>4, AfterData DEF RequestWake
    <2>3. QED
      BY <1>4, <2>1, <2>2 DEF DataOK, RequestWake
  <1>5. ASSUME NEW m \in Methods, Ask(m), UNCHANGED <<object, state, taskVars>>,
               mrcp_event' \in {mrcp_event, 0}, cur' \in {cur, sent + 1}
        PROVE  DataOK'
    <2>1. /\ mrcp_event' \in 0..MaxRequests /\ cur' \in 0..MaxRequests
          /\ sent' \in 0..MaxRequests
      BY <1>5, AskData, RequestsAssumption DEF RequestsAssumption, DataOK
    <2>2. QED
      BY <1>5, <2>1, AskData DEF DataOK, PCs, Waits
  <1>6. ASSUME NEW m \in Methods, AskFails(m), UNCHANGED <<object, state, taskVars>>,
               mrcp_event' \in {mrcp_event, 0}
        PROVE  DataOK'
    <2>1. mrcp_event' \in 0..MaxRequests
      BY <1>6, RequestsAssumption DEF RequestsAssumption, DataOK
    <2>2. QED
      BY <1>6, <2>1, AskFailsData DEF DataOK
  <1>7. CASE SetProperties
    BY <1>5, <1>6, <1>7 DEF SetProperties, Methods
  <1>8. CASE Preload
    <2>1. CASE Return /\ UNCHANGED <<waitVars, method, serverVars, refused>>
      BY <1>8, <2>1 DEF DataOK, PCs, Preload
    <2>2. QED
      BY <1>5, <1>6, <1>8, <2>1 DEF Preload, Methods
  <1>9. CASE Stop
    BY <1>5, <1>6, <1>9 DEF Stop, Methods
  <1>10. CASE DefineGrammar
    BY <1>5, <1>6, <1>10 DEF DefineGrammar, Methods
  <1>11. CASE Start
    BY <1>5, <1>6, <1>11 DEF Start, Methods
  <1>12. QED
    BY <1>1, <1>2, <1>3, <1>4, <1>7, <1>8, <1>9, <1>10, <1>11 DEF Run

\* So do Asterisk and the client task.
LEMMA OtherData == ASSUME DataOK, Asterisk \/ ClientTask PROVE DataOK'
  <1> USE DEF Return, objectVars, waitVars, threadVars, taskVars, serverVars, historyVars
  <1>1. CASE CreateFails \/ Destroy \/ Settle
    BY <1>1 DEF DataOK, PCs, Calls, CreateFails, Destroy, Settle
  <1>2. CASE Create
    BY <1>2, SmSendData DEF DataOK, Calls, Waits, Create
  <1>3. ASSUME NEW c \in Calls \ {"create", "destroy"}, Call(c) PROVE DataOK'
    BY <1>3 DEF DataOK, PCs, Call
  <1>4. CASE OnSignalling
    <2>1. Tail(signalling) \in Seq({"ADD", "TERMINATE"})
      BY <1>4, HeadTailProperties DEF DataOK, OnSignalling
    <2>2. sm_response' \in {"SUCCESS", "FAILURE"}
      BY <1>4 DEF DataOK, OnSignalling, SmSignal
    <2>3. requests' \in {requests, <<>>} /\ active' \in {active, <<>>}
      BY <1>4 DEF OnSignalling
    <2>4. /\ requests' \in Seq([id : 1..MaxRequests, method : Methods])
          /\ active' \in Seq(1..MaxRequests)
      BY <2>3, EmptySeq, Zenon DEF DataOK
    <2>5. QED
      BY <1>4, <2>1, <2>2, <2>4 DEF DataOK, OnSignalling
  <1>5. CASE OnResponse
    <2> DEFINE r == Head(requests)
    <2>1. /\ r \in [id : 1..MaxRequests, method : Methods]
          /\ requests' \in Seq([id : 1..MaxRequests, method : Methods])
      BY <1>5, HeadTailProperties DEF DataOK, OnResponse
    <2>2. PICK ok \in BOOLEAN :
            /\ active' \in {active, Append(active, r.id), <<>>}
            /\ mrcp_response' \in {mrcp_response, [id |-> r.id, ok |-> ok]}
      BY <1>5 DEF OnResponse, ResponseSignal
    <2>3. r.id \in 1..MaxRequests
      BY <2>1
    <2>4. active' \in Seq(1..MaxRequests)
      <3>1. active \in Seq(1..MaxRequests)
        BY DEF DataOK
      <3>2. Append(active, r.id) \in Seq(1..MaxRequests)
        BY <2>3, <3>1, AppendProperties, Zenon
      <3>3. <<>> \in Seq(1..MaxRequests)
        BY EmptySeq, Zenon
      <3>4. QED
        BY <2>2, <3>1, <3>2, <3>3, Zenon
    <2>5. mrcp_response' \in [id : 0..MaxRequests, ok : BOOLEAN]
      BY <2>2, <2>3 DEF DataOK
    <2>6. QED
      BY <1>5, <2>1, <2>4, <2>5 DEF DataOK, OnResponse
  <1>6. CASE RecognitionComplete
    <2>1. Head(active) \in 1..MaxRequests /\ Tail(active) \in Seq(1..MaxRequests)
      BY <1>6, HeadTailProperties, Zenon DEF DataOK, RecognitionComplete
    <2>2. event' \in 0..MaxRequests /\ active' \in Seq(1..MaxRequests)
      BY <1>6, <2>1 DEF DataOK, RecognitionComplete
    <2>3. QED
      BY <1>6, <2>2 DEF DataOK, RecognitionComplete
  <1>7. CASE CheckState \/ StoreEvent \/ Completed
    BY <1>7 DEF DataOK, CheckState, StoreEvent, Completed
  <1>8. QED
    BY <1>1, <1>2, <1>3, <1>4, <1>5, <1>6, <1>7 DEF Asterisk, ClientTask

\* The flags stay Boolean.
LEMMA NextFlags == ASSUME FlagsOK, Next PROVE FlagsOK'
  <1> USE DEF FlagsOK, objectVars, waitVars, threadVars, taskVars, serverVars, historyVars
  <1>1. CASE AddWake \/ Terminate \/ TerminateWake \/ RequestWake
    BY <1>1, Zenon DEF AddWake, Terminate, TerminateWake, RequestWake, SmSend, After,
       TimedOut, Spurious
  <1>2. CASE SetProperties \/ Preload \/ Stop \/ DefineGrammar \/ Start
    BY <1>2, Zenon DEF SetProperties, Preload, Stop, DefineGrammar, Start, Ask,
       AskFails, After
  <1>3. CASE StopAccepted \/ Stopped \/ Changed \/ StartAccepted \/ Started \/ Get
    BY <1>3, Zenon DEF StopAccepted, Stopped, Changed, StartAccepted, Started, Get
  <1>4. CASE Asterisk
    BY <1>4, Zenon DEF Asterisk, CreateFails, Create, Destroy, Settle, Call, SmSend
  <1>5. CASE ClientTask
    BY <1>5, Zenon DEF ClientTask, OnSignalling, OnResponse, RecognitionComplete,
       CheckState, StoreEvent, Completed, SmSignal, ResponseSignal, Signal
  <1>6. CASE Over
    BY <1>6, Zenon DEF Over, vars
  <1>7. QED
    BY <1>1, <1>2, <1>3, <1>4, <1>5, <1>6 DEF Next, Run

LEMMA TypeStep == DataOK /\ FlagsOK /\ [Next]_vars => (DataOK /\ FlagsOK)'
  <1>1. ASSUME DataOK, FlagsOK, UNCHANGED vars PROVE DataOK' /\ FlagsOK'
    BY <1>1 DEF DataOK, FlagsOK, vars, objectVars, waitVars, threadVars, taskVars,
       serverVars, historyVars
  <1>2. QED
    BY <1>1, RunData, OtherData, NextFlags DEF Next, Over

-----------------------------------------------------------------------------
(* The inductive invariant.                                                *)

\* Only a thread that waits for an answer is given one, and signalled.
Waiting ==
  /\ mrcp_request <=> pc = "request_wait"
  /\ pc = "request_wait" => method \in Methods
  /\ pc = "request_wait" /\ method = "RECOGNIZE" => cur = sent
  /\ pc = "accepted" => method \in {"RECOGNIZE", "STOP"}
  /\ pc = "stopping" => method = "STOP"
  /\ pc = "starting" => method = "RECOGNIZE"
  /\ pc = "idle" <=> call = "none"
  /\ object \in {"none", "freed"} => pc = "idle"

\* As long as no wait gave up, there is an unanswered signalling request exactly
\* while the thread waits for it, and none is left when the object is freed.
OneSignalling ==
  /\ pc \in {"add_wait", "terminate_wait"} /\ ~signalled =>
       Len(signalling) = 1 /\ sm_request = Head(signalling)
  /\ pc \in {"add_wait", "terminate_wait"} /\ signalled => signalling = <<>>
  /\ pc \notin {"add_wait", "terminate_wait"} => signalling = <<>>
  /\ pc = "add_wait" => sm_request = "ADD"
  /\ pc = "terminate_wait" => sm_request = "TERMINATE"
  /\ pc = "terminate_wait" /\ signalled => ~live /\ handling = "none"
  /\ object \in {"none", "freed"} => ~live /\ handling = "none"
  /\ ~crashed

\* The same for the MRCP request, and the answer is the one to it.
OneRequest ==
  /\ pc = "request_wait" /\ ~signalled => Len(requests) = 1 /\ requests[1].id = sent
                                         /\ requests[1].method = method
  /\ pc = "request_wait" /\ signalled => requests = <<>> /\ mrcp_response.id = sent
  /\ pc # "request_wait" => requests = <<>>

\* The answer to m was a success, or will be taken for one.
Granted(m) ==
  method = m /\ (\/ pc \in {"accepted", "stopping", "starting"}
                 \/ pc = "request_wait" /\ signalled /\ mrcp_response.ok)

\* As long as no STOP was refused either, and no completion was handled inside
\* start, the server works on the last RECOGNIZE, if on any.
OneRecognition ==
  /\ active = <<>> \/ active = <<cur>>
  /\ mrcp_event \in {0, cur}
  /\ handling # "none" => event = cur
  /\ Granted("STOP") => active = <<>>
  /\ Granted("RECOGNIZE") => active = <<cur>>
  /\ pc = "go" /\ call # "load" => active = <<>>
  /\ pc = "request_wait" /\ method = "RECOGNIZE" /\ ~Granted("RECOGNIZE") => active = <<>>
  /\ object # "freed" /\ ~Granted("RECOGNIZE") /\ ~Granted("STOP")
     /\ pc \notin {"terminate", "terminate_wait"} =>
       (is_inprogress <=> active # <<>>)

IInv ==
  /\ DataOK /\ FlagsOK /\ Waiting
  /\ ~gaveUp => OneSignalling /\ OneRequest
  /\ ~gaveUp /\ ~refused /\ ~raced => OneRecognition

LEMMA InitIInv == Init => IInv
  <1> SUFFICES ASSUME Init PROVE IInv
    OBVIOUS
  <1>1. Waiting
    BY DEF Init, Waiting
  <1>2. OneSignalling /\ OneRequest
    BY DEF Init, OneSignalling, OneRequest
  <1>3. OneRecognition
    BY DEF Init, OneRecognition, Granted
  <1>4. QED
    BY <1>1, <1>2, <1>3, InitType DEF IInv

\* A step of the thread that only moves it, or sets fields of the object.
Moves ==
  \/ StopAccepted \/ Stopped \/ Changed \/ StartAccepted \/ Started \/ Get
  \/ CreateFails \/ Destroy \/ Settle
  \/ \E c \in Calls \ {"create", "destroy"} : Call(c)

Sends == SetProperties \/ Preload \/ Stop \/ DefineGrammar \/ Start

Signals == AddWake \/ Terminate \/ TerminateWake \/ Create

LEMMA NextCases == Next => Moves \/ Sends \/ Signals \/ RequestWake \/ ClientTask \/ Over
  BY DEF Next, Run, Asterisk, Moves, Sends, Signals

LEMMA WaitingStep == ASSUME DataOK, Waiting, Next PROVE Waiting'
  <1> USE DEF Waiting, Return, Goto, objectVars, waitVars, threadVars, taskVars,
        serverVars, historyVars
  <1>1. CASE Moves
    BY <1>1 DEF Moves, StopAccepted, Stopped, Changed, StartAccepted, Started, Get,
       CreateFails, Destroy, Settle, Call, Calls
  <1>2. ASSUME NEW m \in Methods, Ask(m), call # "none", UNCHANGED object,
               object = "present", m = "RECOGNIZE" => cur' = sent + 1
        PROVE  Waiting'
    BY <1>2 DEF Ask
  <1>3. ASSUME NEW m \in Methods, AskFails(m), call # "none", UNCHANGED object,
               object = "present", pc # "request_wait"
        PROVE  Waiting'
    BY <1>3 DEF AskFails, After
  <1>4. CASE Sends
    <2>1. CASE SetProperties
      BY <2>1, <1>2, <1>3 DEF SetProperties, Methods, DataOK
    <2>2. CASE Preload
      <3>1. CASE Return /\ UNCHANGED <<waitVars, method, serverVars, refused>>
        BY <2>2, <3>1 DEF Preload, DataOK
      <3>2. QED
        BY <2>2, <1>2, <1>3, <3>1 DEF Preload, Methods, DataOK
    <2>3. CASE Stop
      BY <2>3, <1>2, <1>3 DEF Stop, Methods, DataOK
    <2>4. CASE DefineGrammar
      BY <2>4, <1>2, <1>3 DEF DefineGrammar, Methods, DataOK
    <2>5. CASE Start
      BY <2>5, <1>2, <1>3 DEF Start, Methods, DataOK
    <2>6. QED
      BY <1>4, <2>1, <2>2, <2>3, <2>4, <2>5 DEF Sends
  <1>5. CASE Signals
    BY <1>5 DEF Signals, AddWake, Terminate, TerminateWake, Create, SmSend, Cleanup
  <1>6. CASE RequestWake
    BY <1>6 DEF RequestWake, After, DataOK
  <1>7. CASE ClientTask
    BY <1>7 DEF ClientTask, OnSignalling, OnResponse, RecognitionComplete, CheckState,
       StoreEvent, Completed, SmSignal, ResponseSignal
  <1>8. CASE Over
    BY <1>8 DEF Over, vars
  <1>9. QED
    BY <1>1, <1>4, <1>5, <1>6, <1>7, <1>8, NextCases

\* As long as no wait gives up, nothing is left unanswered.
LEMMA GivesUpForGood == ASSUME Next, ~gaveUp' PROVE ~gaveUp
  <1> USE DEF historyVars, TimedOut, Spurious
  <1>1. CASE Moves \/ Over
    BY <1>1 DEF Moves, StopAccepted, Stopped, Changed, StartAccepted, Started, Get,
       CreateFails, Destroy, Settle, Call, Over, vars
  <1>2. CASE Sends \/ Signals \/ RequestWake
    BY <1>2 DEF Sends, SetProperties, Preload, Stop, DefineGrammar, Start,
       Signals, AddWake, Terminate, TerminateWake, Create, RequestWake
  <1>3. CASE ClientTask
    BY <1>3 DEF ClientTask, OnSignalling, OnResponse, RecognitionComplete, CheckState,
       StoreEvent, Completed
  <1>4. QED
    BY <1>1, <1>2, <1>3, NextCases

LEMMA QuietStep ==
  ASSUME DataOK, Waiting, Next, OneSignalling, OneRequest, ~gaveUp'
  PROVE  OneSignalling' /\ OneRequest'
  <1> USE DEF OneSignalling, OneRequest, Waiting, Return, Goto, objectVars, waitVars,
        threadVars, taskVars, serverVars, historyVars
  <1>1. CASE Moves
    BY <1>1 DEF Moves, StopAccepted, Stopped, Changed, StartAccepted, Started, Get,
       CreateFails, Destroy, Settle, Call, Calls
  <1>2. ASSUME NEW m \in Methods, Ask(m), object = "present", pc \notin Waits,
               UNCHANGED <<object, taskVars, crashed>>
        PROVE  OneSignalling' /\ OneRequest'
    <2> DEFINE e == [id |-> sent + 1, method |-> m]
    <2>1. requests = <<>> /\ requests' = Append(requests, e)
      BY <1>2 DEF Ask, Waits
    <2>2. Len(requests') = 1 /\ requests'[1] = e
      BY <2>1, First
    <2>3. requests'[1].id = sent' /\ requests'[1].method = method'
      BY <1>2, <2>2 DEF Ask
    <2>4. QED
      BY <1>2, <2>2, <2>3 DEF Ask, Waits
  <1>3. ASSUME NEW m \in Methods, AskFails(m), object = "present", pc \notin Waits,
               UNCHANGED <<object, taskVars, crashed>>
        PROVE  OneSignalling' /\ OneRequest'
    BY <1>3 DEF AskFails, After, Waits
  <1>4. CASE Sends
    <2>1. CASE SetProperties
      BY <2>1, <1>2, <1>3 DEF SetProperties, Methods, DataOK, Waits
    <2>2. CASE Preload
      <3>1. CASE Return /\ UNCHANGED <<waitVars, method, serverVars, refused>>
        BY <2>2, <3>1 DEF Preload, DataOK
      <3>2. QED
        BY <2>2, <1>2, <1>3, <3>1 DEF Preload, Methods, DataOK, Waits
    <2>3. CASE Stop
      BY <2>3, <1>2, <1>3 DEF Stop, Methods, DataOK, Waits
    <2>4. CASE DefineGrammar
      BY <2>4, <1>2, <1>3 DEF DefineGrammar, Methods, DataOK, Waits
    <2>5. CASE Start
      BY <2>5, <1>2, <1>3 DEF Start, Methods, DataOK, Waits
    <2>6. QED
      BY <1>4, <2>1, <2>2, <2>3, <2>4, <2>5 DEF Sends
  <1>5. CASE Signals
    <2>1. CASE AddWake \/ TerminateWake
      BY <2>1 DEF AddWake, TerminateWake, Cleanup, TimedOut, Spurious
    <2>2. ASSUME NEW request \in {"ADD", "TERMINATE"}, signalling = <<>>,
                 SmSend(request, pc'), pc \notin Waits
          PROVE  Len(signalling') = 1 /\ Head(signalling') = sm_request'
      BY <2>2, First DEF SmSend
    <2>3. CASE Create
      <3>1. SmSend("ADD", pc') /\ signalling = <<>> /\ pc = "idle"
        BY <2>3 DEF Create, SmSend
      <3>2. QED
        BY <2>3, <2>2, <3>1 DEF Create, SmSend, Waits
    <2>4. CASE Terminate
      <3>1. SmSend("TERMINATE", "terminate_wait") /\ object' = object
        BY <2>4 DEF Terminate, Cleanup
      <3>2. SmSend("TERMINATE", pc') /\ signalling = <<>> /\ pc = "terminate"
        BY <2>4, <3>1 DEF Terminate, SmSend
      <3>3. QED
        BY <2>4, <2>2, <3>1, <3>2 DEF Terminate, SmSend, Waits
    <2>5. QED
      BY <1>5, <2>1, <2>3, <2>4 DEF Signals
  <1>6. CASE RequestWake
    BY <1>6 DEF RequestWake, After, DataOK, TimedOut, Spurious
  <1>7. CASE OnSignalling
    <2>1. /\ pc \in {"add_wait", "terminate_wait"} /\ ~signalled
          /\ sm_request = Head(signalling) /\ Len(signalling) = 1
      BY <1>7 DEF OnSignalling
    <2>2. signalling' = <<>>
      BY <1>7, <2>1, Last DEF OnSignalling, DataOK
    <2>3. object = "present"
      BY <2>1 DEF DataOK
    <2>4. signalled' /\ ~crashed' /\ requests' = <<>>
      BY <1>7, <2>1, <2>3 DEF OnSignalling, SmSignal, Signal, Waits
    <2>5. pc = "terminate_wait" => ~live'
      BY <1>7, <2>1 DEF OnSignalling
    <2>6. QED
      BY <1>7, <2>1, <2>2, <2>3, <2>4, <2>5 DEF OnSignalling
  <1>8. CASE OnResponse
    <2>1. pc = "request_wait" /\ ~signalled /\ Len(requests) = 1
          /\ requests[1].id = sent
      BY <1>8 DEF OnResponse
    <2>2. requests' = <<>> /\ Head(requests).id = sent
      BY <1>8, <2>1, Last DEF OnResponse, DataOK
    <2>3. object = "present"
      BY <2>1 DEF DataOK
    <2>4. signalled' /\ ~crashed' /\ mrcp_response'.id = sent
      <3>1. PICK ok \in BOOLEAN :
              /\ mrcp_response' = [id |-> Head(requests).id, ok |-> ok]
              /\ Signal /\ UNCHANGED crashed
        BY <1>8, <2>1, <2>3 DEF OnResponse, ResponseSignal
      <3>2. QED
        BY <2>1, <2>2, <3>1 DEF Signal, Waits
    <2>5. QED
      BY <1>8, <2>1, <2>2, <2>3, <2>4 DEF OnResponse
  <1>9. CASE RecognitionComplete \/ CheckState \/ StoreEvent \/ Completed
    BY <1>9 DEF RecognitionComplete, CheckState, StoreEvent, Completed
  <1>10. CASE Over
    BY <1>10 DEF Over, vars
  <1>11. QED
    BY <1>1, <1>4, <1>5, <1>6, <1>7, <1>8, <1>9, <1>10, NextCases DEF ClientTask

\* As long as, besides, no STOP is refused and no completion is handled in start,
\* the server has no recognition but the last one.
LEMMA ExemptForGood ==
  ASSUME FlagsOK, Next, ~refused', ~raced' PROVE ~refused /\ ~raced
  <1> USE DEF historyVars, AskFails, After
  <1>0. refused \in BOOLEAN /\ raced \in BOOLEAN
    BY DEF FlagsOK
  <1>1. CASE Moves \/ Over
    BY <1>1 DEF Moves, StopAccepted, Stopped, Changed, StartAccepted, Started, Get,
       CreateFails, Destroy, Settle, Call, Over, vars
  <1>2. CASE Sends
    <2>1. refused' = refused \/ \E m, ok : After(m, ok)
      BY <1>2 DEF Sends, SetProperties, Preload, Stop, DefineGrammar, Start
    <2>2. raced' = raced \/ raced' = (raced \/ handling # "none")
      BY <1>2 DEF Sends, SetProperties, Preload, Stop, DefineGrammar, Start
    <2>3. QED
      BY <1>0, <2>1, <2>2
  <1>3. CASE Signals \/ RequestWake
    BY <1>0, <1>3 DEF Signals, AddWake, Terminate, TerminateWake, Create, RequestWake
  <1>4. CASE ClientTask
    BY <1>0, <1>4 DEF ClientTask, OnSignalling, OnResponse, RecognitionComplete,
       CheckState, StoreEvent, Completed
  <1>5. QED
    BY <1>1, <1>2, <1>3, <1>4, NextCases

LEMMA RecognitionStep ==
  ASSUME DataOK, Waiting, Next, OneSignalling, OneRequest, OneRecognition,
         ~gaveUp', ~refused', ~raced'
  PROVE  OneRecognition'
  <1> USE DEF OneRecognition, Granted, Waiting, Return, Goto, objectVars, waitVars,
        threadVars, taskVars, serverVars, historyVars
  <1>1. CASE Moves
    <2>1. CASE StopAccepted \/ StartAccepted
      BY <2>1 DEF StopAccepted, StartAccepted
    <2>2. CASE Stopped
      BY <2>2 DEF Stopped
    <2>3. CASE Started
      <3>1. active = <<cur>> /\ active # <<>>
        BY <2>3 DEF Started
      <3>2. QED
        BY <2>3, <3>1 DEF Started
    <2>4. CASE Changed \/ Get \/ Settle
      BY <2>4 DEF Changed, Get, Settle
    <2>5. CASE CreateFails \/ Destroy
      BY <2>5 DEF CreateFails, Destroy
    <2>6. ASSUME NEW c \in Calls \ {"create", "destroy"}, Call(c) PROVE OneRecognition'
      BY <2>6 DEF Call
    <2>7. QED
      BY <1>1, <2>1, <2>2, <2>3, <2>4, <2>5, <2>6 DEF Moves
  <1>2. ASSUME NEW m \in Methods \ {"RECOGNIZE"}, Ask(m), pc \notin Waits,
               pc \notin {"accepted", "stopping", "starting", "terminate"},
               UNCHANGED <<object, is_inprogress, taskVars, cur>>,
               mrcp_event' \in {mrcp_event, 0}
        PROVE  OneRecognition'
    BY <1>2 DEF Ask, Waits
  <1>3. ASSUME NEW m \in Methods \ {"STOP"}, AskFails(m), pc \notin Waits,
               pc \notin {"accepted", "stopping", "starting", "terminate"},
               UNCHANGED <<object, is_inprogress, taskVars>>,
               mrcp_event' \in {mrcp_event, 0}
        PROVE  OneRecognition'
    BY <1>3 DEF AskFails, After, Waits
  <1>4. CASE SetProperties
    BY <1>2, <1>3, <1>4 DEF SetProperties, Methods, Waits
  <1>5. CASE Preload
    <2>1. CASE Return /\ UNCHANGED <<waitVars, method, serverVars, refused>>
      BY <1>5, <2>1 DEF Preload
    <2>2. QED
      BY <1>2, <1>3, <1>5, <2>1 DEF Preload, Methods, Waits
  <1>6. CASE Stop
    <2>1. ~AskFails("STOP")
      BY DEF AskFails, After
    <2>2. QED
      BY <1>2, <1>6, <2>1 DEF Stop, Methods, Waits
  <1>7. CASE DefineGrammar
    BY <1>2, <1>3, <1>7 DEF DefineGrammar, Methods, Waits
  <1>8. CASE Start
    <2>1. CASE AskFails("RECOGNIZE")
      BY <1>3, <1>8, <2>1 DEF Start, Methods, Waits, Ask
    <2>2. CASE Ask("RECOGNIZE")
      BY <1>8, <2>2 DEF Start, Ask, AskFails
    <2>3. QED
      BY <1>8, <2>1, <2>2 DEF Start
  <1>9. CASE Signals
    BY <1>9 DEF Signals, AddWake, Terminate, TerminateWake, Create, SmSend, Cleanup,
       TimedOut, Spurious
  <1>10. CASE RequestWake
    BY <1>10 DEF RequestWake, After, TimedOut, Spurious
  <1>11. CASE OnSignalling
    BY <1>11 DEF OnSignalling, OneSignalling, SmSignal, Signal, DataOK
  <1>12. CASE OnResponse
    <2> DEFINE r == Head(requests)
    <2>1. /\ pc = "request_wait" /\ ~signalled /\ object = "present"
          /\ r.id = sent /\ r.method = method
      BY <1>12, Last DEF OnResponse, OneRequest, DataOK
    <2>2. PICK ok \in BOOLEAN :
            /\ active' = IF ~ok THEN active
                         ELSE IF r.method = "RECOGNIZE" THEN Append(active, r.id)
                         ELSE IF r.method = "STOP" THEN <<>> ELSE active
            /\ mrcp_response' = [id |-> r.id, ok |-> ok] /\ signalled' = TRUE
      BY <1>12, <2>1 DEF OnResponse, ResponseSignal, Signal, Waits
    <2>3. /\ mrcp_response'.ok = ok
          /\ UNCHANGED <<object, is_inprogress, mrcp_event, pc, call, method, handling,
                         event, cur>>
      BY <1>12, <2>2 DEF OnResponse
    <2>4. CASE ~ok
      BY <2>1, <2>2, <2>3, <2>4
    <2>5. CASE ok /\ method = "RECOGNIZE"
      <3>1. active = <<>> /\ cur = sent
        BY <2>1, <2>5
      <3>2. active' = <<cur>>
        BY <2>1, <2>2, <2>5, <3>1, First
      <3>3. QED
        BY <2>1, <2>2, <2>3, <2>5, <3>2
    <2>6. CASE ok /\ method # "RECOGNIZE"
      BY <2>1, <2>2, <2>3, <2>6
    <2>7. QED
      BY <2>4, <2>5, <2>6
  <1>13. CASE RecognitionComplete
    <2>1. object # "freed" /\ active = <<cur>>
      BY <1>13 DEF RecognitionComplete, OneSignalling
    <2>2. active' = <<>> /\ event' = cur /\ ~is_inprogress' /\ ~InStart
      <3>1. Len(active) = 1 /\ Head(active) = cur
        BY <2>1, First
      <3>2. Tail(active) = <<>>
        BY <3>1, Last DEF DataOK
      <3>3. QED
        BY <1>13, <2>1, <3>1, <3>2 DEF RecognitionComplete
    <2>3. ~Granted("RECOGNIZE")
      BY <2>2 DEF InStart
    <2>4. QED
      BY <1>13, <2>1, <2>2, <2>3 DEF RecognitionComplete
  <1>14. CASE CheckState \/ StoreEvent \/ Completed
    BY <1>14 DEF CheckState, StoreEvent, Completed, OneSignalling
  <1>15. CASE Over
    BY <1>15 DEF Over, vars
  <1>16. QED
    BY <1>1, <1>4, <1>5, <1>6, <1>7, <1>8, <1>9, <1>10, <1>11, <1>12, <1>13, <1>14,
       <1>15, NextCases DEF Sends, ClientTask

LEMMA NextIInv == IInv /\ [Next]_vars => IInv'
  <1>1. ASSUME IInv, Next PROVE IInv'
    <2>1. DataOK' /\ FlagsOK' /\ Waiting'
      BY <1>1, TypeStep, WaitingStep DEF IInv
    <2>2. ~gaveUp' => OneSignalling' /\ OneRequest'
      BY <1>1, GivesUpForGood, QuietStep DEF IInv
    <2>3. ~gaveUp' /\ ~refused' /\ ~raced' => OneRecognition'
      BY <1>1, GivesUpForGood, ExemptForGood, RecognitionStep DEF IInv
    <2>4. QED
      BY <2>1, <2>2, <2>3 DEF IInv
  <1>2. ASSUME IInv, UNCHANGED vars PROVE IInv'
    BY <1>2 DEF IInv, DataOK, FlagsOK, Waiting, OneSignalling, OneRequest,
       OneRecognition, Granted, vars, objectVars, waitVars, threadVars, taskVars,
       serverVars, historyVars
  <1>3. QED
    BY <1>1, <1>2

LEMMA AlwaysIInv == Spec => []IInv
  BY InitIInv, NextIInv, PTL DEF Spec

-----------------------------------------------------------------------------
\* Every variable keeps its type: no more requests are answered, and no more
\* recognitions completed, than were sent.
THEOREM UniTypeCorrect == Spec => []UniTypeOK
  <1>1. IInv => UniTypeOK
    BY TypeParts DEF IInv
  <1>2. QED
    BY <1>1, AlwaysIInv, PTL

\* The object is freed only when no callback for it runs or is to come, unless
\* uni_recog_destroy, or a failing create, gave up an answer.
THEOREM FreedObjectIsQuiet == Spec => []FreedIsQuiet
  <1>1. IInv => FreedIsQuiet
    BY DEF IInv, FreedIsQuiet, Waiting, OneSignalling
  <1>2. QED
    BY <1>1, AlwaysIInv, PTL

\* Although uni_recog_mrcp_response_signal takes any response, one that was
\* waited for to the end is the response to the request just sent.
THEOREM AnswersAreOwn == Spec => AnswerIsOwn
  <1>1. IInv /\ [Next]_vars => [RequestWake /\ ~gaveUp' => mrcp_response.id = sent]_vars
    <2> SUFFICES ASSUME IInv, Next, RequestWake, ~gaveUp'
                 PROVE  mrcp_response.id = sent
      OBVIOUS
    <2>1. ~gaveUp /\ signalled
      BY GivesUpForGood DEF RequestWake, TimedOut, Spurious
    <2>2. QED
      BY <2>1 DEF IInv, OneRequest, RequestWake
  <1>2. QED
    BY <1>1, AlwaysIInv, PTL DEF Spec, AnswerIsOwn

\* The event kept by on_message_receive is that of the last RECOGNIZE.
THEOREM ResultsAreOwn == Spec => []ResultIsOwn
  <1>1. IInv => ResultIsOwn
    BY DEF IInv, ResultIsOwn, OneRecognition
  <1>2. QED
    BY <1>1, AlwaysIInv, PTL

\* Between calls the flag is_inprogress is what the server is doing.
THEOREM InProgressIsKnown == Spec => []InProgressIsTrue
  <1>1. IInv => InProgressIsTrue
    BY DEF IInv, InProgressIsTrue, OneRecognition, Granted
  <1>2. QED
    BY <1>1, AlwaysIInv, PTL

-----------------------------------------------------------------------------
(* No call is stuck: what CallsReturn needs besides fairness.              *)

\* The functions that stop a recognition in progress, and those that go on.
Placed ==
  /\ pc \in {"stop", "stopping"} => call \in Calls \ {"create", "load", "destroy"}
  /\ pc \in {"request_wait", "accepted"} /\ method = "STOP" =>
       call \in Calls \ {"create", "load", "destroy"}
  /\ pc = "go" => call \in Calls \ {"create", "stop", "destroy"}

\* The guards of the thread's steps.  Every wait has a timeout.
RunReady ==
  \/ pc \in Waits \cup {"properties", "preload", "stop", "stopping", "starting",
                        "terminate"}
  \/ pc = "accepted" /\ method \in {"STOP", "RECOGNIZE"}
  \/ pc = "go" /\ call \in {"load", "unload", "change", "start", "get"}

\* In a call the thread always has a next step of its own, whatever the library
\* and the server do or fail to do.
NoCallIsStuck == pc \notin {"idle", "spin"} => RunReady

\* How far a function is from its end, between two requests ...
Rank ==
  IF pc = "request_wait" THEN 4
  ELSE IF pc \in {"accepted", "add_wait"} THEN 3
  ELSE IF pc \in {"stop", "stopping", "properties", "terminate"} THEN 2
  ELSE IF pc \in {"go", "preload", "starting", "terminate_wait"} THEN 1 ELSE 0

\* ... and over all the requests it may still send.
ToGo == 4 * (MaxRequests - sent) + Rank

\* The client task neither moves the thread nor gives it more to do, and each step
\* of the thread takes the call on, or into the loop of uni_recog_get.
CallAdvances ==
  pc \notin {"idle", "spin"} =>
    \/ ClientTask /\ pc' = pc /\ ToGo' = ToGo
    \/ ToGo' < ToGo

LEMMA ToGoIsNatural == ASSUME DataOK PROVE ToGo \in Nat
  BY RequestsAssumption DEF RequestsAssumption, DataOK, ToGo, Rank

\* Where the thread goes, for each group of its steps.
LEMMA PlacedStep == ASSUME DataOK, Waiting, Placed, Next PROVE Placed'
  <1> USE DEF Placed, Calls, Return, Goto, objectVars, waitVars, threadVars, taskVars,
        serverVars, historyVars
  <1>1. CASE Moves
    BY <1>1 DEF Moves, Waiting, StopAccepted, Stopped, Changed, StartAccepted, Started,
       Get, CreateFails, Destroy, Settle, Call
  <1>2. CASE SetProperties \/ Preload \/ DefineGrammar \/ Start
    BY <1>2 DEF SetProperties, Preload, DefineGrammar, Start, Ask, AskFails, After
  <1>3. CASE Stop
    BY <1>3 DEF Stop, Ask, AskFails, After
  <1>4. CASE Signals
    BY <1>4 DEF Signals, AddWake, Terminate, TerminateWake, Create, SmSend, Cleanup
  <1>5. CASE RequestWake
    BY <1>5 DEF RequestWake, After
  <1>6. CASE ClientTask
    BY <1>6 DEF ClientTask, OnSignalling, OnResponse, RecognitionComplete, CheckState,
       StoreEvent, Completed
  <1>7. CASE Over
    BY <1>7 DEF Over, vars
  <1>8. QED
    BY <1>1, <1>2, <1>3, <1>4, <1>5, <1>6, <1>7, NextCases DEF Sends

LEMMA AlwaysPlaced == Spec => []Placed
  <1>1. Init => Placed
    BY DEF Init, Placed
  <1>2. IInv /\ Placed /\ [Next]_vars => Placed'
    <2>1. ASSUME Placed, UNCHANGED vars PROVE Placed'
      BY <2>1 DEF Placed, vars, threadVars
    <2>2. QED
      BY <2>1, PlacedStep DEF IInv
  <1>3. QED
    BY <1>1, <1>2, AlwaysIInv, PTL DEF Spec

\* In a call the thread always has a step to take: no function of the engine waits
\* for an answer that may not come.
THEOREM NobodyWaitsInVain == Spec => []NoCallIsStuck
  <1>1. IInv /\ Placed => NoCallIsStuck
    BY DEF IInv, DataOK, Waiting, Placed, PCs, Calls, RunReady, NoCallIsStuck
  <1>2. QED
    BY <1>1, AlwaysIInv, AlwaysPlaced, PTL

\* A request that is sent is one less to send, and weighs more than its answer.
LEMMA AskAdvances ==
  ASSUME DataOK, NEW m, Ask(m), Rank >= 1 PROVE ToGo' < ToGo
  <1>1. sent' = sent + 1 /\ Rank' = 4 /\ Rank \in 1..4
    BY DEF Ask, Goto, Rank
  <1>2. sent \in Nat /\ MaxRequests \in Nat
    BY RequestsAssumption DEF RequestsAssumption, DataOK
  <1>3. \A n, k \in Nat : \A r \in 1..4 : 4 * (n - (k + 1)) + 4 < 4 * (n - k) + r
    OBVIOUS
  <1>4. QED
    BY <1>1, <1>2, <1>3, Zenon DEF ToGo

\* A step within a function goes down the ranks.
LEMMA RankFalls == ASSUME DataOK, sent' = sent, Rank' < Rank PROVE ToGo' < ToGo
  <1>1. Rank \in Nat /\ Rank' \in Nat
    BY DEF Rank
  <1>2. sent \in Nat /\ MaxRequests \in Nat
    BY RequestsAssumption DEF RequestsAssumption, DataOK
  <1>3. \A n, k, r, q \in Nat : q < r => 4 * (n - k) + q < 4 * (n - k) + r
    OBVIOUS
  <1>4. QED
    BY <1>1, <1>2, <1>3, Zenon DEF ToGo

\* The steps of the thread take its call on.  A configured grammar that cannot be
\* defined is passed over, and is no step.
LEMMA RunAdvances ==
  ASSUME IInv, Run, pc # "spin", ~UNCHANGED vars PROVE ToGo' < ToGo
  <1> USE DEF IInv, Return, Goto, objectVars, waitVars, threadVars, taskVars,
        serverVars, historyVars
  <1>1. ASSUME NEW m, AskFails(m), Rank' < Rank PROVE ToGo' < ToGo
    BY <1>1, RankFalls DEF AskFails
  <1>2. CASE AddWake \/ Terminate \/ TerminateWake
    <2>1. sent' = sent /\ Rank' < Rank
      BY <1>2 DEF AddWake, Terminate, TerminateWake, SmSend, Cleanup, Rank
    <2>2. QED
      BY <2>1, RankFalls
  <1>3. CASE StopAccepted \/ Stopped \/ Changed \/ StartAccepted \/ Started \/ Get
    <2>1. sent' = sent /\ Rank' < Rank
      BY <1>3 DEF StopAccepted, Stopped, Changed, StartAccepted, Started, Get, Rank
    <2>2. QED
      BY <2>1, RankFalls
  <1>4. CASE RequestWake
    <2>1. sent' = sent /\ Rank' < Rank
      BY <1>4 DEF RequestWake, After, Rank
    <2>2. QED
      BY <2>1, RankFalls
  <1>5. CASE SetProperties
    <2>1. Rank >= 1 /\ (AskFails("SET-PARAMS") => Rank' < Rank)
      BY <1>5 DEF SetProperties, AskFails, After, Rank
    <2>2. QED
      BY <1>1, <1>5, <2>1, AskAdvances DEF SetProperties
  <1>6. CASE Stop
    <2>1. Rank >= 1 /\ (AskFails("STOP") => Rank' < Rank)
      BY <1>6 DEF Stop, AskFails, After, Rank
    <2>2. QED
      BY <1>1, <1>6, <2>1, AskAdvances DEF Stop
  <1>7. CASE DefineGrammar
    <2>1. Rank >= 1 /\ (AskFails("DEFINE-GRAMMAR") => Rank' < Rank)
      BY <1>7 DEF DefineGrammar, AskFails, After, Rank
    <2>2. QED
      BY <1>1, <1>7, <2>1, AskAdvances DEF DefineGrammar
  <1>8. CASE Start
    <2>1. Rank >= 1 /\ (AskFails("RECOGNIZE") => Rank' < Rank)
      BY <1>8 DEF Start, AskFails, After, Rank
    <2>2. QED
      BY <1>1, <1>8, <2>1, AskAdvances DEF Start
  <1>9. CASE Preload
    <2>1. CASE Ask("DEFINE-GRAMMAR")
      <3>1. Rank >= 1
        BY <1>9 DEF Preload, Rank
      <3>2. QED
        BY <2>1, <3>1, AskAdvances
    <2>2. CASE Return
      <3>1. sent' = sent /\ Rank' < Rank
        BY <1>9, <2>2 DEF Preload, Ask, AskFails, After, Rank
      <3>2. QED
        BY <3>1, RankFalls
    <2>3. CASE AskFails("DEFINE-GRAMMAR") /\ call = "create"
      <3>1. pc' = pc /\ UNCHANGED <<call, waitVars, method, serverVars>>
        BY <1>9, <2>3 DEF Preload, AskFails, After
      <3>2. refused' = refused
        BY <1>9, <2>3, Zenon DEF Preload, AskFails, After, FlagsOK
      <3>3. QED
        BY <1>9, <3>1, <3>2 DEF Preload, vars
    <2>4. CASE AskFails("DEFINE-GRAMMAR") /\ call # "create"
      <3>1. sent' = sent /\ Rank' < Rank
        BY <1>9, <2>4 DEF Preload, AskFails, After, Rank
      <3>2. QED
        BY <3>1, RankFalls
    <2>5. QED
      BY <1>9, <2>1, <2>2, <2>3, <2>4 DEF Preload
  <1>10. QED
    BY <1>2, <1>3, <1>4, <1>5, <1>6, <1>7, <1>8, <1>9 DEF Run

\* The client task leaves the thread where it is.
LEMMA TaskWaits == ASSUME ClientTask PROVE pc' = pc /\ ToGo' = ToGo
  BY DEF ClientTask, OnSignalling, OnResponse, RecognitionComplete, CheckState,
     StoreEvent, Completed, objectVars, waitVars, threadVars, taskVars, serverVars, historyVars,
     ToGo, Rank

\* Every call comes nearer to its end by each step of its thread, and no other
\* step takes it back, for any number of requests.
THEOREM CallsAdvance == Spec => [][CallAdvances]_vars
  <1>1. IInv /\ Next => [CallAdvances]_vars
    <2> SUFFICES ASSUME IInv, Next, ~UNCHANGED vars, pc \notin {"idle", "spin"}
                 PROVE  (ClientTask /\ pc' = pc /\ ToGo' = ToGo) \/ ToGo' < ToGo
      BY DEF CallAdvances
    <2>1. ~Asterisk
      BY DEF IInv, Waiting, Asterisk, CreateFails, Create, Destroy, Settle, Call
    <2>2. QED
      BY <2>1, RunAdvances, TaskWaits DEF Next, Over
  <1>2. QED
    BY <1>1, AlwaysIInv, PTL DEF Spec
=============================================================================
