------------------------------ MODULE UniSpeech ------------------------------
(***************************************************************************)
(* One speech object of the generic speech recognition API                 *)
(* (res-speech-unimrcp/res_speech_unimrcp.c).                              *)
(*                                                                         *)
(* Asterisk's thread calls the functions of the engine, one at a time.     *)
(* Each signalling or MRCP request is sent and answered inside one call:   *)
(* the thread waits on the object's only condition variable, once, for a   *)
(* signal, the timeout or a spurious wakeup.  The UniMRCP client task      *)
(* takes the mutex to hand over an answer; the event RECOGNITION-COMPLETE  *)
(* it handles without, and the thread sets the same fields without, so     *)
(* each of these assignments is an action.                                 *)
(*                                                                         *)
(* External: Asterisk, which may call any function of the engine; the      *)
(* UniMRCP library and the server, which answer requests in order, at any  *)
(* time or never.                                                          *)
(***************************************************************************)
EXTENDS Naturals, Sequences

CONSTANT MaxRequests  \* bound: MRCP requests sent in the life of the object

ASSUME RequestsAssumption == MaxRequests \in Nat \ {0}

VARIABLES
  object,         \* uni_speech: "none" (not created yet), "present", "freed"
  is_inprogress,
  state,          \* speech_base->state
  mrcp_event,     \* the RECOGNIZE the stored event completes, or 0 (NULL)
  mrcp_request,   \* is an MRCP request waited for?
  mrcp_response,  \* [id, ok]: whose answer it is, and is it a success?
  sm_request,     \* the signalling request sent last
  sm_response,
  signalled,      \* the waiting thread was signalled and did not run yet
  pc,             \* where the thread is in a call
  call,           \* the engine's function it is in
  method,         \* the MRCP request it sent last
  handling,       \* the client task inside RECOGNITION-COMPLETE, else "none"
  event           \* the RECOGNIZE that event completes

VARIABLES
  signalling,     \* signalling requests not answered
  live,           \* the channel was added and the session not terminated
  requests,       \* MRCP requests not answered: a sequence of [id, method]
  active,         \* the RECOGNIZEs the server has in progress (the first) or queued
  sent,           \* MRCP requests sent
  cur,            \* the last RECOGNIZE sent
  gaveUp,         \* history: a wait ended, or a terminate was refused, unanswered
  refused,        \* history: a STOP was refused or could not be sent
  raced,          \* history: a completion was handled while start was under way
  crashed         \* the client task used the object after it was freed

objectVars == <<object, is_inprogress, state, mrcp_event>>
waitVars == <<mrcp_request, mrcp_response, sm_request, sm_response, signalled>>
threadVars == <<pc, call, method>>
taskVars == <<handling, event>>
serverVars == <<signalling, live, requests, active, sent, cur>>
historyVars == <<gaveUp, refused, raced, crashed>>
vars ==
  <<objectVars, waitVars, threadVars, taskVars, serverVars, historyVars>>

Methods == {"SET-PARAMS", "DEFINE-GRAMMAR", "RECOGNIZE", "STOP"}

\* deactivate_grammar, change and change_results_type are "change".
Calls == {"create", "load", "unload", "start", "stop", "change", "get", "destroy"}

Waits == {"add_wait", "terminate_wait", "request_wait"}

PCs == Waits \cup {"idle", "properties", "preload", "stop", "stopping", "go",
                   "starting", "accepted", "terminate", "spin"}

NoMessage == [id |-> 0, ok |-> FALSE]

UniTypeOK ==
  /\ object \in {"none", "present", "freed"}
  /\ state \in {"NOT_READY", "READY", "DONE"}
  /\ {mrcp_event, event, cur} \subseteq 0..MaxRequests /\ sent \in 0..MaxRequests
  /\ {is_inprogress, mrcp_request, signalled, live} \subseteq BOOLEAN
  /\ {gaveUp, refused, raced, crashed} \subseteq BOOLEAN
  /\ mrcp_response \in [id : 0..MaxRequests, ok : BOOLEAN]
  /\ sm_request \in {"NONE", "ADD", "TERMINATE"}
  /\ sm_response \in {"SUCCESS", "FAILURE"}
  /\ pc \in PCs /\ call \in Calls \cup {"none"} /\ method \in Methods \cup {"none"}
  /\ handling \in {"none", "cleared", "checked", "stored"}
  /\ signalling \in Seq({"ADD", "TERMINATE"})
  /\ requests \in Seq([id : 1..MaxRequests, method : Methods])
  /\ active \in Seq(1..MaxRequests)

Init ==
  /\ object = "none" /\ is_inprogress = FALSE /\ state = "NOT_READY"
  /\ mrcp_event = 0 /\ mrcp_request = FALSE /\ mrcp_response = NoMessage
  /\ sm_request = "NONE" /\ sm_response = "SUCCESS" /\ signalled = FALSE
  /\ pc = "idle" /\ call = "none" /\ method = "none"
  /\ handling = "none" /\ event = 0
  /\ signalling = <<>> /\ live = FALSE /\ requests = <<>> /\ active = <<>>
  /\ sent = 0 /\ cur = 0
  /\ gaveUp = FALSE /\ refused = FALSE /\ raced = FALSE /\ crashed = FALSE

-----------------------------------------------------------------------------
(* Helpers.                                                                *)

Goto(p) == pc' = p /\ UNCHANGED call

Return == pc' = "idle" /\ call' = "none"

\* uni_recog_sm_request_send, up to its wait.
SmSend(request, wait) ==
  /\ sm_request' = request /\ signalled' = FALSE
  /\ signalling' = Append(signalling, request)
  /\ pc' = wait

\* The wait ended without an answer: by the timeout, or spuriously.
TimedOut == gaveUp' = TRUE
Spurious == ~signalled /\ gaveUp' = TRUE

\* uni_recog_mrcp_request_send, up to its wait.
Ask(m) ==
  /\ sent < MaxRequests
  /\ mrcp_request' = TRUE /\ signalled' = FALSE
  /\ requests' = Append(requests, [id |-> sent + 1, method |-> m])
  /\ sent' = sent + 1
  /\ method' = m /\ Goto("request_wait")
  /\ UNCHANGED <<mrcp_response, sm_request, sm_response, signalling, live, active>>

\* What the caller of uni_recog_mrcp_request_send does when it returns ok for
\* the request m.  Only stop itself looks at the result of a STOP.
After(m, ok) ==
  /\ \/ m = "SET-PARAMS" /\ Goto("preload")
     \/ m = "DEFINE-GRAMMAR" /\ call = "create" /\ Goto("preload")
     \/ m = "DEFINE-GRAMMAR" /\ call # "create" /\ Return
     \/ m \in {"RECOGNIZE", "STOP"} /\ ok /\ Goto("accepted")
     \/ m = "RECOGNIZE" /\ ~ok /\ Return
     \/ m = "STOP" /\ ~ok /\ call = "stop" /\ Return
     \/ m = "STOP" /\ ~ok /\ call # "stop" /\ Goto("go")
  /\ refused' = (refused \/ (m = "STOP" /\ ~ok))

\* The message cannot be made or sent.
AskFails(m) ==
  /\ After(m, FALSE)
  /\ UNCHANGED <<waitVars, method, serverVars>>

-----------------------------------------------------------------------------
(* uni_recog_create_internal, uni_recog_destroy                            *)

\* No session, no channel, or the channel-add is refused: cleaned up at once.
CreateFails ==
  /\ object = "none"
  /\ object' = "freed"
  /\ UNCHANGED <<is_inprogress, state, mrcp_event, waitVars, threadVars, taskVars,
                 serverVars, historyVars>>

Create ==
  /\ object = "none"
  /\ object' = "present" /\ call' = "create"
  /\ SmSend("ADD", "add_wait")
  /\ UNCHANGED <<is_inprogress, state, mrcp_event, mrcp_request, mrcp_response,
                 sm_response, method, taskVars, live, requests, active, sent, cur,
                 historyVars>>

\* There is a media buffer only if the channel has a descriptor, and may not be
\* one even then.
AddWake ==
  /\ pc = "add_wait"
  /\ \/ signalled /\ UNCHANGED <<sm_response, gaveUp>>
     \/ TimedOut /\ sm_response' = "FAILURE"
     \/ Spurious /\ UNCHANGED sm_response
  /\ \/ sm_response' = "SUCCESS" /\ live /\ Goto("properties")
     \/ Goto("terminate")
  /\ UNCHANGED <<objectVars, mrcp_request, mrcp_response, sm_request, signalled,
                 method, taskVars, serverVars, refused, raced, crashed>>

SetProperties ==
  /\ pc = "properties"
  /\ \/ Ask("SET-PARAMS") /\ UNCHANGED <<cur, refused>>
     \/ AskFails("SET-PARAMS")
  /\ UNCHANGED <<objectVars, taskVars, gaveUp, raced, crashed>>

\* Another of the configured grammars, or no more.
Preload ==
  /\ pc = "preload"
  /\ \/ Ask("DEFINE-GRAMMAR") /\ UNCHANGED <<cur, refused>>
     \/ AskFails("DEFINE-GRAMMAR")
     \/ Return /\ UNCHANGED <<waitVars, method, serverVars, refused>>
  /\ UNCHANGED <<objectVars, taskVars, gaveUp, raced, crashed>>

Destroy ==
  /\ object = "present" /\ pc = "idle"
  /\ call' = "destroy" /\ pc' = "terminate"
  /\ UNCHANGED <<objectVars, waitVars, method, taskVars, serverVars, historyVars>>

\* uni_recog_cleanup: the session, and the object in its pool, are destroyed.
Cleanup == Return /\ object' = "freed"

\* Mutant of Terminate: the answer is not waited for.
TerminateUnanswered ==
  /\ pc = "terminate"
  /\ sm_request' = "TERMINATE" /\ signalling' = Append(signalling, "TERMINATE")
  /\ Cleanup
  /\ UNCHANGED <<is_inprogress, state, mrcp_event, mrcp_request, mrcp_response,
                 sm_response, signalled, method, taskVars, live, requests, active,
                 sent, cur, historyVars>>

Terminate ==
  /\ pc = "terminate"
  /\ \/ /\ SmSend("TERMINATE", "terminate_wait")
        /\ UNCHANGED <<object, call, gaveUp>>
     \/ /\ Cleanup /\ gaveUp' = TRUE
        /\ UNCHANGED <<sm_request, signalled, signalling>>
  /\ UNCHANGED <<is_inprogress, state, mrcp_event, mrcp_request, mrcp_response,
                 sm_response, method, taskVars, live, requests, active, sent, cur,
                 refused, raced, crashed>>

TerminateWake ==
  /\ pc = "terminate_wait"
  /\ \/ signalled /\ UNCHANGED <<sm_response, gaveUp>>
     \/ TimedOut /\ sm_response' = "FAILURE"
     \/ Spurious /\ UNCHANGED sm_response
  /\ Cleanup
  /\ UNCHANGED <<is_inprogress, state, mrcp_event, mrcp_request, mrcp_response,
                 sm_request, signalled, method, taskVars, serverVars, refused,
                 raced, crashed>>

-----------------------------------------------------------------------------
(* The functions between create and destroy.                               *)

\* All but load stop a recognition that is in progress.
Call(c) ==
  /\ object = "present" /\ pc = "idle"
  /\ IF c # "load" /\ is_inprogress
     THEN call' = c /\ pc' = "stop"
     ELSE IF c = "stop" THEN Return ELSE call' = c /\ pc' = "go"
  /\ UNCHANGED <<objectVars, waitVars, method, taskVars, serverVars, historyVars>>

\* uni_recog_stop
Stop ==
  /\ pc = "stop"
  /\ \/ Ask("STOP") /\ mrcp_event' = 0 /\ UNCHANGED <<cur, refused>>
     \/ AskFails("STOP") /\ mrcp_event' \in {mrcp_event, 0}
  /\ UNCHANGED <<object, is_inprogress, state, taskVars, gaveUp, raced, crashed>>

StopAccepted ==
  /\ pc = "accepted" /\ method = "STOP"
  /\ state' = "NOT_READY" /\ Goto("stopping")
  /\ UNCHANGED <<object, is_inprogress, mrcp_event, waitVars, method, taskVars,
                 serverVars, historyVars>>

Stopped ==
  /\ pc = "stopping"
  /\ is_inprogress' = FALSE
  /\ IF call = "stop" THEN Return ELSE Goto("go")
  /\ UNCHANGED <<object, state, mrcp_event, waitVars, method, taskVars, serverVars,
                 historyVars>>

\* uni_recog_load_grammar, uni_recog_unload_grammar
DefineGrammar ==
  /\ pc = "go" /\ call \in {"load", "unload"}
  /\ \/ Ask("DEFINE-GRAMMAR") /\ UNCHANGED <<cur, refused>>
     \/ AskFails("DEFINE-GRAMMAR")
  /\ UNCHANGED <<objectVars, taskVars, gaveUp, raced, crashed>>

Changed ==
  /\ pc = "go" /\ call = "change"
  /\ Return
  /\ UNCHANGED <<objectVars, waitVars, method, taskVars, serverVars, historyVars>>

\* Mutant of Start: the event of the last recognition is not reset.
StartKeepsEvent ==
  /\ pc = "go" /\ call = "start"
  /\ \/ Ask("RECOGNIZE") /\ cur' = sent + 1 /\ raced' = (raced \/ handling # "none")
        /\ UNCHANGED refused
     \/ AskFails("RECOGNIZE") /\ UNCHANGED raced
  /\ UNCHANGED <<objectVars, taskVars, gaveUp, crashed>>

\* uni_recog_start: the message is made, then the event reset, then it is sent.
Start ==
  /\ pc = "go" /\ call = "start"
  /\ \/ /\ mrcp_event' = 0
        /\ Ask("RECOGNIZE") /\ cur' = sent + 1
        /\ raced' = (raced \/ handling # "none")
        /\ UNCHANGED refused
     \/ mrcp_event' \in {mrcp_event, 0} /\ AskFails("RECOGNIZE") /\ UNCHANGED raced
  /\ UNCHANGED <<object, is_inprogress, state, taskVars, gaveUp, crashed>>

StartAccepted ==
  /\ pc = "accepted" /\ method = "RECOGNIZE"
  /\ state' = "READY" /\ Goto("starting")
  /\ UNCHANGED <<object, is_inprogress, mrcp_event, waitVars, method, taskVars,
                 serverVars, historyVars>>

\* Mutant of Started: the flag is not set.
StartedUnmarked ==
  /\ pc = "starting"
  /\ Return
  /\ UNCHANGED <<objectVars, waitVars, method, taskVars, serverVars, historyVars>>

Started ==
  /\ pc = "starting"
  /\ is_inprogress' = TRUE
  /\ Return
  /\ UNCHANGED <<object, state, mrcp_event, waitVars, method, taskVars, serverVars,
                 historyVars>>

\* uni_recog_get.  uni_recog_speech_result_build leaves its loop over the
\* interpretations with `continue', and does not advance, when one has no input
\* or no instance.
Get ==
  /\ pc = "go" /\ call = "get"
  /\ Return \/ (mrcp_event # 0 /\ Goto("spin"))
  /\ UNCHANGED <<objectVars, waitVars, method, taskVars, serverVars, historyVars>>

\* Mutant of RequestWake: without an answer it waits again.
RequestWakeSignalled ==
  /\ pc = "request_wait" /\ signalled
  /\ mrcp_request' = FALSE
  /\ After(method, mrcp_response.ok)
  /\ UNCHANGED <<objectVars, mrcp_response, sm_request, sm_response, signalled,
                 method, taskVars, serverVars, gaveUp, raced, crashed>>

\* uni_recog_mrcp_request_send from its wait on.  The answer left by the request
\* before is still there, unless that one timed out.
RequestWake ==
  /\ pc = "request_wait"
  /\ \/ signalled /\ UNCHANGED <<mrcp_response, gaveUp>>
     \/ TimedOut /\ mrcp_response' = NoMessage
     \/ Spurious /\ UNCHANGED mrcp_response
  /\ mrcp_request' = FALSE
  /\ After(method, mrcp_response'.ok)
  /\ UNCHANGED <<objectVars, sm_request, sm_response, signalled, method, taskVars,
                 serverVars, raced, crashed>>

\* Asterisk is told of the result, and will ask for it.
Settle ==
  /\ object = "present" /\ pc = "idle" /\ state = "DONE"
  /\ state' = "NOT_READY"
  /\ UNCHANGED <<object, is_inprogress, mrcp_event, waitVars, threadVars, taskVars,
                 serverVars, historyVars>>

-----------------------------------------------------------------------------
(* The client task, and the server behind it.                              *)

\* apr_thread_cond_signal, with the mutex: lost unless the thread waits.
Signal == signalled' = (signalled \/ pc \in Waits)

\* uni_recog_sm_response_signal
SmSignal(request, status) ==
  IF sm_request = request
  THEN sm_response' = status /\ Signal
  ELSE UNCHANGED <<sm_response, signalled>>

\* on_channel_add, on_session_terminate
OnSignalling ==
  /\ handling = "none" /\ signalling # <<>>
  /\ signalling' = Tail(signalling)
  /\ \E status \in {"SUCCESS", "FAILURE"} :
       /\ live' = (Head(signalling) = "ADD" /\ status = "SUCCESS")
       /\ IF object = "freed"
          THEN crashed' = TRUE /\ UNCHANGED <<sm_response, signalled>>
          ELSE SmSignal(Head(signalling), status) /\ UNCHANGED crashed
  /\ IF Head(signalling) = "TERMINATE" THEN requests' = <<>> /\ active' = <<>>
                                       ELSE UNCHANGED <<requests, active>>
  /\ UNCHANGED <<objectVars, mrcp_request, mrcp_response, sm_request, threadVars,
                 taskVars, sent, cur, gaveUp, refused, raced>>

\* Mutant of ResponseSignal: only a success is handed over.
ResponseSignalSuccess(answer) ==
  IF mrcp_request
  THEN mrcp_response' = (IF answer.ok THEN answer ELSE mrcp_response) /\ Signal
  ELSE UNCHANGED <<mrcp_response, signalled>>

\* uni_recog_mrcp_response_signal: any answer is the one waited for.
ResponseSignal(answer) ==
  IF mrcp_request
  THEN mrcp_response' = answer /\ Signal
  ELSE UNCHANGED <<mrcp_response, signalled>>

\* The server's answer, by the status code.
OnResponse ==
  /\ handling = "none" /\ live /\ requests # <<>>
  /\ requests' = Tail(requests)
  /\ LET r == Head(requests)
     IN  \E ok \in BOOLEAN :
           /\ active' = IF ~ok THEN active
                        ELSE IF r.method = "RECOGNIZE" THEN Append(active, r.id)
                        ELSE IF r.method = "STOP" THEN <<>> ELSE active
           /\ IF object = "freed"
              THEN crashed' = TRUE /\ UNCHANGED <<mrcp_response, signalled>>
              ELSE ResponseSignal([id |-> r.id, ok |-> ok]) /\ UNCHANGED crashed
  /\ UNCHANGED <<objectVars, mrcp_request, sm_request, sm_response, threadVars,
                 taskVars, signalling, live, sent, cur, gaveUp, refused, raced>>

\* The thread is between sending RECOGNIZE and the end of uni_recog_start.
InStart ==
  method = "RECOGNIZE" /\ pc \in {"request_wait", "accepted", "starting"}

\* RECOGNITION-COMPLETE: the flag ...
RecognitionComplete ==
  /\ handling = "none" /\ live /\ active # <<>>
  /\ active' = Tail(active)
  /\ IF object = "freed"
     THEN crashed' = TRUE /\ UNCHANGED <<is_inprogress, handling, event, raced>>
     ELSE /\ is_inprogress' = FALSE
          /\ handling' = "cleared" /\ event' = Head(active)
          /\ raced' = (raced \/ InStart)
          /\ UNCHANGED crashed
  /\ UNCHANGED <<object, state, mrcp_event, waitVars, threadVars, signalling, live,
                 requests, sent, cur, gaveUp, refused>>

\* ... then a look at the state: Asterisk may not be waiting for a result ...
CheckState ==
  /\ handling = "cleared"
  /\ IF object = "freed"
     THEN crashed' = TRUE /\ handling' = "none"
     ELSE /\ handling' = IF state = "NOT_READY" THEN "none" ELSE "checked"
          /\ UNCHANGED crashed
  /\ UNCHANGED <<objectVars, waitVars, threadVars, event, serverVars, gaveUp, refused,
                 raced>>

\* ... then the event, whatever became of the state since ...
StoreEvent ==
  /\ handling = "checked"
  /\ IF object = "freed"
     THEN crashed' = TRUE /\ handling' = "none" /\ UNCHANGED mrcp_event
     ELSE mrcp_event' = event /\ handling' = "stored" /\ UNCHANGED crashed
  /\ UNCHANGED <<object, is_inprogress, state, waitVars, threadVars, event,
                 serverVars, gaveUp, refused, raced>>

\* Mutant of Completed: the state says that the result is still to come.
CompletedWaits ==
  /\ handling = "stored" /\ handling' = "none"
  /\ IF object = "freed" THEN crashed' = TRUE /\ UNCHANGED state
                         ELSE state' = "WAIT" /\ UNCHANGED crashed
  /\ UNCHANGED <<object, is_inprogress, mrcp_event, waitVars, threadVars, event,
                 serverVars, gaveUp, refused, raced>>

\* ... then the state.
Completed ==
  /\ handling = "stored" /\ handling' = "none"
  /\ IF object = "freed" THEN crashed' = TRUE /\ UNCHANGED state
                         ELSE state' = "DONE" /\ UNCHANGED crashed
  /\ UNCHANGED <<object, is_inprogress, mrcp_event, waitVars, threadVars, event,
                 serverVars, gaveUp, refused, raced>>

-----------------------------------------------------------------------------
\* What the thread does by itself inside a call.
Run ==
  \/ AddWake \/ SetProperties \/ Preload \/ Terminate \/ TerminateWake
  \/ Stop \/ StopAccepted \/ Stopped \/ DefineGrammar \/ Changed
  \/ Start \/ StartAccepted \/ Started \/ Get \/ RequestWake

Asterisk ==
  \/ CreateFails \/ Create \/ Destroy \/ Settle
  \/ \E c \in Calls \ {"create", "destroy"} : Call(c)

ClientTask ==
  \/ OnSignalling \/ OnResponse
  \/ RecognitionComplete \/ CheckState \/ StoreEvent \/ Completed

Over == (object = "freed" \/ pc = "spin" \/ crashed) /\ UNCHANGED vars

Next == (~crashed /\ (Run \/ Asterisk \/ ClientTask)) \/ Over

Spec == Init /\ [][Next]_vars

\* The thread runs; no wait is longer than its timeout.
FairSpec == Spec /\ WF_vars(~crashed /\ Run)

-----------------------------------------------------------------------------
(* What the speech object promises.                                        *)

\* The object is freed only when no callback for it runs or is to come, unless
\* a wait ended, or a terminate was refused, without an answer.
FreedIsQuiet ==
  object = "freed" /\ ~gaveUp =>
    signalling = <<>> /\ ~live /\ handling = "none" /\ ~crashed

\* A call that was answered goes by the answer to its own request, although the
\* client task takes any answer for the one waited for.
AnswerIsOwn ==
  [][RequestWake /\ ~gaveUp' => mrcp_response.id = sent]_vars

\* The event the object keeps is that of the last RECOGNIZE, although its
\* request-id is not looked at, as long as no answer was missed, no STOP was
\* refused, and no completion was handled in the middle of start.
ResultIsOwn ==
  mrcp_event # 0 /\ ~gaveUp /\ ~refused /\ ~raced => mrcp_event = cur

\* Between calls, under the same conditions, the flag tells whether the server
\* has a recognition in progress, so that every recognition is stopped before
\* the next one is started.
InProgressIsTrue ==
  object = "present" /\ pc = "idle" /\ ~gaveUp /\ ~refused /\ ~raced =>
    (is_inprogress <=> active # <<>>)

\* Every call returns, whether or not the server and the library answer; but
\* for a get over an interpretation with no input or no instance.
CallsReturn == (pc # "idle") ~> (pc = "idle" \/ pc = "spin" \/ crashed)

\* "Is recognition in-progress or not" (res_speech_unimrcp.c:97): between calls,
\* with every request answered, a recognition that is said to be in progress is.
StartedIsInProgress ==
  object = "present" /\ pc = "idle" /\ handling = "none" /\ ~gaveUp
  /\ is_inprogress => active # <<>>
=============================================================================
