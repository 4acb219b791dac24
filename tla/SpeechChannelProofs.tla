------------------------ MODULE SpeechChannelProofs ------------------------
(***************************************************************************)
(* Theorems of SpeechChannel, for every capacity of the audio queue and    *)
(* whether or not a terminate can fail.                                    *)
(***************************************************************************)
EXTENDS SpeechChannel, TLAPS

\* Who can be where: the inductive invariant behind the properties.
\* - A session waits for the answer to channel_add exactly while open waits.
Adding == session = "adding" <=> (op = "open_wait" /\ state = "CLOSED")
\* - CLOSED means that the session is gone, or that open waits.
Closed ==
  /\ state = "CLOSED" => session \in Gone \cup {"adding"} /\ cb = "none"
  /\ session \in Gone /\ cb = "none" => state = "CLOSED"
  /\ session = "none" => cb = "none"
  /\ chan = "null" => state = "CLOSED" /\ op = "idle"
\* - on_session_terminate runs for a session it has just destroyed.
Terminating ==
  cb = "destroyed" => session \in {"destroyed", "corrupt"} /\ state # "CLOSED"
\* - Only open's error path and destroy terminate; only the former can return
\*   before the session is closed.
Ending ==
  session \in {"terminating", "destroyed", "corrupt"} /\ state # "CLOSED"
    => op \in {"destroy_wait", "open_term_wait"} \/ expired
\* - A channel whose open failed in that way is in ERROR until it is CLOSED: no
\*   request was sent, so no message changes the state.
Failed ==
  /\ op \in {"open_wait", "open_term_wait"} =>
       ~requested /\ ~expired /\ state \in {"CLOSED", "READY", "ERROR"}
  /\ op = "open_term_wait" =>
       state \in {"CLOSED", "ERROR"} /\ session # "corrupt" /\ session # "adding"
  /\ op = "open_wait" => session \in {"adding", "up"} /\ cb = "none"
  /\ expired => ~requested /\ state \in {"CLOSED", "ERROR"}
  /\ session = "corrupt" => expired

Core == DataOK /\ Adding /\ Closed /\ Terminating /\ Ending /\ Failed

IInv == Core /\ FlagsOK

-----------------------------------------------------------------------------
LEMMA InitIInv == ChannelInit => IInv
  <1>1. ChannelInit => Core
    BY QueueAssumption DEF QueueAssumption, ChannelInit, Core, DataOK, Adding,
       Closed, Terminating, Ending, Failed, States, SessionStates, Ops, Gone
  <1>2. ChannelInit => FlagsOK
    BY Zenon DEF ChannelInit, FlagsOK
  <1>3. QED
    BY <1>1, <1>2 DEF IInv

\* Calls of the application preserve the invariant.
LEMMA CallIInv == ASSUME Core, AppCall PROVE Core'
  <1> USE QueueAssumption DEF QueueAssumption, Core, DataOK, Adding, Closed, Terminating,
        Ending, Failed, States, SessionStates, Ops, Gone, Return, Call
  <1>1. CASE Create \/ CreateFails
    BY <1>1 DEF Create, CreateFails
  <1>2. CASE OpenRefused \/ OpenFails \/ OpenSend
    BY <1>2 DEF OpenRefused, OpenFails, OpenSend
  <1>3. CASE RequestNotReady \/ GrammarNotReady
    BY <1>3 DEF RequestNotReady, GrammarNotReady
  <1>4. CASE op = "idle" /\ (RequestSend \/ RequestFails)
    BY <1>4 DEF RequestSend, RequestFails, MayStart, UseSession
  <1>5. CASE op = "idle" /\ (GrammarSend \/ GrammarFails \/ GrammarByUri)
    BY <1>5 DEF GrammarSend, GrammarFails, GrammarByUri, MayStart, UseSession,
         SetState
  <1>6. CASE StopNothing \/ StopFails \/ StopSend
    BY <1>6 DEF StopNothing, StopFails, StopSend, ForceError, UseSession
  <1>7. CASE Write
    BY <1>7 DEF Write
  <1>8. CASE DestroyClosed
    BY <1>8 DEF DestroyClosed, Free
  <1>9. CASE DestroySend
    BY <1>9, TerminateAssumption DEF TerminateAssumption, DestroySend, Terminate
  <1>10. QED
    BY <1>1, <1>2, <1>3, <1>4, <1>5, <1>6, <1>7, <1>8, <1>9 DEF AppCall

\* So do the waits that end.
LEMMA WakeIInv == ASSUME Core, Wake PROVE Core'
  <1> USE QueueAssumption DEF QueueAssumption, Core, DataOK, Adding, Closed, Terminating,
        Ending, Failed, States, SessionStates, Ops, Gone, Return, Call
  <1>1. CASE OpenReady
    BY <1>1 DEF OpenReady
  <1>2. CASE OpenError
    BY <1>2, TerminateAssumption DEF TerminateAssumption, OpenError, Terminate
  <1>3. CASE OpenTermWake \/ OpenDataFails
    BY <1>3 DEF OpenTermWake, OpenDataFails
  <1>4. CASE NotReady("ready_wait") \/ NotReady("grammar_ready_wait")
    BY <1>4 DEF NotReady
  <1>5. CASE RequestWake \/ GrammarWake
    BY <1>5 DEF RequestWake, GrammarWake
  <1>6. CASE StopDone \/ StopTimeout
    BY <1>6 DEF StopDone, StopTimeout, ForceError
  <1>7. CASE DestroyDone
    BY <1>7 DEF DestroyDone, Free
  <1>8. CASE op # "idle" /\ (RequestSend \/ RequestFails)
    BY <1>8 DEF RequestSend, RequestFails, MayStart, UseSession
  <1>9. CASE op # "idle" /\ (GrammarSend \/ GrammarFails \/ GrammarByUri)
    BY <1>9 DEF GrammarSend, GrammarFails, GrammarByUri, MayStart, UseSession,
         SetState
  <1>10. QED
    BY <1>1, <1>2, <1>3, <1>4, <1>5, <1>6, <1>7, <1>8, <1>9 DEF Wake

\* So do the client task, the media thread and the server's messages.
LEMMA EnvIInv ==
  ASSUME Core,
         Callback \/ Read \/ \E s \in {"READY", "PROCESSING", "ERROR"} : OnMessage(s)
  PROVE  Core'
  <1> USE QueueAssumption DEF QueueAssumption, Core, DataOK, Adding, Closed, Terminating,
        Ending, Failed, States, SessionStates, Ops, Gone, SetState
  <1>1. CASE OnChannelAdd
    BY <1>1 DEF OnChannelAdd
  <1>2. CASE OnTerminateDestroy
    BY <1>2 DEF OnTerminateDestroy
  <1>3. CASE OnTerminateClose
    BY <1>3 DEF OnTerminateClose
  <1>4. CASE Read
    BY <1>4 DEF Read
  <1>5. CASE \E s \in {"READY", "PROCESSING", "ERROR"} : OnMessage(s)
    BY <1>5 DEF OnMessage
  <1>6. QED
    BY <1>1, <1>2, <1>3, <1>4, <1>5 DEF Callback

\* A stuttering step changes none of it.
LEMMA StutterIInv == ASSUME IInv, UNCHANGED channelVars PROVE IInv'
  BY DEF IInv, Core, DataOK, FlagsOK, Adding, Closed, Terminating, Ending, Failed,
     channelVars

\* The flags stay Boolean.
LEMMA NextFlags == ASSUME FlagsOK, ChannelNext PROVE FlagsOK'
  <1> USE DEF FlagsOK
  <1>1. CASE AppCall
    BY <1>1, Zenon DEF AppCall, Create, CreateFails, OpenRefused, OpenFails, OpenSend,
       RequestNotReady, RequestSend, RequestFails, GrammarNotReady, GrammarSend,
       GrammarFails, GrammarByUri, StopNothing, StopFails, StopSend, ForceError,
       Write, DestroyClosed, DestroySend
  <1>2. CASE Wake
    BY <1>2, Zenon DEF Wake, OpenReady, OpenDataFails, OpenError, OpenTermWake,
       NotReady, RequestWake, GrammarWake, StopDone, StopTimeout, ForceError,
       DestroyDone, RequestSend, RequestFails, GrammarSend, GrammarFails, GrammarByUri
  <1>3. CASE Callback \/ Read \/ \E s \in {"READY", "PROCESSING", "ERROR"} : OnMessage(s)
    BY <1>3, Zenon DEF Callback, OnChannelAdd, OnTerminateDestroy, OnTerminateClose,
       Read, OnMessage
  <1>4. QED
    BY <1>1, <1>2, <1>3 DEF ChannelNext

LEMMA NextIInv == IInv /\ [ChannelNext]_channelVars => IInv'
  BY CallIInv, WakeIInv, EnvIInv, NextFlags, StutterIInv DEF ChannelNext, IInv

LEMMA AlwaysIInv == ChannelSpec => []IInv
  BY InitIInv, NextIInv, PTL DEF ChannelSpec

-----------------------------------------------------------------------------
\* Every variable keeps its type; in particular the queue keeps its capacity.
THEOREM TypeCorrect == ChannelSpec => []ChannelTypeOK
  <1>1. IInv => ChannelTypeOK
    BY DEF IInv, Core, ChannelTypeOK
  <1>2. QED
    BY <1>1, AlwaysIInv, PTL

\* A channel is released only when its session is gone and no callback for it
\* is running: speech_channel_destroy never leaves the client task a dangling
\* channel.
THEOREM ReleaseIsSafe == ChannelSpec => []FreedIsGone
  <1>1. IInv => FreedIsGone
    BY DEF IInv, Core, FreedIsGone, Closed, Adding, Gone
  <1>2. QED
    BY <1>1, AlwaysIInv, PTL

\* The handle of a destroyed session is used only after open gave up waiting
\* for the termination it had asked for.
THEOREM HandleUseIsSafe == ChannelSpec => []HandleSafe
  <1>1. IInv => HandleSafe
    BY DEF IInv, Core, HandleSafe, Failed
  <1>2. QED
    BY <1>1, AlwaysIInv, PTL

-----------------------------------------------------------------------------
(* The audio queue.                                                        *)

\* Nothing is queued while a request waits for its answer.
AudioInv == (op = "request_wait" => queue = 0) /\ NoAudioOutsideRequest

LEMMA AudioStep == ASSUME IInv, AudioInv, ChannelNext PROVE AudioInv'
  <1> USE QueueAssumption DEF QueueAssumption, IInv, Core, DataOK, AudioInv,
        NoAudioOutsideRequest, Return, Call, SetState
  <1>1. CASE Create \/ CreateFails \/ OpenRefused \/ OpenFails \/ OpenSend
    BY <1>1 DEF Create, CreateFails, OpenRefused, OpenFails, OpenSend
  <1>2. CASE RequestNotReady \/ GrammarNotReady \/ StopNothing \/ StopSend
    BY <1>2 DEF RequestNotReady, GrammarNotReady, StopNothing, StopSend
  <1>3. CASE RequestSend \/ RequestFails
    BY <1>3 DEF RequestSend, RequestFails, MayStart
  <1>4. CASE GrammarSend \/ GrammarFails \/ GrammarByUri
    BY <1>4 DEF GrammarSend, GrammarFails, GrammarByUri, MayStart
  <1>5. CASE StopFails \/ StopDone \/ StopTimeout
    BY <1>5 DEF StopFails, StopDone, StopTimeout, ForceError
  <1>6. CASE Write \/ Read
    BY <1>6 DEF Write, Read
  <1>7. CASE DestroyClosed \/ DestroySend \/ DestroyDone
    BY <1>7 DEF DestroyClosed, DestroySend, DestroyDone, Free
  <1>8. CASE OpenReady \/ OpenDataFails \/ OpenError \/ OpenTermWake
             \/ RequestWake \/ GrammarWake
    BY <1>8 DEF OpenReady, OpenDataFails, OpenError, OpenTermWake, RequestWake,
       GrammarWake
  <1>9. CASE NotReady("ready_wait") \/ NotReady("grammar_ready_wait")
    BY <1>9 DEF NotReady
  <1>10. CASE Callback \/ \E s \in {"READY", "PROCESSING", "ERROR"} : OnMessage(s)
    BY <1>10 DEF Callback, OnChannelAdd, OnTerminateDestroy, OnTerminateClose,
       OnMessage, Gone, Terminating
  <1>11. QED
    BY <1>1, <1>2, <1>3, <1>4, <1>5, <1>6, <1>7, <1>8, <1>9, <1>10
       DEF ChannelNext, AppCall, Wake

LEMMA AlwaysAudio == ChannelSpec => []AudioInv
  <1>1. ChannelInit => AudioInv
    BY DEF ChannelInit, AudioInv, NoAudioOutsideRequest
  <1>2. IInv /\ AudioInv /\ [ChannelNext]_channelVars => AudioInv'
    <2>1. ASSUME AudioInv, UNCHANGED channelVars PROVE AudioInv'
      BY <2>1 DEF AudioInv, NoAudioOutsideRequest, channelVars
    <2>2. QED
      BY <2>1, AudioStep
  <1>3. QED
    BY <1>1, <1>2, AlwaysIInv, PTL DEF ChannelSpec

\* Frames outlive a request only when stop or barge-in gave up on it.
THEOREM AudioStaysInRequest == ChannelSpec => []NoAudioOutsideRequest
  <1>1. AudioInv => NoAudioOutsideRequest
    BY DEF AudioInv
  <1>2. QED
    BY <1>1, AlwaysAudio, PTL

\* A request never starts on the frames of an earlier one.
THEOREM RequestStartsEmpty == ChannelSpec => StartsEmpty
  <1>1. IInv /\ AudioInv /\ [ChannelNext]_channelVars =>
          [op = "request_wait" /\ state # "PROCESSING" /\ state' = "PROCESSING"
             => queue' = 0]_channelVars
    <2> SUFFICES ASSUME IInv, AudioInv, ChannelNext, op = "request_wait",
                        state # "PROCESSING", state' = "PROCESSING"
                 PROVE  queue' = 0
      OBVIOUS
    <2>1. queue = 0
      BY DEF AudioInv
    <2>2. \E s \in {"READY", "PROCESSING", "ERROR"} : OnMessage(s)
      BY DEF ChannelNext, AppCall, Wake, Callback, Create, CreateFails, OpenRefused,
         OpenFails, OpenSend, RequestNotReady, RequestSend, RequestFails, MayStart,
         GrammarNotReady, GrammarSend, GrammarFails, GrammarByUri, StopNothing,
         StopFails, StopSend, Write, DestroyClosed, DestroySend, OpenReady,
         OpenDataFails, OpenError, OpenTermWake, NotReady, RequestWake, GrammarWake,
         StopDone, StopTimeout, DestroyDone, OnChannelAdd, OnTerminateDestroy, OnTerminateClose, Read,
         Call, SetState
    <2>3. QED
      BY <2>1, <2>2 DEF OnMessage, SetState
  <1>2. QED
    BY <1>1, AlwaysIInv, AlwaysAudio, PTL DEF ChannelSpec, StartsEmpty

-----------------------------------------------------------------------------
(* The life cycle.                                                         *)

LEMMA InitPhase == ChannelInit => Lifecycle!Init
  BY DEF ChannelInit, Lifecycle!Init, phase

\* Every step of the channel is a step of the life cycle, or changes nothing
\* its owner sees.
LEMMA StepPhase == ASSUME IInv, ChannelNext PROVE [Lifecycle!Next]_phase
  <1> USE DEF IInv, Core, DataOK, Adding, Closed, Terminating, Ending, Failed, States,
        SessionStates, Ops, Gone, phase, Lifecycle!Next, Lifecycle!Move, Call, Return
  <1>1. CASE Create
    BY <1>1 DEF Create
  <1>2. CASE OpenFails
    BY <1>2 DEF OpenFails
  <1>3. CASE OpenSend
    BY <1>3 DEF OpenSend
  <1>4. CASE OpenError \/ DestroySend
    BY <1>4, TerminateAssumption
       DEF OpenError, DestroySend, Terminate, TerminateAssumption
  <1>5. CASE DestroyClosed \/ DestroyDone
    BY <1>5 DEF DestroyClosed, DestroyDone, Free
  <1>6. CASE RequestSend \/ RequestFails
    BY <1>6 DEF RequestSend, RequestFails, MayStart, UseSession
  <1>7. CASE GrammarSend \/ GrammarFails
    BY <1>7 DEF GrammarSend, GrammarFails, MayStart, UseSession
  <1>8. CASE StopFails \/ StopSend
    BY <1>8 DEF StopFails, StopSend, UseSession
  <1>9. CASE Callback
    BY <1>9 DEF Callback, OnChannelAdd, OnTerminateDestroy, OnTerminateClose
  <1>10. CASE UNCHANGED <<chan, session, cb>>
    BY <1>10
  <1>11. QED
    BY <1>1, <1>2, <1>3, <1>4, <1>5, <1>6, <1>7, <1>8, <1>9, <1>10
       DEF ChannelNext, AppCall, Wake, CreateFails, OpenRefused, RequestNotReady,
       GrammarNotReady, GrammarByUri, StopNothing, Write, OpenReady, OpenDataFails,
       OpenTermWake, NotReady, RequestWake, GrammarWake, StopDone, StopTimeout,
       Read, OnMessage

-----------------------------------------------------------------------------
(* The contract.                                                           *)

\* Every step of the channel keeps the contract.
LEMMA StepContract ==
  ASSUME IInv, ChannelNext PROVE [Contract!Next]_<<chan # "null", state>>
  <1> USE DEF IInv, Core, DataOK, Adding, Closed, Terminating, Failed, States,
        SessionStates, Ops, Gone, Call, Return, Contract!Next, Contract!Create,
        Contract!Open, Contract!Change, Contract!Release, Contract!States
  <1>1. CASE Create
    BY <1>1 DEF Create
  <1>2. CASE DestroyClosed \/ DestroyDone
    BY <1>2 DEF DestroyClosed, DestroyDone, Free
  <1>3. CASE GrammarSend \/ GrammarFails
    BY <1>3 DEF GrammarSend, GrammarFails, MayStart, SetState
  <1>4. CASE StopFails \/ StopTimeout
    BY <1>4 DEF StopFails, StopTimeout, ForceError
  <1>5. CASE Callback
    BY <1>5 DEF Callback, OnChannelAdd, OnTerminateDestroy, OnTerminateClose, SetState
  <1>6. CASE \E s \in {"READY", "PROCESSING", "ERROR"} : OnMessage(s)
    BY <1>6 DEF OnMessage, SetState
  <1>7. CASE UNCHANGED <<chan, state>>
    BY <1>7
  <1>8. QED
    BY <1>1, <1>2, <1>3, <1>4, <1>5, <1>6, <1>7
       DEF ChannelNext, AppCall, Wake, CreateFails, OpenRefused, OpenFails, OpenSend,
       RequestNotReady, RequestSend, RequestFails, MayStart, GrammarNotReady,
       GrammarByUri, StopNothing, StopSend, Write, DestroySend, OpenReady,
       OpenDataFails, OpenError, OpenTermWake, NotReady, RequestWake, GrammarWake,
       StopDone, Read

\* The channel keeps what an application with several channels relies on.
THEOREM ContractRefined == ChannelSpec => Contract!Spec
  <1>1. ChannelInit => Contract!Init
    BY DEF ChannelInit, Contract!Init
  <1>2. IInv /\ [ChannelNext]_channelVars => [Contract!Next]_<<chan # "null", state>>
    <2>1. ASSUME UNCHANGED channelVars PROVE UNCHANGED <<chan # "null", state>>
      BY <2>1 DEF channelVars
    <2>2. QED
      BY <2>1, StepContract
  <1>3. QED
    BY <1>1, <1>2, AlwaysIInv, PTL DEF ChannelSpec, Contract!Spec

\* The channel implements the life cycle its owner relies on, and the contract.
THEOREM LifecycleRefined == ChannelSpec => LifecycleImplemented
  <1>1. IInv /\ [ChannelNext]_channelVars => [Lifecycle!Next]_phase
    <2>1. ASSUME UNCHANGED channelVars PROVE UNCHANGED phase
      BY <2>1 DEF channelVars, phase
    <2>2. QED
      BY <2>1, StepPhase
  <1>2. QED
    BY <1>1, InitPhase, AlwaysIInv, ContractRefined, PTL
       DEF ChannelSpec, LifecycleImplemented, Lifecycle!Spec

-----------------------------------------------------------------------------
(* No call is stuck: what CallsReturn needs besides fairness.              *)

\* The guards of the waits that end, and of the library's callbacks.
WakeReady ==
  \/ op \in {"open_term_wait", "ready_wait", "request_wait",
             "grammar_ready_wait", "grammar_wait", "stop_wait"}
  \/ op = "open_wait" /\ state # "CLOSED"
  \/ op = "destroy_wait" /\ state = "CLOSED"

CallbackReady ==
  \/ session \in {"adding", "terminating"} /\ cb = "none"
  \/ cb = "destroyed"

\* Whoever waits without a timeout, in open for the channel to leave CLOSED and
\* in destroy for it to return there, waits for a callback the library owes,
\* unless it refused to terminate the session.
NoCallIsStuck ==
  op # "idle" =>
    \/ WakeReady \/ CallbackReady
    \/ TerminateCanFail /\ op = "destroy_wait" /\ session = "up"

\* How many steps of its own and of the library a call still has before it.
ToGo ==
  (IF op = "idle" THEN 0
   ELSE IF op \in {"open_wait", "ready_wait", "grammar_ready_wait"} THEN 6 ELSE 3)
  + (IF cb = "destroyed" \/ session = "adding" THEN 1
     ELSE IF session = "terminating" THEN 2 ELSE 0)

\* No step of any thread takes a call back, each wait that ends and each callback
\* takes it on, and a wait that can end still can until it does: the server's
\* messages, which may set the state at any time, never undo a wakeup.
CallAdvances ==
  op # "idle" =>
    \/ ToGo' < ToGo
    \/ ~Wake /\ ~Callback /\ ToGo' = ToGo /\ (WakeReady => WakeReady')

LEMMA ToGoIsNatural == ToGo \in Nat
  BY DEF ToGo

\* The waits that end take a call on.
LEMMA WakeAdvances ==
  ASSUME IInv, Wake, op # "idle" PROVE ToGo' < ToGo
  <1> USE DEF IInv, Core, DataOK, Terminating, Failed, Adding, States, SessionStates,
        Ops, Return, Call, ToGo
  <1>1. CASE OpenReady \/ OpenDataFails \/ OpenTermWake \/ RequestWake \/ GrammarWake
    BY <1>1 DEF OpenReady, OpenDataFails, OpenTermWake, RequestWake, GrammarWake
  <1>2. CASE OpenError
    BY <1>2, TerminateAssumption DEF TerminateAssumption, OpenError, Terminate
  <1>3. CASE NotReady("ready_wait") \/ NotReady("grammar_ready_wait")
    BY <1>3 DEF NotReady
  <1>4. CASE StopDone \/ StopTimeout \/ DestroyDone
    BY <1>4 DEF StopDone, StopTimeout, ForceError, DestroyDone, Free
  <1>5. CASE RequestSend \/ RequestFails
    BY <1>5 DEF RequestSend, RequestFails, MayStart, UseSession
  <1>6. CASE GrammarSend \/ GrammarFails \/ GrammarByUri
    BY <1>6 DEF GrammarSend, GrammarFails, GrammarByUri, MayStart, UseSession
  <1>7. QED
    BY <1>1, <1>2, <1>3, <1>4, <1>5, <1>6 DEF Wake

\* So do the library's callbacks.
LEMMA CallbackAdvances ==
  ASSUME IInv, Callback PROVE ToGo' < ToGo /\ op' = op
  <1> USE DEF IInv, Core, DataOK, Terminating, SessionStates, Ops, ToGo
  <1>1. CASE OnChannelAdd
    BY <1>1 DEF OnChannelAdd, Closed, Adding, Failed
  <1>2. CASE OnTerminateDestroy
    BY <1>2 DEF OnTerminateDestroy
  <1>3. CASE OnTerminateClose
    BY <1>3 DEF OnTerminateClose
  <1>4. QED
    BY <1>1, <1>2, <1>3 DEF Callback

\* What no step may take back, and what the callbacks keep.
LEMMA OthersWait ==
  ASSUME IInv, ChannelNext, ~Wake, ~Callback, op # "idle"
  PROVE  op' = op /\ ToGo' = ToGo /\ (WakeReady => WakeReady')
  <1> USE DEF IInv, Core, DataOK, Failed, Closed, Terminating, Ending, Gone, ToGo,
        WakeReady
  <1>1. CASE Read
    BY <1>1 DEF Read
  <1>2. CASE \E s \in {"READY", "PROCESSING", "ERROR"} : OnMessage(s)
    BY <1>2 DEF OnMessage, SetState
  <1>3. ~AppCall
    BY DEF AppCall, Call, Create, CreateFails, OpenRefused, OpenFails, OpenSend,
       RequestNotReady, GrammarNotReady, StopNothing, StopFails, StopSend, Write,
       DestroyClosed, DestroySend
  <1>4. QED
    BY <1>1, <1>2, <1>3 DEF ChannelNext

\* Every step a call sees while it waits brings its end nearer, or leaves it where
\* it is with its wakeup, if it had one.
THEOREM CallsAdvance == ChannelSpec => [][CallAdvances]_channelVars
  <1>1. IInv /\ ChannelNext => CallAdvances
    BY WakeAdvances, CallbackAdvances, OthersWait DEF CallAdvances
  <1>2. QED
    BY <1>1, AlwaysIInv, PTL DEF ChannelSpec

-----------------------------------------------------------------------------
\* A session the library agreed to terminate does not come up again: only one it
\* may have refused to is still up in destroy.
Agreed == op = "destroy_wait" /\ session = "up" => TerminateCanFail

LEMMA AlwaysAgreed == ChannelSpec => []Agreed
  <1>1. ChannelInit => Agreed
    BY DEF ChannelInit, Agreed
  <1>2. IInv /\ Agreed /\ [ChannelNext]_channelVars => Agreed'
    <2>1. ASSUME Agreed, UNCHANGED channelVars PROVE Agreed'
      BY <2>1 DEF Agreed, channelVars
    <2>2. ASSUME IInv, Agreed, AppCall PROVE Agreed'
      BY <2>2, TerminateAssumption
         DEF TerminateAssumption, Agreed, AppCall, Call, Return, Create, CreateFails,
         OpenRefused, OpenFails, OpenSend, RequestNotReady, RequestSend, RequestFails,
         GrammarNotReady, GrammarSend, GrammarFails, GrammarByUri, StopNothing,
         StopFails, ForceError, StopSend, Write, DestroyClosed, Free, DestroySend,
         Terminate
    <2>3. ASSUME IInv, Agreed, Wake PROVE Agreed'
      BY <2>3
         DEF Agreed, Wake, Return, OpenReady, OpenDataFails, OpenError, OpenTermWake,
         NotReady, RequestWake, GrammarWake, StopDone, StopTimeout, ForceError,
         DestroyDone, Free, RequestSend, RequestFails, GrammarSend, GrammarFails, GrammarByUri
    <2>4. ASSUME IInv, Agreed, Callback PROVE Agreed'
      BY <2>4 DEF IInv, Core, Adding, Agreed, Callback, OnChannelAdd,
         OnTerminateDestroy, OnTerminateClose
    <2>5. ASSUME Agreed, Read \/ \E s \in {"READY", "PROCESSING", "ERROR"} : OnMessage(s)
          PROVE  Agreed'
      BY <2>5 DEF Agreed, Read, OnMessage
    <2>6. QED
      BY <2>1, <2>2, <2>3, <2>4, <2>5 DEF ChannelNext
  <1>3. QED
    BY <1>1, <1>2, AlwaysIInv, PTL DEF ChannelSpec

\* No call waits for what nobody will do: neither for a lost wakeup nor for a
\* callback the library does not owe.
THEOREM NobodyWaitsInVain == ChannelSpec => []NoCallIsStuck
  <1>1. IInv /\ Agreed => NoCallIsStuck
    BY DEF IInv, Core, DataOK, Adding, Closed, Terminating, Failed, States,
       SessionStates, Ops, Gone, Agreed, NoCallIsStuck, WakeReady, CallbackReady
  <1>2. QED
    BY <1>1, AlwaysIInv, AlwaysAgreed, PTL
=============================================================================
