--------------------------- MODULE SpeechChannel ---------------------------
(***************************************************************************)
(* One speech_channel_t of the dialplan applications                       *)
(* (app-unimrcp/speech_channel.c) and the UniMRCP session behind it.       *)
(*                                                                         *)
(* Two threads touch a channel.  The Asterisk channel thread runs the      *)
(* application: it creates, opens, uses, stops and destroys the channel,   *)
(* one call at a time, and blocks inside a call in                         *)
(* apr_thread_cond_timedwait, which releases the channel's mutex.  The     *)
(* UniMRCP client task runs the callbacks: it takes the mutex only for the *)
(* length of speech_channel_set_state.  A critical section (from taking    *)
(* the mutex, or from waking up, to the next wait or to the release) is    *)
(* one action; what a callback does outside the mutex is an action of its  *)
(* own.  A wait may end at any time: by a signal, by the timeout, or       *)
(* spuriously; where the code tells them apart, so does the model.         *)
(*                                                                         *)
(* The UniMRCP library itself is external: `session' is its session as the *)
(* calls and callbacks of the channel see it.                              *)
(***************************************************************************)
EXTENDS Naturals

CONSTANTS
  QueueCapacity,    \* frames the audio queue holds (AUDIO_QUEUE_SIZE)
  TerminateCanFail  \* may mrcp_application_session_terminate return FALSE?

ASSUME QueueAssumption == QueueCapacity \in Nat \ {0}
ASSUME TerminateAssumption == TerminateCanFail \in BOOLEAN

VARIABLES
  chan,      \* "null" (not created, or destroyed) or "allocated"
  state,     \* schannel->state
  session,   \* the UniMRCP session: see SessionStates
  op,        \* where the application thread is inside a call on the channel
  ret,       \* what the last call returned: 0 "ok", -1 "error", 2 "retry"
  cb,        \* the client task inside on_session_terminate, else "none"
  queue,     \* frames in schannel->audio_queue
  requested, \* has a request been sent on this session?
  stale,     \* history: stop or barge-in gave up and forced ERROR
  expired    \* history: the wait for the termination in open gave up

channelVars ==
  <<chan, state, session, op, ret, cb, queue, requested, stale, expired>>

States == {"CLOSED", "READY", "PROCESSING", "ERROR"}

\* "none": no session was created.  "adding": channel_add was sent and is not
\* answered.  "up": it was answered.  "terminating": terminate was sent.
\* "destroyed": mrcp_application_session_destroy was called.  "corrupt": the
\* handle was used after it was destroyed.
SessionStates ==
  {"none", "adding", "up", "terminating", "destroyed", "corrupt"}

Ops == {"idle", "open_wait", "open_term_wait", "ready_wait", "request_wait",
        "grammar_ready_wait", "grammar_wait", "stop_wait", "destroy_wait"}

Gone == {"none", "destroyed", "corrupt"}  \* sessions the library knows no more

DataOK ==
  /\ chan \in {"null", "allocated"}
  /\ state \in States
  /\ session \in SessionStates
  /\ op \in Ops
  /\ ret \in {"ok", "error", "retry"}
  /\ cb \in {"none", "destroyed"}
  /\ queue \in 0..QueueCapacity

FlagsOK == requested \in BOOLEAN /\ stale \in BOOLEAN /\ expired \in BOOLEAN

ChannelTypeOK == DataOK /\ FlagsOK

ChannelInit ==
  /\ chan = "null" /\ state = "CLOSED" /\ session = "none"
  /\ op = "idle" /\ ret = "ok" /\ cb = "none" /\ queue = 0
  /\ requested = FALSE /\ stale = FALSE /\ expired = FALSE

-----------------------------------------------------------------------------
(* Helpers.                                                                *)

\* Mutant of SetState: the queue is not cleared.
SetStateKeepsAudio(s) == state' = s /\ UNCHANGED queue

\* speech_channel_set_state(_unlocked): leaving PROCESSING empties the queue.
SetState(s) ==
  /\ state' = s
  /\ queue' = IF state = "PROCESSING" /\ s # "PROCESSING" THEN 0 ELSE queue

\* The call returns r.
Return(r) == op' = "idle" /\ ret' = r

\* The application calls a function of an existing channel.
Call == chan = "allocated" /\ op = "idle"

\* mrcp_application_session_terminate: the answer comes as a callback.
Terminate ==
  session' \in CASE session = "destroyed"   -> {"corrupt"}
                 [] session = "corrupt"     -> {"corrupt"}
                 [] session = "terminating" -> {"terminating"}
                 [] OTHER -> {"terminating"} \cup
                             (IF TerminateCanFail THEN {session} ELSE {})

\* What using the handle for anything but terminate does to the session.
UseSession == session' = IF session = "destroyed" THEN "corrupt" ELSE session

-----------------------------------------------------------------------------
(* speech_channel_create, speech_channel_open                              *)

Create ==
  /\ chan = "null" /\ op = "idle"
  /\ chan' = "allocated" /\ state' = "CLOSED" /\ session' = "none" /\ queue' = 0
  /\ requested' = FALSE /\ stale' = FALSE /\ expired' = FALSE
  /\ Return("ok")
  /\ UNCHANGED cb

\* A mutex, a condition variable or the queue cannot be created.
CreateFails ==
  /\ chan = "null" /\ op = "idle"
  /\ Return("error")
  /\ UNCHANGED <<chan, state, session, cb, queue, requested, stale, expired>>

OpenRefused ==
  /\ Call /\ state # "CLOSED"
  /\ Return("error")
  /\ UNCHANGED <<chan, state, session, cb, queue, requested, stale, expired>>

\* The session cannot be created (2), or the termination, the channel or the
\* channel-add request fails and the session is destroyed again (-1).
OpenFails ==
  /\ Call /\ state = "CLOSED"
  /\ \/ session' = "none" /\ Return("retry")
     \/ session' = "destroyed" /\ Return("error")
  /\ requested' = FALSE /\ expired' = FALSE
  /\ UNCHANGED <<chan, state, cb, queue, stale>>

OpenSend ==
  /\ Call /\ state = "CLOSED"
  /\ session' = "adding" /\ op' = "open_wait"
  /\ requested' = FALSE /\ expired' = FALSE
  /\ UNCHANGED <<chan, state, ret, cb, queue, stale>>

\* while (state == CLOSED) timedwait: a timeout only waits again.
OpenReady ==
  /\ op = "open_wait" /\ state = "READY"
  /\ Return("ok")
  /\ UNCHANGED <<chan, state, session, cb, queue, requested, stale, expired>>

\* Mutant of OpenError: it returns without waiting for the termination.
OpenErrorReturns ==
  /\ op = "open_wait" /\ state = "ERROR"
  /\ Terminate
  /\ Return("error")
  /\ UNCHANGED <<chan, state, cb, queue, requested, stale, expired>>

OpenError ==
  /\ op = "open_wait" /\ state = "ERROR"
  /\ Terminate
  /\ op' = "open_term_wait"
  /\ UNCHANGED <<chan, state, ret, cb, queue, requested, stale, expired>>

\* Mutant of OpenTermWake: the session is taken for closed.
OpenTermAssumed ==
  /\ op = "open_term_wait"
  /\ state' = "CLOSED" /\ Return("retry")
  /\ UNCHANGED <<chan, session, cb, queue, requested, stale, expired>>

\* A single timedwait, whatever ended it.
OpenTermWake ==
  /\ op = "open_term_wait"
  /\ IF state = "CLOSED" THEN Return("retry") /\ UNCHANGED expired
                         ELSE Return("error") /\ expired' = TRUE
  /\ UNCHANGED <<chan, state, session, cb, queue, requested, stale>>

\* The data of a recognizer cannot be allocated, whichever wait it was that ended:
\* open fails, and leaves the channel as it is, READY or not.
OpenDataFails ==
  /\ \/ op = "open_wait" /\ state = "READY" /\ UNCHANGED expired
     \/ op = "open_term_wait" /\ state = "CLOSED" /\ UNCHANGED expired
     \/ op = "open_term_wait" /\ state # "CLOSED" /\ expired' = TRUE
  /\ Return("error")
  /\ UNCHANGED <<chan, state, session, cb, queue, requested, stale>>

-----------------------------------------------------------------------------
(* SPEAK and RECOGNIZE: synth_channel_speak, recog_channel_start           *)

\* A lone timedwait when the channel is not READY.
RequestNotReady ==
  /\ Call /\ state # "READY"
  /\ op' = "ready_wait"
  /\ UNCHANGED <<chan, state, session, ret, cb, queue, requested, stale, expired>>

NotReady(wait) ==
  /\ op = wait /\ state # "READY"
  /\ Return("error")
  /\ UNCHANGED <<chan, state, session, cb, queue, requested, stale, expired>>

MayStart(wait) == state = "READY" /\ (Call \/ (chan = "allocated" /\ op = wait))

\* Mutant of RequestSend: the queue is not emptied.
RequestSendUncleared ==
  /\ MayStart("ready_wait")
  /\ UseSession /\ requested' = TRUE
  /\ op' = "request_wait"
  /\ UNCHANGED <<chan, state, ret, cb, queue, stale, expired>>

\* The queue is emptied, the request sent, and the answer awaited.
RequestSend ==
  /\ MayStart("ready_wait")
  /\ queue' = 0
  /\ UseSession /\ requested' = TRUE
  /\ op' = "request_wait"
  /\ UNCHANGED <<chan, state, ret, cb, stale, expired>>

\* The message or a header of it cannot be created (the queue is not emptied
\* yet), or the message cannot be sent.
RequestFails ==
  /\ MayStart("ready_wait")
  /\ queue' \in {queue, 0}
  /\ UseSession
  /\ Return("error")
  /\ UNCHANGED <<chan, state, cb, requested, stale, expired>>

\* A single timedwait for IN-PROGRESS.
RequestWake ==
  /\ op = "request_wait"
  /\ Return(IF state = "PROCESSING" THEN "ok" ELSE "error")
  /\ UNCHANGED <<chan, state, session, cb, queue, requested, stale, expired>>

-----------------------------------------------------------------------------
(* DEFINE-GRAMMAR: recog_channel_load_grammar                              *)

GrammarNotReady ==
  /\ Call /\ state # "READY"
  /\ op' = "grammar_ready_wait"
  /\ UNCHANGED <<chan, state, session, ret, cb, queue, requested, stale, expired>>

\* A URI grammar needs no request.
GrammarByUri ==
  /\ MayStart("grammar_ready_wait")
  /\ \/ Return("ok") \/ Return("error")
  /\ UNCHANGED <<chan, state, session, cb, queue, requested, stale, expired>>

\* The caller, not the server, moves the channel to PROCESSING.
GrammarSend ==
  /\ MayStart("grammar_ready_wait")
  /\ SetState("PROCESSING")
  /\ UseSession /\ requested' = TRUE
  /\ op' = "grammar_wait"
  /\ UNCHANGED <<chan, ret, cb, stale, expired>>

\* Before set_state a failure leaves READY, after it PROCESSING.
GrammarFails ==
  /\ MayStart("grammar_ready_wait")
  /\ \/ SetState("PROCESSING") \/ UNCHANGED <<state, queue>>
  /\ UseSession
  /\ Return("error")
  /\ UNCHANGED <<chan, cb, requested, stale, expired>>

\* wait_for_ready again.
GrammarWake ==
  /\ op = "grammar_wait"
  /\ Return(IF state = "READY" THEN "ok" ELSE "error")
  /\ UNCHANGED <<chan, state, session, cb, queue, requested, stale, expired>>

-----------------------------------------------------------------------------
(* speech_channel_stop, speech_channel_bargeinoccurred                     *)

StopNothing ==
  /\ Call /\ state # "PROCESSING"
  /\ Return("ok")
  /\ UNCHANGED <<chan, state, session, cb, queue, requested, stale, expired>>

\* Assigned, not set_state: the queue keeps its frames and nobody is signalled.
ForceError ==
  /\ state' = "ERROR" /\ stale' = TRUE
  /\ Return("error")

\* The message cannot be created (nothing changes) or cannot be sent.
StopFails ==
  /\ Call /\ state = "PROCESSING"
  /\ UseSession
  /\ \/ Return("error") /\ UNCHANGED <<state, stale>>
     \/ ForceError
  /\ UNCHANGED <<chan, cb, queue, requested, expired>>

StopSend ==
  /\ Call /\ state = "PROCESSING"
  /\ UseSession
  /\ op' = "stop_wait"
  /\ UNCHANGED <<chan, state, ret, cb, queue, requested, stale, expired>>

\* Woken, and the state is another one: whatever made it so.
StopDone ==
  /\ op = "stop_wait" /\ state # "PROCESSING"
  /\ Return(IF state = "ERROR" THEN "error" ELSE "ok")
  /\ UNCHANGED <<chan, state, session, cb, queue, requested, stale, expired>>

StopTimeout ==
  /\ op = "stop_wait" /\ state = "PROCESSING"
  /\ ForceError
  /\ UNCHANGED <<chan, session, cb, queue, requested, expired>>

-----------------------------------------------------------------------------
(* speech_channel_write, speech_channel_read                               *)

\* Mutant of Write: a full queue is not refused.
WriteUnbounded ==
  /\ Call /\ state = "PROCESSING"
  /\ queue' = queue + 1 /\ Return("ok")
  /\ UNCHANGED <<chan, state, session, cb, requested, stale, expired>>

\* The application queues a frame of the caller's audio.
Write ==
  /\ Call
  /\ \/ /\ state = "PROCESSING" /\ queue < QueueCapacity
        /\ queue' = queue + 1 /\ Return("ok")
     \/ /\ state = "PROCESSING" => queue = QueueCapacity
        /\ Return("error") /\ UNCHANGED queue
  /\ UNCHANGED <<chan, state, session, cb, requested, stale, expired>>

\* The media thread takes a frame for the server.  The mutex is free when the
\* application is outside a call or waits inside one, that is, always here.
Read ==
  /\ chan = "allocated" /\ state = "PROCESSING" /\ queue > 0
  /\ queue' = queue - 1
  /\ UNCHANGED <<chan, state, session, op, ret, cb, requested, stale, expired>>

-----------------------------------------------------------------------------
(* speech_channel_destroy                                                  *)

Free ==
  /\ chan' = "null" /\ queue' = 0
  /\ Return("ok")

DestroyClosed ==
  /\ Call /\ state = "CLOSED"
  /\ Free
  /\ UNCHANGED <<state, session, cb, requested, stale, expired>>

DestroySend ==
  /\ Call /\ state # "CLOSED"
  /\ Terminate
  /\ op' = "destroy_wait"
  /\ UNCHANGED <<chan, state, ret, cb, queue, requested, stale, expired>>

\* Mutant of DestroyDone: the first timeout ends the wait.
DestroyOnTimeout ==
  /\ op = "destroy_wait"
  /\ Free
  /\ UNCHANGED <<state, session, cb, requested, stale, expired>>

\* while (state != CLOSED) timedwait: a timeout warns once and waits again.
DestroyDone ==
  /\ op = "destroy_wait" /\ state = "CLOSED"
  /\ Free
  /\ UNCHANGED <<state, session, cb, requested, stale, expired>>

-----------------------------------------------------------------------------
(* Callbacks of the UniMRCP client task.                                   *)

\* on_channel_add: a refusal, or an answer with no codec descriptor, is ERROR.
OnChannelAdd ==
  /\ session = "adding"
  /\ session' = "up"
  /\ SetState("READY") \/ SetState("ERROR")
  /\ UNCHANGED <<chan, op, ret, cb, requested, stale, expired>>

\* on_message_receive, as far as the channel sees it: an answer or an event
\* for some request sets the state.
OnMessage(s) ==
  /\ requested /\ session \in {"up", "terminating"}
  /\ SetState(s)
  /\ UNCHANGED <<chan, session, op, ret, cb, requested, stale, expired>>

\* on_session_terminate destroys the session without the mutex ...
OnTerminateDestroy ==
  /\ session = "terminating" /\ cb = "none"
  /\ session' = "destroyed" /\ cb' = "destroyed"
  /\ UNCHANGED <<chan, state, op, ret, queue, requested, stale, expired>>

\* Mutant of OnTerminateClose: the channel is left in ERROR.
OnTerminateError ==
  /\ cb = "destroyed"
  /\ cb' = "none"
  /\ SetState("ERROR")
  /\ UNCHANGED <<chan, session, op, ret, requested, stale, expired>>

\* ... and then sets the state with it.
OnTerminateClose ==
  /\ cb = "destroyed"
  /\ cb' = "none"
  /\ SetState("CLOSED")
  /\ UNCHANGED <<chan, session, op, ret, requested, stale, expired>>

-----------------------------------------------------------------------------
\* The waits of the application thread that end.
Wake ==
  \/ OpenReady \/ OpenError \/ OpenTermWake \/ OpenDataFails
  \/ NotReady("ready_wait") \/ RequestWake
  \/ NotReady("grammar_ready_wait") \/ GrammarWake
  \/ StopDone \/ StopTimeout \/ DestroyDone
  \/ (op # "idle" /\ (RequestSend \/ RequestFails))
  \/ (op # "idle" /\ (GrammarSend \/ GrammarFails \/ GrammarByUri))

AppCall ==
  \/ Create \/ CreateFails \/ OpenRefused \/ OpenFails \/ OpenSend
  \/ RequestNotReady \/ (op = "idle" /\ (RequestSend \/ RequestFails))
  \/ GrammarNotReady
  \/ (op = "idle" /\ (GrammarSend \/ GrammarFails \/ GrammarByUri))
  \/ StopNothing \/ StopFails \/ StopSend
  \/ Write \/ DestroyClosed \/ DestroySend

Callback ==
  \/ OnChannelAdd \/ OnTerminateDestroy \/ OnTerminateClose

ChannelNext ==
  \/ AppCall \/ Wake \/ Callback \/ Read
  \/ \E s \in {"READY", "PROCESSING", "ERROR"} : OnMessage(s)

ChannelSpec == ChannelInit /\ [][ChannelNext]_channelVars

\* A blocked thread is scheduled again (by the timeout at the latest), and the
\* library answers each signalling request it accepted.
ChannelFairSpec ==
  ChannelSpec /\ WF_channelVars(Wake) /\ WF_channelVars(Callback)

\* The same threads, and a library that may leave a request unanswered.
ChannelSilentSpec == ChannelSpec /\ WF_channelVars(Wake)

-----------------------------------------------------------------------------
(* What a channel promises.                                                *)

\* The memory of a channel is given back only when its session is gone and no
\* callback for it is running or to come: speech_channel_destroy waits for
\* CLOSED, and CLOSED with nobody opening means exactly that.
FreedIsGone == chan = "null" => session \in Gone /\ cb = "none"

\* The session's handle is not used after on_session_terminate destroyed it,
\* unless open had given up waiting for that very callback (it returns with
\* the channel in ERROR, and destroy then terminates a second time).
HandleSafe == session = "corrupt" => expired

\* Frames are queued only while a request is in progress; those left behind
\* by a stop that gave up are the exception (its ERROR is assigned without
\* speech_channel_set_state).
NoAudioOutsideRequest == queue > 0 => state = "PROCESSING" \/ stale

\* A request starts with an empty queue: the server is never sent audio from
\* before the request, however the channel came to be READY again.
StartsEmpty ==
  [][op = "request_wait" /\ state # "PROCESSING" /\ state' = "PROCESSING"
       => queue' = 0]_channelVars

\* The session the channel stands for, as its owner sees it.
phase ==
  CASE chan = "null" -> "absent"
    [] chan # "null" /\ cb # "none" -> "closing"
    [] chan # "null" /\ cb = "none" /\ session \in Gone -> "closed"
    [] chan # "null" /\ cb = "none" /\ session = "adding" -> "opening"
    [] chan # "null" /\ cb = "none" /\ session = "up" -> "live"
    [] chan # "null" /\ cb = "none" /\ session = "terminating" -> "closing"

Lifecycle == INSTANCE ChannelLifecycle WITH phase <- phase

\* What an application with several channels sees of this one.
Contract == INSTANCE ChannelContract WITH exists <- chan # "null", state <- state

\* The channel implements the life cycle and the contract: none is released, and
\* none opened again, before the session it had is gone, and it leaves CLOSED
\* only by being opened.
LifecycleImplemented == Lifecycle!Spec /\ Contract!Spec

\* No call blocks for good, whether or not the server answers a request, if the
\* library answers every channel-add and every terminate it accepted: but for
\* destroy, when the library refused to terminate the session, which stays up.
CallsReturn ==
  (op # "idle") ~> (op = "idle" \/ (op = "destroy_wait" /\ session = "up"))

\* "Timed out waiting for channel to be ready" (speech_channel.c:503): open
\* gives up on a channel-add that is not answered.
OpenGivesUp == (op = "open_wait") ~> (op # "open_wait")
=============================================================================
