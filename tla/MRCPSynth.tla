----------------------------- MODULE MRCPSynth -----------------------------
(***************************************************************************)
(* The application MRCPSynth() (app-unimrcp/app_mrcpsynth.c): the dialplan *)
(* of one caller runs it several times, with a dynamic or a persistent MRCP*)
(* session, and then the caller hangs up.  Its speech channel is the one of*)
(* SpeechChannel; here are the application around it, the requests it      *)
(* sends, and the synthesizer that answers them.                           *)
(*                                                                         *)
(* The server (external) answers requests in the order they were sent, at  *)
(* any time or never.  A message is produced and dispatched to the         *)
(* application's handler in one step: what is on the way shows only as     *)
(* requests not answered yet.                                              *)
(***************************************************************************)
EXTENDS SpeechChannel, Sequences

CONSTANT MaxCalls  \* bound: how often the dialplan runs the application

ASSUME CallsAssumption == MaxCalls \in Nat \ {0}

VARIABLES
  apc,       \* where app_synth_exec is, between calls on the channel
  calls,     \* how many times it was run
  plt,       \* app_session->lifetime is PERSISTENT
  sbs,       \* app_session->stop_barged_synth
  digits,    \* dtmf_enable: digits interrupt the synthesis
  profile,   \* schannel->profile is set
  status,    \* the status of the run; when it is over, SYNTHSTATUS
  requests,  \* sent and not answered: a sequence of [id, method]
  speaking,  \* the SPEAK the server has in progress, or 0
  cur,       \* the last SPEAK sent; ids count the requests
  sent,      \* the number of requests sent on this session
  overlap,   \* history: cur was sent while the server owed an answer or spoke
  failed     \* history: a message has set ERROR since this run's SPEAK

appVars == <<apc, calls, plt, sbs, digits, profile, status>>
serverVars == <<requests, speaking, cur, sent, overlap, failed>>
synthVars == <<channelVars, appVars, serverVars>>

Methods == {"SPEAK", "STOP", "BARGE-IN-OCCURRED"}

AppStates == {"idle", "create", "profile", "open", "content", "speak", "play",
              "barge", "exit", "stop", "destroy", "hangup", "end", "crashed"}

SynthTypeOK ==
  /\ ChannelTypeOK
  /\ apc \in AppStates /\ calls \in 0..MaxCalls
  /\ {plt, sbs, digits, profile, overlap, failed} \subseteq BOOLEAN
  /\ status \in {"OK", "ERROR", "INTERRUPTED"}
  /\ requests \in Seq([id : Nat, method : Methods])
  /\ speaking \in Nat /\ cur \in Nat /\ sent \in Nat

SynthInit ==
  /\ ChannelInit
  /\ apc = "idle" /\ calls = 0 /\ status = "OK"
  /\ plt = FALSE /\ sbs = FALSE /\ digits = FALSE /\ profile = FALSE
  /\ requests = <<>> /\ speaking = 0 /\ cur = 0 /\ sent = 0
  /\ overlap = FALSE /\ failed = FALSE

-----------------------------------------------------------------------------
(* Helpers.                                                                *)

At(a) == apc = a /\ op = "idle"

Goto(a) == apc' = a /\ UNCHANGED <<calls, plt, sbs, digits, profile, status>>

\* mrcpsynth_exit(chan, app_session, s)
ExitWith(s) ==
  /\ apc' = "exit" /\ status' = s
  /\ UNCHANGED <<calls, plt, sbs, digits, profile>>

\* mrcp_application_message_send
Send(m) ==
  /\ requests' = Append(requests, [id |-> sent + 1, method |-> m])
  /\ sent' = sent + 1

\* The channel's part of a step, and no request.
Quietly(action) == action /\ UNCHANGED serverVars

-----------------------------------------------------------------------------
(* app_synth_exec                                                          *)

\* No prompt, no datastore or no session entry: nothing is touched.
BadCall ==
  /\ At("idle") /\ calls < MaxCalls
  /\ calls' = calls + 1 /\ status' = "ERROR"
  /\ UNCHANGED <<channelVars, serverVars, apc, plt, sbs, digits, profile>>

Exec ==
  /\ At("idle") /\ calls < MaxCalls
  /\ calls' = calls + 1
  /\ plt' \in BOOLEAN /\ sbs' \in BOOLEAN /\ digits' \in BOOLEAN
  /\ apc' = IF chan = "null" THEN "create" ELSE "content"
  /\ UNCHANGED <<channelVars, serverVars, profile, status>>

CreateChannel ==
  /\ At("create")
  /\ \/ /\ Create
        /\ apc' = "profile" /\ profile' = FALSE
        /\ requests' = <<>> /\ speaking' = 0 /\ cur' = 0 /\ sent' = 0
        /\ UNCHANGED <<calls, plt, sbs, digits, status, overlap, failed>>
     \/ Quietly(CreateFails) /\ ExitWith("ERROR")

ProfileMissing ==
  /\ At("profile")
  /\ ExitWith("ERROR") /\ UNCHANGED <<channelVars, serverVars>>

\* Mutant of OpenChannel: the channel does not keep the profile.
OpenChannelForgets ==
  /\ At("profile")
  /\ Quietly(OpenFails \/ OpenSend)
  /\ Goto("open")

OpenChannel ==
  /\ At("profile")
  /\ Quietly(OpenFails \/ OpenSend)
  /\ apc' = "open" /\ profile' = TRUE
  /\ UNCHANGED <<calls, plt, sbs, digits, status>>

Opening ==
  /\ apc = "open"
  /\ Quietly(OpenReady \/ OpenError \/ OpenTermWake)
  /\ UNCHANGED appVars

\* Mutant of Opened: the result of open becomes the status.
OpenedPassesResult ==
  /\ At("open")
  /\ IF ret = "ok" THEN Goto("content") ELSE ExitWith(ret)
  /\ UNCHANGED <<channelVars, serverVars>>

\* Any result but 0 ends the run; the channel stays in the session.
Opened ==
  /\ At("open")
  /\ IF ret = "ok" THEN Goto("content") ELSE ExitWith("ERROR")
  /\ UNCHANGED <<channelVars, serverVars>>

\* determine_synth_content_type: SSML takes its type from the profile, which
\* a channel kept from a run that found no profile does not have.
Content ==
  /\ At("content")
  /\ \/ Goto("speak")
     \/ ExitWith("ERROR")
     \/ ~profile /\ Goto("crashed")
  /\ UNCHANGED <<channelVars, serverVars>>

\* synth_channel_speak, called or woken up: send SPEAK.
SpeakSend ==
  /\ apc = "speak"
  /\ RequestSend
  /\ Send("SPEAK") /\ cur' = sent + 1
  /\ overlap' = (requests # <<>> \/ speaking # 0) /\ failed' = FALSE
  /\ UNCHANGED <<appVars, speaking>>

\* synth_channel_speak: the steps that send nothing.
Speak ==
  /\ apc = "speak"
  /\ \/ Quietly(RequestNotReady) /\ UNCHANGED appVars
     \/ Quietly(NotReady("ready_wait") \/ RequestFails) /\ ExitWith("ERROR")
     \/ /\ Quietly(RequestWake)
        /\ IF ret' = "ok" THEN /\ apc' = "play" /\ status' = "OK"
                               /\ UNCHANGED <<calls, plt, sbs, digits, profile>>
                          ELSE ExitWith("ERROR")

\* ast_waitfor or ast_read reports that the caller is gone.
PlayHangup ==
  /\ At("play")
  /\ ExitWith("INTERRUPTED") /\ UNCHANGED <<channelVars, serverVars>>

\* A digit that interrupts: speech_channel_bargeinoccurred.
PlayDigit ==
  /\ At("play") /\ digits
  /\ \/ Quietly(StopNothing \/ StopFails)
     \/ /\ StopSend
        /\ Send("BARGE-IN-OCCURRED")
        /\ UNCHANGED <<speaking, cur, overlap, failed>>
  /\ apc' = "barge" /\ status' = "INTERRUPTED"
  /\ UNCHANGED <<calls, plt, sbs, digits, profile>>

Barging ==
  /\ apc = "barge"
  /\ \/ Quietly(StopDone \/ StopTimeout) /\ UNCHANGED appVars
     \/ op = "idle" /\ Goto("exit") /\ UNCHANGED <<channelVars, serverVars>>

\* Mutant of PlayEnd: only READY ends the loop.
PlayEndReady ==
  /\ At("play") /\ state = "READY"
  /\ Goto("exit") /\ UNCHANGED <<channelVars, serverVars>>

\* The end of the prompt: the state is read without the mutex.
PlayEnd ==
  /\ At("play") /\ state # "PROCESSING"
  /\ Goto("exit") /\ UNCHANGED <<channelVars, serverVars>>

-----------------------------------------------------------------------------
(* mrcpsynth_exit                                                          *)

\* Mutant of ExitKeeps: a run that fails skips the clean-up.
ExitKeepsOnError ==
  /\ At("exit") /\ (plt \/ chan = "null" \/ status = "ERROR")
  /\ Goto("idle") /\ UNCHANGED <<channelVars, serverVars>>

\* A persistent session keeps its channel.
ExitKeeps ==
  /\ At("exit") /\ (plt \/ chan = "null")
  /\ Goto("idle") /\ UNCHANGED <<channelVars, serverVars>>

ExitStop ==
  /\ At("exit") /\ ~plt /\ sbs /\ chan # "null"
  /\ \/ Quietly(StopNothing \/ StopFails)
     \/ StopSend /\ Send("STOP") /\ UNCHANGED <<speaking, cur, overlap, failed>>
  /\ Goto("stop")

Stopping ==
  /\ apc = "stop"
  /\ Quietly(StopDone \/ StopTimeout) /\ UNCHANGED appVars

ExitDestroy ==
  /\ (At("exit") /\ ~plt /\ ~sbs /\ chan # "null") \/ At("stop")
  /\ Quietly(DestroyClosed \/ DestroySend)
  /\ Goto("destroy")

Destroying ==
  /\ apc \in {"destroy", "hangup"}
  /\ \/ Quietly(DestroyDone) /\ UNCHANGED appVars
     \/ /\ op = "idle"
        /\ Goto(IF apc = "destroy" THEN "idle" ELSE "end")
        /\ UNCHANGED <<channelVars, serverVars>>

\* The Asterisk channel is destroyed: app_datastore_destroy destroys the speech
\* channel the session still has.
HangUp ==
  /\ At("idle")
  /\ IF chan = "null" THEN UNCHANGED channelVars ELSE DestroyClosed \/ DestroySend
  /\ UNCHANGED serverVars
  /\ Goto("hangup")

-----------------------------------------------------------------------------
(* synth_on_message_receive, and the server behind it.  No handler compares*)
(* the request-id of a message with anything.                              *)

Message(s) ==
  /\ OnMessage(s)
  /\ failed' = (failed \/ s = "ERROR")
  /\ UNCHANGED <<appVars, cur, sent, overlap>>

Answers(methods) ==
  /\ requests # <<>> /\ Head(requests).method \in methods
  /\ requests' = Tail(requests)

\* A SPEAK is begun, or answered with anything but IN-PROGRESS.
AnswerSpeak ==
  /\ Answers({"SPEAK"})
  /\ \/ /\ speaking = 0
        /\ speaking' = Head(requests).id /\ Message("PROCESSING")
     \/ UNCHANGED speaking /\ Message("ERROR")

\* COMPLETE: the speech is stopped, though a barge-in need not stop it
\* (Kill-On-Barge-In).  Any other request state is unexpected.
AnswerStop ==
  /\ Answers({"STOP", "BARGE-IN-OCCURRED"})
  /\ \/ speaking' = 0 /\ Message("READY")
     \/ /\ Head(requests).method = "BARGE-IN-OCCURRED"
        /\ UNCHANGED speaking /\ Message("READY")
     \/ UNCHANGED speaking /\ Message("ERROR")

\* Mutant of SpeakComplete: it is taken for IN-PROGRESS.
SpeakCompleteGoesOn ==
  /\ speaking # 0
  /\ speaking' = 0 /\ Message("PROCESSING")
  /\ UNCHANGED requests

SpeakComplete ==
  /\ speaking # 0
  /\ speaking' = 0 /\ Message("READY")
  /\ UNCHANGED requests

\* Any other event, a SPEECH-MARKER of the speech in progress among them.
OtherEvent ==
  /\ speaking # 0
  /\ Message("ERROR")
  /\ UNCHANGED <<requests, speaking>>

\* speech_on_channel_add, speech_on_session_terminate.
SignallingCallback ==
  /\ Callback
  /\ IF session' = "destroyed" THEN requests' = <<>> /\ speaking' = 0
                               ELSE UNCHANGED <<requests, speaking>>
  /\ UNCHANGED <<appVars, cur, sent, overlap, failed>>

Server == AnswerSpeak \/ AnswerStop \/ SpeakComplete \/ OtherEvent

-----------------------------------------------------------------------------
\* What the application does by itself once it runs.
Run ==
  \/ CreateChannel \/ ProfileMissing \/ OpenChannel \/ Opening \/ Opened
  \/ Content \/ SpeakSend \/ Speak \/ Barging \/ PlayEnd
  \/ ExitKeeps \/ ExitStop \/ Stopping \/ ExitDestroy \/ Destroying

\* What the dialplan and the caller do.
Caller == BadCall \/ Exec \/ PlayHangup \/ PlayDigit \/ HangUp

\* The caller is gone, or the process is.
Over == apc \in {"end", "crashed"} /\ UNCHANGED synthVars

SynthNext == Run \/ Caller \/ Server \/ SignallingCallback \/ Over

SynthSpec == SynthInit /\ [][SynthNext]_synthVars

\* The application's thread runs, the library answers, and the server finishes
\* a speech it began; it need not answer any request, and nobody need hang up.
SynthFairSpec ==
  /\ SynthSpec
  /\ WF_synthVars(Run) /\ WF_synthVars(SignallingCallback)
  /\ WF_synthVars(SpeakComplete)

-----------------------------------------------------------------------------
(* What the application promises.                                          *)

\* While it plays, the state it polls without the mutex tells whether its own
\* SPEAK is in progress, although no handler looks at a request-id, as long as
\* the server owed nothing when the SPEAK was sent and reported no error.
StateTracksSpeech ==
  At("play") /\ ~overlap /\ ~failed => (state = "PROCESSING" <=> speaking = cur)

\* A dynamic run, and a hangup, leave no channel, no session, no request and
\* no callback behind, however the run ended.
NothingLeft ==
  At("end") \/ (At("idle") /\ ~plt) =>
    chan = "null" /\ session \in Gone /\ cb = "none" /\ requests = <<>>

\* The missing profile is met only by a run that finds the channel of an
\* earlier, persistent run whose profile lookup failed.
CrashNeedsReuse == apc = "crashed" => calls > 1 /\ session = "none"

\* The application uses its channel as SpeechChannel allows, so that what is
\* proved there holds here.
ChannelUsed == ChannelSpec

\* Every run of the application ends.
CallEnds ==
  (apc \notin {"idle", "end", "crashed"}) ~> (apc \in {"idle", "end", "crashed"})

\* The runs, and the hangup, as the datastore relies on them.
OnEntry == apc \notin {"idle", "hangup", "end"}

EntryAt == IF apc \in {"idle", "hangup", "end", "crashed"} THEN apc ELSE "run"

EntryUses == IF OnEntry THEN {"synth"} ELSE {}

EntryLasting == OnEntry /\ plt

EntryHeld == IF chan = "null" THEN {} ELSE {"synth"}

EntryRuns ==
  INSTANCE RunContract WITH
    Uses <- {{"synth"}}, at <- EntryAt, uses <- EntryUses,
    lasting <- EntryLasting, held <- EntryHeld

RunsKept == EntryRuns!Spec
=============================================================================
