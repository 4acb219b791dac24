----------------------------- MODULE MRCPRecog -----------------------------
(***************************************************************************)
(* The application MRCPRecog() (app-unimrcp/app_mrcprecog.c): it defines   *)
(* grammars, plays prompts, sends RECOGNIZE, feeds the caller's audio to   *)
(* the recognizer and collects the result.  The dialplan of one caller runs*)
(* it several times, with a dynamic or a persistent MRCP session, and then *)
(* the caller hangs up.  Its speech channel is the one of SpeechChannel.   *)
(*                                                                         *)
(* A handler of the UniMRCP client task that stores results and then sets  *)
(* the state takes the channel's mutex twice, and is two actions.  Which   *)
(* options a run was given is chosen where the code first looks at them.   *)
(* The server (external) answers requests in order, at any time or never.  *)
(***************************************************************************)
EXTENDS SpeechChannel, Sequences, Integers

CONSTANTS
  MaxCalls,    \* bound: how often the dialplan runs the application
  MaxGrammars, \* bound: grammars in one call
  MaxPrompts   \* bound: prompts in one call

ASSUME RecogAssumption ==
  MaxCalls \in Nat \ {0} /\ MaxGrammars \in Nat \ {0}
  /\ MaxPrompts \in Nat \ {0}

VARIABLES
  apc,       \* where app_recog_exec is, between calls on the channel
  calls,     \* how many times it was run
  plt,       \* app_session->lifetime is PERSISTENT
  profile,   \* schannel->profile is set
  grammars,  \* grammars still to load
  prompts,   \* prompts still to play, the current one included
  playing,   \* prompt_processing
  policy,    \* app_session->it_policy
  keys,      \* option i: "off", "some" digits interrupt, or "any" does
  status,    \* the status of the run; when it is over, RECOGSTATUS
  reported,  \* RECOG_COMPLETION_CAUSE of the run, Unset if it was not set
  owner,     \* whose cause that was
  key        \* the digit the run returned: "none", "listed" or "other"

VARIABLES
  cause,     \* r->completion_cause
  by,        \* the RECOGNIZE that cause (and the result with it) came from
  started,   \* r->start_of_input
  timers,    \* r->timers_started
  rcb        \* the state the client task is about to set, else "none"

VARIABLES
  requests,  \* sent and not answered: a sequence of [method, id]
  active,    \* the RECOGNIZEs in progress (the first) and queued
  cur,       \* the last RECOGNIZE sent; the ids count them
  overlap,   \* history: cur was sent while the server owed something
  told,      \* history: the cause the server gave for a failure of this run
  refused    \* history: START-INPUT-TIMERS failed

optionVars == <<plt, grammars, prompts, playing, policy, keys>>
runVars == <<calls, profile, status, reported, owner, key>>
appVars == <<apc, optionVars, runVars>>
dataVars == <<cause, by, started, timers>>
serverVars == <<requests, active, cur, overlap, told, refused>>
restVars == <<dataVars, rcb, serverVars>>
recogVars == <<channelVars, appVars, restVars>>

NoData == -2   \* schannel->data is NULL
Unset == -1
Success == 0   \* also what memset and get_results leave
Failure == 1   \* any other cause: no match, no input, grammar failure, ...

Causes == {NoData, Unset, Success, Failure}

Methods == {"RECOGNIZE", "DEFINE-GRAMMAR", "START-INPUT-TIMERS"}

AppStates ==
  {"idle", "create", "profile", "open", "grammar", "load", "load_failed",
   "prompts", "start", "start_failed", "first_prompt", "listen", "prompt",
   "frame", "write", "results", "exit", "destroy", "hangup", "end", "crashed"}

RecogTypeOK ==
  /\ ChannelTypeOK
  /\ apc \in AppStates /\ calls \in 0..MaxCalls
  /\ {plt, profile, playing, started, timers, overlap, refused} \subseteq BOOLEAN
  /\ grammars \in 0..MaxGrammars /\ prompts \in 0..MaxPrompts
  /\ policy \in {"auto", "on", "off"} /\ keys \in {"off", "some", "any"}
  /\ status \in {"OK", "ERROR", "INTERRUPTED"}
  /\ key \in {"none", "listed", "other"}
  /\ {cause, reported, told} \subseteq Causes
  /\ rcb \in {"none", "READY", "ERROR"}
  /\ requests \in Seq([method : Methods, id : Nat]) /\ active \in Seq(Nat)
  /\ {by, owner, cur} \subseteq Nat

RecogInit ==
  /\ ChannelInit
  /\ apc = "idle" /\ calls = 0 /\ plt = FALSE /\ profile = FALSE
  /\ grammars = 0 /\ prompts = 0 /\ playing = FALSE
  /\ policy = "auto" /\ keys = "off"
  /\ status = "OK" /\ reported = Unset /\ owner = 0 /\ key = "none"
  /\ cause = NoData /\ by = 0 /\ started = FALSE /\ timers = FALSE
  /\ rcb = "none" /\ requests = <<>> /\ active = <<>> /\ cur = 0
  /\ overlap = FALSE /\ told = Unset /\ refused = FALSE

-----------------------------------------------------------------------------
(* Helpers.                                                                *)

At(a) == apc = a /\ op = "idle"

Goto(a) == apc' = a /\ UNCHANGED <<optionVars, runVars>>

\* mrcprecog_exit(chan, app_session, s)
ExitWith(s) ==
  /\ apc' = "exit" /\ status' = s
  /\ UNCHANGED <<optionVars, calls, profile, reported, owner, key>>

\* mrcp_application_message_send
Send(m, id) == requests' = Append(requests, [method |-> m, id |-> id])

\* The channel's part of a step, and nothing of the rest.
Quietly(action) == action /\ UNCHANGED restVars

Aside == UNCHANGED <<channelVars, restVars>>

\* recog_channel_set_results: results are not replaced.
SetResults(c, id) ==
  IF cause = Unset THEN cause' = c /\ by' = id ELSE UNCHANGED <<cause, by>>

\* recog_channel_get_results, when there are some.
GetResults ==
  /\ cause >= 0
  /\ reported' = cause /\ owner' = by
  /\ cause' = Success /\ by' = 0

-----------------------------------------------------------------------------
(* app_recog_exec: the session                                             *)

\* No grammar, no datastore or no session entry: nothing is touched.
BadCall ==
  /\ At("idle") /\ calls < MaxCalls
  /\ calls' = calls + 1 /\ status' = "ERROR"
  /\ UNCHANGED <<apc, optionVars, profile, reported, owner, key>> /\ Aside

Exec ==
  /\ At("idle") /\ calls < MaxCalls
  /\ calls' = calls + 1
  /\ apc' = IF chan = "null" THEN "create" ELSE "grammar"
  /\ plt' \in BOOLEAN /\ grammars' \in 1..MaxGrammars
  /\ prompts' = 0 /\ playing' = FALSE /\ policy' = "auto" /\ keys' = "off"
  /\ status' = "OK" /\ reported' = Unset /\ owner' = 0 /\ key' = "none"
  /\ told' = Unset
  /\ UNCHANGED <<channelVars, profile, dataVars, rcb, requests, active, cur,
                 overlap, refused>>

CreateChannel ==
  /\ At("create")
  /\ \/ /\ Create
        /\ apc' = "profile" /\ profile' = FALSE
        /\ cause' = NoData /\ by' = 0 /\ started' = FALSE /\ timers' = FALSE
        /\ requests' = <<>> /\ active' = <<>> /\ cur' = 0
        /\ UNCHANGED <<optionVars, calls, status, reported, owner, key, rcb,
                       overlap, told, refused>>
     \/ Quietly(CreateFails) /\ ExitWith("ERROR")

ProfileMissing == At("profile") /\ ExitWith("ERROR") /\ Aside

OpenChannel ==
  /\ At("profile")
  /\ Quietly(OpenFails \/ OpenSend)
  /\ apc' = "open" /\ profile' = TRUE
  /\ UNCHANGED <<optionVars, calls, status, reported, owner, key>>

\* When its wait is over, however it ended, open allocates and clears the
\* recognizer's data: the completion cause becomes 0.
Opening ==
  /\ apc = "open"
  /\ \/ Quietly(OpenError \/ OpenDataFails)
     \/ /\ OpenReady \/ OpenTermWake
        /\ cause' = Success
        /\ UNCHANGED <<by, started, timers, rcb, serverVars>>
  /\ UNCHANGED appVars

\* Any result but 0 ends the run; the channel stays in the session.
Opened ==
  /\ At("open")
  /\ IF ret = "ok" THEN Goto("grammar") ELSE ExitWith("ERROR")
  /\ Aside

-----------------------------------------------------------------------------
(* app_recog_exec: the grammars                                            *)

\* determine_grammar_type, and grammar_type_to_mime at the start of
\* recog_channel_load_grammar: an inline grammar takes its type from the
\* profile, which a channel kept from a run that found none does not have.
NextGrammar ==
  /\ At("grammar")
  /\ IF grammars = 0
     THEN Goto("prompts")
     ELSE \/ Goto("load") \/ Goto("load_failed") \/ ExitWith("ERROR")
          \/ ~profile /\ Goto("crashed")
  /\ Aside

Loaded ==
  /\ apc' = "grammar" /\ grammars' = grammars - 1
  /\ UNCHANGED <<plt, prompts, playing, policy, keys, runVars>>

DefineSend ==
  /\ apc = "load"
  /\ GrammarSend
  /\ Send("DEFINE-GRAMMAR", 0)
  /\ UNCHANGED <<appVars, dataVars, rcb, active, cur, overlap, told, refused>>

Load ==
  /\ apc = "load"
  /\ \/ Quietly(GrammarNotReady) /\ UNCHANGED appVars
     \/ Quietly(NotReady("grammar_ready_wait") \/ GrammarFails) /\ Goto("load_failed")
     \/ /\ Quietly(GrammarByUri \/ GrammarWake)
        /\ IF ret' = "ok" THEN Loaded ELSE Goto("load_failed")

\* The cause of the failure is reported, if there is one.
ReportFailure ==
  /\ At("load_failed") \/ At("start_failed")
  /\ apc' = "exit" /\ status' = "ERROR"
  /\ \/ GetResults
     \/ cause < 0 /\ UNCHANGED <<reported, owner, cause, by>>
  /\ UNCHANGED <<channelVars, optionVars, calls, profile, key, started, timers,
                 rcb, serverVars>>

-----------------------------------------------------------------------------
(* app_recog_exec: prompts and RECOGNIZE                                   *)

\* Without barge-in the prompts are played before RECOGNIZE is sent; playing
\* can fail, or the caller hang up.
Prompts ==
  /\ At("prompts")
  /\ \/ /\ apc' = "start"
        /\ policy' \in {"auto", "on", "off"} /\ keys' \in {"off", "some", "any"}
        /\ prompts' \in 0..MaxPrompts
        /\ playing' \in IF prompts' = 0 THEN {FALSE} ELSE {TRUE, FALSE}
        /\ UNCHANGED <<plt, grammars, runVars>>
     \/ ExitWith("ERROR") \/ ExitWith("INTERRUPTED")
  /\ Aside

StartInputTimers == IF policy = "auto" THEN ~playing ELSE policy = "on"

\* Mutant of ResetData: the results of the last RECOGNIZE stay.
ResetDataKeepsResults ==
  /\ cause' = (IF cause = NoData THEN Unset ELSE cause)
  /\ started' = FALSE /\ timers' = StartInputTimers
  /\ UNCHANGED by

\* The recognizer's data is made ready for a new RECOGNIZE.
ResetData ==
  /\ cause' = Unset /\ by' = 0 /\ started' = FALSE /\ timers' = StartInputTimers

\* Mutant of StartSend: the channel need not be READY.
StartSendUnready ==
  /\ apc = "start" /\ cause # NoData /\ Call
  /\ queue' = 0 /\ UseSession /\ requested' = TRUE /\ op' = "request_wait"
  /\ ResetData
  /\ Send("RECOGNIZE", cur + 1) /\ cur' = cur + 1
  /\ overlap' = TRUE /\ refused' = FALSE
  /\ UNCHANGED <<chan, state, ret, cb, stale, expired>>
  /\ UNCHANGED <<appVars, rcb, active, told>>

StartSend ==
  /\ apc = "start" /\ cause # NoData
  /\ RequestSend
  /\ ResetData
  /\ Send("RECOGNIZE", cur + 1) /\ cur' = cur + 1
  /\ overlap' = (requests # <<>> \/ active # <<>> \/ rcb # "none")
  /\ refused' = FALSE
  /\ UNCHANGED <<appVars, rcb, active, told>>

\* A channel without data is given up as it is.
Start ==
  /\ apc = "start"
  /\ \/ Quietly(RequestNotReady) /\ UNCHANGED appVars
     \/ Quietly(NotReady("ready_wait")) /\ Goto("start_failed")
     \/ /\ RequestFails /\ Goto("start_failed")
        /\ IF cause = NoData THEN UNCHANGED <<session, queue, dataVars>> ELSE ResetData
        /\ UNCHANGED <<rcb, serverVars>>
     \/ /\ Quietly(RequestWake)
        /\ Goto(IF ret' = "ok" THEN "first_prompt" ELSE "start_failed")

\* Exit on play error ends the run, and leaves RECOGNIZE in progress.
FirstPrompt ==
  /\ At("first_prompt")
  /\ Goto("listen") \/ (playing /\ ExitWith("ERROR"))
  /\ Aside

-----------------------------------------------------------------------------
(* app_recog_exec: the loop                                                *)

\* Mutant of Listen: only READY ends the loop.
ListenForReady ==
  /\ At("listen")
  /\ Goto(IF state = "READY" THEN "results"
          ELSE IF playing THEN "prompt" ELSE "frame")
  /\ Aside

\* The state is read with the mutex; what follows acts on what was read.
Listen ==
  /\ At("listen")
  /\ Goto(IF state # "PROCESSING" THEN "results"
          ELSE IF playing THEN "prompt" ELSE "frame")
  /\ Aside

\* ast_waitfor fails: the caller is gone, and the status stays OK.
ListenFails ==
  /\ At("listen")
  /\ Goto("results")
  /\ UNCHANGED <<channelVars, dataVars, rcb, serverVars>>

\* recog_channel_start_input_timers: the request is made with the mutex held,
\* and is not waited for; that it cannot be made is not noticed.
AskForTimers ==
  IF state = "PROCESSING" /\ ~timers
  THEN \/ Send("START-INPUT-TIMERS", 0) /\ UNCHANGED refused
       \/ UNCHANGED requests /\ refused' = TRUE
  ELSE UNCHANGED <<requests, refused>>

\* Mutant of PromptGoesOn: the last prompt is not noticed.
PromptRunsOver ==
  /\ At("prompt")
  /\ prompts' = prompts - 1 /\ playing' = ~started
  /\ apc' = "frame"
  /\ UNCHANGED <<plt, grammars, policy, keys, runVars>> /\ Aside

\* The prompt goes on, or the next one begins; input that has started stops it.
PromptGoesOn ==
  /\ At("prompt")
  /\ prompts' \in {prompts, prompts - 1} \ {0}
  /\ playing' = ~started
  /\ apc' = "frame"
  /\ UNCHANGED <<plt, grammars, policy, keys, runVars>> /\ Aside

\* Exit on play error.
PromptFails ==
  /\ At("prompt") /\ prompts > 1
  /\ ExitWith("ERROR") /\ Aside

\* Mutant of PromptsEnd: START-INPUT-TIMERS is sent for the wrong policy.
PromptsEndOff ==
  /\ At("prompt") /\ prompts = 1
  /\ IF policy = "off" THEN AskForTimers ELSE UNCHANGED <<requests, refused>>
  /\ playing' = FALSE /\ prompts' = 0
  /\ apc' = "frame"
  /\ UNCHANGED <<plt, grammars, policy, keys, runVars>>
  /\ UNCHANGED <<channelVars, dataVars, rcb, active, cur, overlap, told>>

\* The last prompt is over.
PromptsEnd ==
  /\ At("prompt") /\ prompts = 1
  /\ IF policy = "auto" THEN AskForTimers ELSE UNCHANGED <<requests, refused>>
  /\ playing' = FALSE /\ prompts' = 0
  /\ apc' = "frame"
  /\ UNCHANGED <<plt, grammars, policy, keys, runVars>>
  /\ UNCHANGED <<channelVars, dataVars, rcb, active, cur, overlap, told>>

\* No frame, or one of no interest; a digit for the recognizer goes its own way.
NoFrame == At("frame") /\ Goto("listen") /\ Aside

VoiceFrame ==
  /\ At("frame")
  /\ Quietly(Write)
  /\ Goto(IF ret' = "ok" THEN "listen" ELSE "results")

\* A null frame: the caller is gone.
NullFrame ==
  /\ At("frame")
  /\ apc' = "results" /\ status' = "INTERRUPTED"
  /\ UNCHANGED <<optionVars, calls, profile, reported, owner, key>>
  /\ UNCHANGED <<channelVars, dataVars, rcb, serverVars>>

\* strchr(i, key) or strcmp(i, "any"): the latter is not 0 for any list of
\* digits, "any" having been replaced by the list of all of them.
Interrupts(k) == keys # "off"

Digit ==
  /\ At("frame") /\ keys # "off"
  /\ \E k \in {"listed"} \cup (IF keys = "some" THEN {"other"} ELSE {}) :
       IF Interrupts(k)
       THEN /\ apc' = "exit" /\ status' = "OK" /\ key' = k
            /\ UNCHANGED <<optionVars, calls, profile, reported, owner>>
       ELSE Goto("listen")
  /\ Aside

\* The results are asked for unless the caller is known to be gone.
Results ==
  /\ At("results")
  /\ playing' = FALSE /\ apc' = "exit"
  /\ \/ /\ status = "OK" /\ GetResults /\ UNCHANGED status
     \/ /\ status = "OK" /\ cause < 0
        /\ status' = "ERROR" /\ UNCHANGED <<reported, owner, cause, by>>
     \/ /\ status # "OK" /\ UNCHANGED <<status, reported, owner, cause, by>>
  /\ UNCHANGED <<channelVars, plt, grammars, prompts, policy, keys, calls,
                 profile, key, started, timers, rcb, serverVars>>

-----------------------------------------------------------------------------
(* mrcprecog_exit, and the end of the caller's channel                     *)

\* Mutant of ExitKeeps: an interrupted run skips the clean-up.
ExitKeepsOnHangup ==
  /\ At("exit") /\ (plt \/ chan = "null" \/ status = "INTERRUPTED")
  /\ Goto("idle") /\ Aside

\* A persistent session keeps its channel, and the RECOGNIZE in progress.
ExitKeeps ==
  /\ At("exit") /\ (plt \/ chan = "null")
  /\ Goto("idle") /\ Aside

ExitDestroy ==
  /\ At("exit") /\ ~plt /\ chan # "null"
  /\ Quietly(DestroyClosed \/ DestroySend)
  /\ Goto("destroy")

Destroying ==
  /\ apc \in {"destroy", "hangup"}
  /\ \/ Quietly(DestroyDone) /\ UNCHANGED appVars
     \/ /\ op = "idle"
        /\ Goto(IF apc = "destroy" THEN "idle" ELSE "end")
        /\ Aside

\* app_datastore_destroy
HangUp ==
  /\ At("idle")
  /\ IF chan = "null" THEN UNCHANGED channelVars ELSE DestroyClosed \/ DestroySend
  /\ UNCHANGED restVars
  /\ Goto("hangup")

-----------------------------------------------------------------------------
(* recog_on_message_receive, and the server behind it.  The client task    *)
(* handles one message after another.                                      *)

Answers(m) ==
  /\ rcb = "none"
  /\ requests # <<>> /\ Head(requests).method = m
  /\ session \in {"up", "terminating"}
  /\ requests' = Tail(requests)

\* The handler ends with speech_channel_set_state(s).
Sets(s) == OnMessage(s) /\ UNCHANGED rcb

\* The handler stores the results first; set_state is FinishMessage.
StoresThenSets(c, id, s) ==
  /\ SetResults(c, id) /\ rcb' = s
  /\ UNCHANGED <<channelVars, started, timers>>

FinishMessage ==
  /\ rcb # "none"
  /\ OnMessage(rcb) /\ rcb' = "none"
  /\ UNCHANGED <<appVars, dataVars, serverVars>>

AnswerRecognize ==
  /\ Answers("RECOGNIZE")
  /\ LET id == Head(requests).id
     IN  \/ /\ active = <<>> /\ active' = <<id>>
            /\ Sets("PROCESSING") /\ UNCHANGED <<dataVars, told>>
         \/ /\ active # <<>> /\ active' = Append(active, id)
            /\ UNCHANGED <<channelVars, rcb, dataVars, told>>
         \/ Sets("ERROR") /\ UNCHANGED <<dataVars, told, active>>
         \/ /\ StoresThenSets(Failure, id, "ERROR")
            /\ told' = Failure /\ UNCHANGED active
  /\ UNCHANGED <<appVars, cur, overlap, refused>>

\* A request state other than COMPLETE changes nothing.
AnswerDefine ==
  /\ Answers("DEFINE-GRAMMAR")
  /\ \/ (Sets("READY") \/ Sets("ERROR")) /\ UNCHANGED <<dataVars, told>>
     \/ StoresThenSets(Failure, 0, "ERROR") /\ told' = Failure
     \/ UNCHANGED <<channelVars, rcb, dataVars, told>>
  /\ UNCHANGED <<appVars, active, cur, overlap, refused>>

AnswerTimers ==
  /\ Answers("START-INPUT-TIMERS")
  /\ \/ timers' = TRUE /\ UNCHANGED refused
     \/ UNCHANGED timers /\ refused' = TRUE
  /\ UNCHANGED <<channelVars, appVars, cause, by, started, rcb, active, cur,
                 overlap, told>>

Live == rcb = "none" /\ active # <<>> /\ session \in {"up", "terminating"}

\* Mutant of RecognitionComplete: a completion without a result is not stored.
RecognitionUnstored ==
  /\ Live
  /\ active' = Tail(active)
  /\ Sets("READY")
  /\ UNCHANGED <<appVars, dataVars, requests, cur, overlap, told, refused>>

RecognitionComplete ==
  /\ Live
  /\ active' = Tail(active)
  /\ \E c \in {Success, Failure} : StoresThenSets(c, Head(active), "READY")
  /\ UNCHANGED <<appVars, requests, cur, overlap, told, refused>>

StartOfInput ==
  /\ Live /\ ~started
  /\ started' = TRUE
  /\ UNCHANGED <<channelVars, appVars, cause, by, timers, rcb, serverVars>>

OtherEvent ==
  /\ Live
  /\ Sets("ERROR")
  /\ UNCHANGED <<appVars, dataVars, serverVars>>

\* speech_on_channel_add, speech_on_session_terminate.
SignallingCallback ==
  /\ rcb = "none"
  /\ Callback
  /\ IF session' = "destroyed" THEN requests' = <<>> /\ active' = <<>>
                               ELSE UNCHANGED <<requests, active>>
  /\ UNCHANGED <<appVars, dataVars, rcb, cur, overlap, told, refused>>

\* recog_stream_read, in the media thread.
StreamRead == Quietly(Read) /\ UNCHANGED appVars

-----------------------------------------------------------------------------
\* What the application does by itself once it runs.
Run ==
  \/ CreateChannel \/ ProfileMissing \/ OpenChannel \/ Opening \/ Opened
  \/ NextGrammar \/ DefineSend \/ Load \/ ReportFailure
  \/ Prompts \/ StartSend \/ Start \/ FirstPrompt
  \/ Listen \/ PromptGoesOn \/ PromptsEnd \/ NoFrame \/ Results
  \/ ExitKeeps \/ ExitDestroy \/ Destroying

\* What the dialplan and the caller do.
Caller ==
  \/ BadCall \/ Exec \/ ListenFails \/ PromptFails
  \/ VoiceFrame \/ NullFrame \/ Digit \/ HangUp

Server ==
  \/ AnswerRecognize \/ AnswerDefine \/ AnswerTimers
  \/ RecognitionComplete \/ StartOfInput \/ OtherEvent

\* The caller is gone, or the process is.
Over == apc \in {"end", "crashed"} /\ UNCHANGED recogVars

RecogNext ==
  \/ Run \/ Caller \/ Server \/ FinishMessage \/ SignallingCallback
  \/ StreamRead \/ Over

RecogSpec == RecogInit /\ [][RecogNext]_recogVars

\* The application's and the client task's threads run, the library answers,
\* and the server completes a recognition it has begun.
RecogFairSpec ==
  /\ RecogSpec
  /\ WF_recogVars(Run)
  /\ WF_recogVars(SignallingCallback) /\ WF_recogVars(FinishMessage)
  /\ WF_recogVars(RecognitionComplete)

-----------------------------------------------------------------------------
(* What the application promises.                                          *)

Listening == apc \in {"first_prompt", "listen", "prompt", "frame"} /\ op = "idle"

\* The loop leaves when it reads READY, and then asks for the results: they are
\* there, although they are stored in a critical section of their own, if the
\* server owed nothing when RECOGNIZE was sent (a late answer to a
\* DEFINE-GRAMMAR of an earlier run sets READY with no results).
ReadyHasResults ==
  Listening /\ state = "READY" /\ ~overlap => cause # Unset

\* A run that reports an outcome with OK reports that of its own RECOGNIZE,
\* although no handler looks at a request-id, if the server owed nothing when
\* that RECOGNIZE was sent.
OutcomeIsOwn ==
  apc = "exit" /\ status = "OK" /\ key = "none" /\ ~overlap => owner = cur

\* With the policy "auto" the recognizer's timers run once the prompts are
\* over, or input has started, or the request for them is on its way; else the
\* server or the library refused them.
TimersRun ==
  /\ Listening /\ state = "PROCESSING" /\ policy = "auto" /\ ~playing
  /\ ~overlap
  => \/ timers \/ started \/ refused
     \/ \E i \in 1..Len(requests) : requests[i].method = "START-INPUT-TIMERS"

\* A dynamic run, and a hangup, leave no channel, no session, no request and
\* no callback behind, however the run ended.
NothingLeft ==
  At("end") \/ (At("idle") /\ ~plt) =>
    chan = "null" /\ session \in Gone /\ cb = "none" /\ rcb = "none"
    /\ requests = <<>>

\* The application uses its channel as SpeechChannel allows.
ChannelUsed == ChannelSpec

\* Every run of the application ends.
CallEnds ==
  (apc \notin {"idle", "end", "crashed"}) ~> (apc \in {"idle", "end", "crashed"})

\* "When recognition fails, set RECOG_COMPLETION_CAUSE variable, if available"
\* (CHANGES:172): a cause the server gave for the failure of a request of this
\* run is the one reported.
CauseIsReported ==
  [][At("load_failed") /\ apc' = "exit" /\ told # Unset /\ rcb = "none"
       => reported' = told]_recogVars

\* The runs, and the hangup, as the datastore relies on them.
OnEntry == apc \notin {"idle", "hangup", "end"}

EntryAt == IF apc \in {"idle", "hangup", "end", "crashed"} THEN apc ELSE "run"

EntryUses == IF OnEntry THEN {"recog"} ELSE {}

EntryLasting == OnEntry /\ plt

EntryHeld == IF chan = "null" THEN {} ELSE {"recog"}

EntryRuns ==
  INSTANCE RunContract WITH
    Uses <- {{"recog"}}, at <- EntryAt, uses <- EntryUses,
    lasting <- EntryLasting, held <- EntryHeld

RunsKept == EntryRuns!Spec

\* The application keeps to both: its channel's and its entry's.
ContractsKept == ChannelUsed /\ RunsKept
=============================================================================
