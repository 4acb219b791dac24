--------------------------- MODULE SynthAndRecog ---------------------------
(***************************************************************************)
(* The application SynthAndRecog() (app-unimrcp/app_synthandrecog.c): it   *)
(* recognizes while it plays a list of prompts, each an audio file or text *)
(* for the synthesizer, and input that starts stops the prompt.  One run   *)
(* has two speech channels at once: the recognizer's, and a synthesizer's  *)
(* that is created when the first text is due and, in a dynamic run,       *)
(* destroyed again when a file follows.                                    *)
(*                                                                         *)
(* Of each channel the model has what ChannelContract says of it, and the  *)
(* requests the server has not answered.  A call that waits (for READY, for*)
(* an answer) may be woken at any time, by a signal, the timeout or        *)
(* spuriously, and then looks at the state; open and destroy are the ones  *)
(* of SpeechChannel with their result only.  One client task handles the   *)
(* messages of both channels, one after another.  The servers (external)   *)
(* answer requests in order, at any time or never.                         *)
(***************************************************************************)
EXTENDS Integers, Sequences

CONSTANTS
  MaxCalls,   \* bound: how often the dialplan runs the application
  MaxPrompts  \* bound: prompts in one call

ASSUME SarAssumption == MaxCalls \in Nat \ {0} /\ MaxPrompts \in Nat \ {0}

Channels == {"synth", "recog"}

VARIABLES
  chan,      \* "null", "new" (without a profile), "failed" to open, "opened"
  state,     \* schannel->state
  requests   \* sent and not answered, for each channel: methods

VARIABLES
  apc,       \* where app_synthandrecog_exec is
  calls,     \* how many times it was run
  plt,       \* app_session->lifetime is PERSISTENT
  grammar,   \* a grammar is still to be loaded
  prompts,   \* prompts still to play, the current one included
  file,      \* prompt_item->is_audio_file
  turn,      \* where synthandrecog_prompt_play returns to
  playing,   \* prompt_processing
  policy,    \* app_session->it_policy
  status     \* the status of the run; when it is over, RECOG_STATUS

VARIABLES
  results,   \* r->completion_cause: "none" (no data), "unset" (-1) or "set"
  started,   \* r->start_of_input
  timers,    \* r->timers_started
  next       \* the state the client task is about to set, else "none"

VARIABLES
  speaking,  \* the synthesizer has a SPEAK in progress
  active     \* the number of RECOGNIZEs in progress and queued

VARIABLES
  noisy,     \* history: the synthesizer owed something when the run began,
             \* reported an error, or was not asked to stop
  overlap,   \* history: RECOGNIZE was sent while the recognizer owed something
  refused,   \* history: START-INPUT-TIMERS failed
  left       \* history: a run of this session ended with a text playing

chanVars == <<chan, state, requests>>
argVars == <<calls, plt, grammar, policy>>
promptVars == <<prompts, file, turn, playing>>
dataVars == <<results, started, timers>>
serverVars == <<speaking, active>>
histVars == <<noisy, overlap, refused, left>>
appVars == <<apc, argVars, promptVars, status>>
sarVars == <<chanVars, appVars, dataVars, next, serverVars, histVars>>

Methods == {"SPEAK", "STOP", "RECOGNIZE", "DEFINE-GRAMMAR", "START-INPUT-TIMERS"}

States == {"CLOSED", "READY", "PROCESSING", "ERROR"}

AppStates ==
  {"idle", "create_recog", "open_recog", "grammar", "define", "defined",
   "prompts", "play", "create_synth", "open_synth", "content", "speak",
   "spoken", "release", "alone", "start", "sent", "listen", "prompt", "barge",
   "frame", "results", "exit", "stop", "close_synth", "close_recog",
   "hang_synth", "hang_recog", "end", "crashed"}

ChansOK ==
  /\ chan \in [Channels -> {"null", "new", "failed", "opened"}]
  /\ state \in [Channels -> States]
  /\ requests \in [Channels -> Seq(Methods)]

RunOK ==
  /\ apc \in AppStates /\ calls \in 0..MaxCalls /\ prompts \in 0..MaxPrompts
  /\ turn \in {"alone", "listen", "barge"}
  /\ policy \in {"auto", "on", "off"}
  /\ status \in {"OK", "ERROR", "INTERRUPTED"}
  /\ results \in {"none", "unset", "set"}
  /\ next \in {"none", "READY", "ERROR"}
  /\ active \in Nat

SarFlagsOK ==
  /\ plt \in BOOLEAN /\ grammar \in BOOLEAN /\ file \in BOOLEAN
  /\ playing \in BOOLEAN /\ started \in BOOLEAN /\ timers \in BOOLEAN
  /\ speaking \in BOOLEAN /\ noisy \in BOOLEAN /\ overlap \in BOOLEAN
  /\ refused \in BOOLEAN /\ left \in BOOLEAN

\* The variables keep their types.
SarTypeOK == ChansOK /\ RunOK /\ SarFlagsOK

SarInit ==
  /\ chan = [c \in Channels |-> "null"] /\ state = [c \in Channels |-> "CLOSED"]
  /\ requests = [c \in Channels |-> <<>>]
  /\ apc = "idle" /\ calls = 0 /\ plt = FALSE /\ grammar = FALSE
  /\ prompts = 0 /\ file = FALSE /\ turn = "alone" /\ playing = FALSE
  /\ policy = "auto" /\ status = "OK"
  /\ results = "none" /\ started = FALSE /\ timers = FALSE /\ next = "none"
  /\ speaking = FALSE /\ active = 0
  /\ noisy = FALSE /\ overlap = FALSE /\ refused = FALSE /\ left = FALSE

-----------------------------------------------------------------------------
(* Helpers.                                                                *)

Goto(a) == apc' = a /\ UNCHANGED <<argVars, promptVars, status>>

\* synthandrecog_exit(chan, app_session, s)
ExitWith(s) == apc' = "exit" /\ status' = s /\ UNCHANGED <<argVars, promptVars>>

\* Nothing but the application's own variables changes.
Aside == UNCHANGED <<chanVars, dataVars, next, serverVars, histVars>>

\* mrcp_application_message_send
Send(c, m) == requests' = [requests EXCEPT ![c] = Append(@, m)]

SetState(c, s) == state' = [state EXCEPT ![c] = s]

\* The synthesizer has not done with what it was asked.
Owing == speaking \/ requests["synth"] # <<>>

\* speech_channel_create
Create(c) ==
  /\ chan[c] = "null"
  /\ chan' = [chan EXCEPT ![c] = "new"] /\ SetState(c, "CLOSED")
  /\ UNCHANGED requests

\* speech_channel_open: a new channel becomes READY; or it fails, and is left
\* CLOSED, or in ERROR if it did not wait for the session's end.
Opened(c) ==
  /\ chan' = [chan EXCEPT ![c] = "opened"] /\ SetState(c, "READY")
  /\ UNCHANGED requests

OpenFailed(c) ==
  /\ chan' = [chan EXCEPT ![c] = "failed"]
  /\ SetState(c, "CLOSED") \/ SetState(c, "ERROR")
  /\ UNCHANGED requests

\* The end of speech_channel_destroy: it waits for CLOSED.
Freed(c) ==
  /\ chan[c] = "null" \/ state[c] = "CLOSED"
  /\ chan' = [chan EXCEPT ![c] = "null"]
  /\ UNCHANGED <<state, requests>>

-----------------------------------------------------------------------------
(* app_synthandrecog_exec: the session and the grammars                    *)

\* No prompt, no grammar, no datastore or no session entry.
BadCall ==
  /\ apc = "idle" /\ calls < MaxCalls
  /\ calls' = calls + 1 /\ status' = "ERROR"
  /\ UNCHANGED <<apc, plt, grammar, policy, promptVars>> /\ Aside

Exec ==
  /\ apc = "idle" /\ calls < MaxCalls
  /\ calls' = calls + 1 /\ plt' \in BOOLEAN
  /\ apc' = IF chan["recog"] = "null" THEN "create_recog" ELSE "grammar"
  /\ grammar' = TRUE /\ prompts' = 0 /\ file' = FALSE /\ turn' = "alone"
  /\ playing' = FALSE /\ policy' = "auto" /\ status' = "OK"
  /\ noisy' = Owing
  /\ UNCHANGED <<chanVars, dataVars, next, serverVars, overlap, refused, left>>

CreateRecog ==
  /\ apc = "create_recog"
  /\ \/ /\ Create("recog") /\ Goto("open_recog")
        /\ results' = "none" /\ started' = FALSE /\ timers' = FALSE
        /\ UNCHANGED <<next, serverVars, histVars>>
     \/ ExitWith("ERROR") /\ Aside

\* The profile may be missing; the end of open's wait allocates and clears the
\* data, and fails without it.
OpenRecog ==
  /\ apc = "open_recog"
  /\ \/ Opened("recog") /\ results' = "set" /\ Goto("grammar")
     \/ Opened("recog") /\ UNCHANGED results /\ ExitWith("ERROR")
     \/ OpenFailed("recog") /\ results' \in {results, "set"} /\ ExitWith("ERROR")
     \/ UNCHANGED <<chanVars, results>> /\ ExitWith("ERROR")
  /\ UNCHANGED <<started, timers, next, serverVars, histVars>>

\* determine_grammar_type, grammar_type_to_mime: an inline grammar takes its
\* type from the profile, which a channel kept from a run that found none does
\* not have.
NextGrammar ==
  /\ apc = "grammar"
  /\ \/ ~grammar /\ Goto("prompts")
     \/ grammar /\ (Goto("define") \/ ExitWith("ERROR"))
     \/ grammar /\ chan["recog"] = "new" /\ Goto("crashed")
  /\ Aside

Loaded ==
  /\ apc' = "grammar" /\ grammar' = FALSE
  /\ UNCHANGED <<calls, plt, policy, promptVars, status>>

\* recog_channel_load_grammar: a URI needs no request; before DEFINE-GRAMMAR
\* is sent the application itself sets PROCESSING.
Define ==
  /\ apc = "define"
  /\ \/ state["recog"] = "READY" /\ Loaded /\ UNCHANGED <<state, requests>>
     \/ /\ state["recog"] = "READY"
        /\ SetState("recog", "PROCESSING") /\ Send("recog", "DEFINE-GRAMMAR")
        /\ Goto("defined")
     \/ /\ state["recog"] = "READY"
        /\ SetState("recog", "PROCESSING") /\ UNCHANGED requests
        /\ ExitWith("ERROR")
     \/ ExitWith("ERROR") /\ UNCHANGED <<state, requests>>
  /\ UNCHANGED <<chan, dataVars, next, serverVars, histVars>>

\* speech_channel_wait_for_ready
Defined ==
  /\ apc = "defined"
  /\ IF state["recog"] = "READY" THEN Loaded ELSE ExitWith("ERROR")
  /\ Aside

-----------------------------------------------------------------------------
(* synthandrecog_prompt_play                                               *)

\* The list of prompts; without barge-in they are played before RECOGNIZE.
Prompts ==
  /\ apc = "prompts"
  /\ \/ /\ prompts' \in 0..MaxPrompts /\ playing' = (prompts' > 0)
        /\ apc' \in IF prompts' > 0 THEN {"play", "start"} ELSE {"start"}
        /\ turn' = "alone" /\ UNCHANGED <<argVars, file, status>>
     \/ ExitWith("ERROR")
  /\ Aside

\* Mutant of PlayFile: a persistent run gives it back too.
PlayFileReleases ==
  /\ apc = "play"
  /\ \/ /\ file' = TRUE
        /\ apc' = IF chan["synth"] # "null" THEN "release" ELSE turn
        /\ UNCHANGED <<argVars, prompts, turn, playing, status>>
     \/ ExitWith("ERROR")
  /\ Aside

\* The stream is started; a dynamic run gives the synthesizer back.
PlayFile ==
  /\ apc = "play"
  /\ \/ /\ file' = TRUE
        /\ apc' = IF chan["synth"] # "null" /\ ~plt THEN "release" ELSE turn
        /\ UNCHANGED <<argVars, prompts, turn, playing, status>>
     \/ ExitWith("ERROR")
  /\ Aside

Release ==
  /\ apc = "release"
  /\ Freed("synth") /\ Goto(turn)
  /\ UNCHANGED <<dataVars, next, serverVars, histVars>>

PlayText ==
  /\ apc = "play"
  /\ file' = FALSE
  /\ apc' = IF chan["synth"] = "null" THEN "create_synth" ELSE "content"
  /\ UNCHANGED <<argVars, prompts, turn, playing, status>>
  /\ Aside

CreateSynth ==
  /\ apc = "create_synth"
  /\ \/ /\ Create("synth") /\ Goto("open_synth")
        /\ noisy' = FALSE
        /\ UNCHANGED <<dataVars, next, serverVars, overlap, refused, left>>
     \/ ExitWith("ERROR") /\ Aside

OpenSynth ==
  /\ apc = "open_synth"
  /\ \/ Opened("synth") /\ Goto("content")
     \/ OpenFailed("synth") /\ ExitWith("ERROR")
     \/ UNCHANGED chanVars /\ ExitWith("ERROR")
  /\ UNCHANGED <<dataVars, next, serverVars, histVars>>

\* determine_synth_content_type: SSML takes its type from the profile.
Content ==
  /\ apc = "content"
  /\ \/ Goto("speak") \/ ExitWith("ERROR")
     \/ chan["synth"] = "new" /\ Goto("crashed")
  /\ Aside

\* synth_channel_speak: not READY in time or no message, or SPEAK is sent.
Speak ==
  /\ apc = "speak"
  /\ \/ /\ state["synth"] = "READY"
        /\ Send("synth", "SPEAK") /\ Goto("spoken")
     \/ ExitWith("ERROR") /\ UNCHANGED requests
  /\ UNCHANGED <<chan, state, dataVars, next, serverVars, histVars>>

\* Mutant of Spoken: any wakeup is taken for IN-PROGRESS.
SpokenUnchecked == apc = "spoken" /\ Goto(turn) /\ Aside

\* A single timedwait for IN-PROGRESS.
Spoken ==
  /\ apc = "spoken"
  /\ IF state["synth"] = "PROCESSING" THEN Goto(turn) ELSE ExitWith("ERROR")
  /\ Aside

\* Mutant of NextPrompt: one more than there are.
NextPromptBeyond(return) ==
  /\ prompts >= 0 /\ prompts' = prompts - 1
  /\ turn' = return /\ apc' = "play"
  /\ UNCHANGED <<argVars, file, playing, status>>

\* The current prompt is over, and there is another one.
NextPrompt(return) ==
  /\ prompts > 1 /\ prompts' = prompts - 1
  /\ turn' = return /\ apc' = "play"
  /\ UNCHANGED <<argVars, file, playing, status>>

\* The last prompt is over.
PromptsOver(a) ==
  /\ prompts <= 1 /\ prompts' = 0
  /\ playing' = FALSE /\ apc' = a
  /\ UNCHANGED <<argVars, file, turn, status>>

TextOver == ~file /\ state["synth"] # "PROCESSING"

\* No barge-in: ast_waitstream, or the loop over ast_waitfor.
PlayedAlone ==
  /\ apc = "alone" /\ (file \/ TextOver)
  /\ NextPrompt("alone") \/ PromptsOver("start")
  /\ Aside

\* The caller is gone, or ast_waitstream fails.
AloneFails ==
  /\ apc = "alone"
  /\ ExitWith("INTERRUPTED") \/ (file /\ ExitWith("ERROR"))
  /\ Aside

-----------------------------------------------------------------------------
(* app_synthandrecog_exec: RECOGNIZE and the loop                          *)

StartInputTimers(p) == IF p = "auto" THEN ~playing ELSE p = "on"

\* recog_channel_start: not READY in time, or no data; or the data is reset,
\* and there are no grammars or no message; or RECOGNIZE is sent.
Start ==
  /\ apc = "start"
  /\ policy' \in {"auto", "on", "off"}
  /\ \/ /\ apc' = "exit" /\ status' = "ERROR"
        /\ UNCHANGED <<requests, dataVars, overlap, refused>>
     \/ /\ state["recog"] = "READY" /\ results # "none"
        /\ results' = "unset" /\ started' = FALSE
        /\ timers' = StartInputTimers(policy')
        /\ \/ /\ Send("recog", "RECOGNIZE")
              /\ overlap' = (requests["recog"] # <<>> \/ active > 0 \/ next # "none")
              /\ refused' = FALSE
              /\ apc' = "sent" /\ UNCHANGED status
           \/ /\ apc' = "exit" /\ status' = "ERROR"
              /\ UNCHANGED <<requests, overlap, refused>>
  /\ UNCHANGED <<calls, plt, grammar, promptVars>>
  /\ UNCHANGED <<chan, state, next, serverVars, noisy, left>>

\* A single timedwait for IN-PROGRESS; then the first prompt is played.
Sent ==
  /\ apc = "sent"
  /\ IF state["recog"] = "PROCESSING"
     THEN /\ apc' = (IF playing THEN "play" ELSE "listen") /\ turn' = "listen"
          /\ UNCHANGED <<argVars, prompts, file, playing, status>>
     ELSE ExitWith("ERROR")
  /\ Aside

\* The recognizer's state is read with the mutex; what follows acts on it.
Listen ==
  /\ apc = "listen"
  /\ Goto(IF state["recog"] # "PROCESSING" THEN "results"
          ELSE IF playing THEN "prompt" ELSE "frame")
  /\ Aside

\* ast_waitfor fails: the caller is gone, and the status stays OK.
ListenFails == apc = "listen" /\ Goto("results") /\ Aside

\* A file may go on, and a text does as long as the state, read without the
\* mutex, is PROCESSING.
PromptGoesOn ==
  /\ apc = "prompt" /\ ~TextOver
  /\ Goto("barge") /\ Aside

PromptAdvances ==
  /\ apc = "prompt" /\ (file \/ TextOver)
  /\ NextPrompt("barge") /\ Aside

\* recog_channel_start_input_timers: not waited for; that the message cannot
\* be made is not noticed.
AskForTimers ==
  IF state["recog"] = "PROCESSING" /\ ~timers
  THEN \/ Send("recog", "START-INPUT-TIMERS") /\ UNCHANGED refused
       \/ UNCHANGED requests /\ refused' = TRUE
  ELSE UNCHANGED <<requests, refused>>

\* Mutant of PromptsEnd: the timers are left to the server.
PromptsEndSilently ==
  /\ apc = "prompt" /\ (file \/ TextOver)
  /\ PromptsOver("frame") /\ Aside

PromptsEnd ==
  /\ apc = "prompt" /\ (file \/ TextOver)
  /\ PromptsOver("frame")
  /\ IF policy = "auto" THEN AskForTimers ELSE UNCHANGED <<requests, refused>>
  /\ UNCHANGED <<chan, state, dataVars, next, serverVars, noisy, overlap, left>>

BargeIn == apc = "barge" /\ started

\* Mutant of BargeInText: the synthesizer is left alone, as at the results.
BargeInTextLeaves ==
  /\ BargeIn /\ ~file
  /\ playing' = FALSE /\ apc' = "frame"
  /\ UNCHANGED <<argVars, prompts, file, turn, status>> /\ Aside

\* synth_channel_bargein_occurred: STOP is sent and not waited for.
BargeInText ==
  /\ BargeIn /\ ~file
  /\ playing' = FALSE /\ apc' = "frame"
  /\ IF state["synth"] = "PROCESSING"
     THEN \/ Send("synth", "STOP") /\ UNCHANGED noisy
          \/ UNCHANGED requests /\ noisy' = TRUE
     ELSE UNCHANGED <<requests, noisy>>
  /\ UNCHANGED <<argVars, prompts, file, turn, status>>
  /\ UNCHANGED <<chan, state, dataVars, next, serverVars, overlap, refused, left>>

\* ast_stopstream
BargeInFile ==
  /\ BargeIn /\ file
  /\ playing' = FALSE /\ apc' = "frame"
  /\ UNCHANGED <<argVars, prompts, file, turn, status>> /\ Aside

NoBargeIn == apc = "barge" /\ ~started /\ Goto("frame") /\ Aside

\* No frame, one of no interest, a digit for the recognizer, or the caller's
\* audio, which speech_channel_write queues.
Frame == apc = "frame" /\ Goto("listen") /\ Aside

\* The audio is refused: the queue is full, or the recognition is over.
FrameRefused == apc = "frame" /\ Goto("results") /\ Aside

\* A null frame: the caller is gone.
NullFrame ==
  /\ apc = "frame"
  /\ apc' = "results" /\ status' = "INTERRUPTED"
  /\ UNCHANGED <<argVars, promptVars>> /\ Aside

\* A file that still plays is stopped, a text is not.  The results are asked
\* for unless the caller is known to be gone.
Results ==
  /\ apc = "results"
  /\ apc' = "exit" /\ playing' = FALSE
  /\ status' = IF status = "OK" /\ results # "set" THEN "ERROR" ELSE status
  /\ left' = (left \/ (playing /\ ~file))
  /\ UNCHANGED <<argVars, prompts, file, turn>>
  /\ UNCHANGED <<chanVars, dataVars, next, serverVars, noisy, overlap, refused>>

-----------------------------------------------------------------------------
(* synthandrecog_exit, and the end of the caller's channel                 *)

\* A persistent session keeps its channels, whatever they are doing.
ExitKeeps == apc = "exit" /\ plt /\ Goto("idle") /\ Aside

\* With the option sbs, speech_channel_stop first.
ExitStop ==
  /\ apc = "exit" /\ ~plt /\ chan["synth"] # "null" /\ state["synth"] = "PROCESSING"
  /\ \/ Send("synth", "STOP") /\ Goto("stop")
     \/ UNCHANGED requests /\ Goto("close_synth")
  /\ UNCHANGED <<chan, state, dataVars, next, serverVars, histVars>>

\* Its wait is over; if that was the timeout it assigns ERROR.
Stopped ==
  /\ apc = "stop"
  /\ IF state["synth"] = "PROCESSING" THEN SetState("synth", "ERROR")
                                      ELSE UNCHANGED state
  /\ Goto("close_synth")
  /\ UNCHANGED <<chan, requests, dataVars, next, serverVars, histVars>>

ExitDestroy == apc = "exit" /\ ~plt /\ Goto("close_synth") /\ Aside

\* app_datastore_destroy: whatever the lifetime, the channels are destroyed.
HangUp == apc = "idle" /\ Goto("hang_synth") /\ Aside

CloseSynth ==
  /\ apc \in {"close_synth", "hang_synth"}
  /\ Freed("synth")
  /\ Goto(IF apc = "close_synth" THEN "close_recog" ELSE "hang_recog")
  /\ UNCHANGED <<dataVars, next, serverVars, histVars>>

\* Mutant of CloseRecog: only the synthesizer's channel is destroyed.
CloseRecogKept ==
  /\ apc \in {"close_recog", "hang_recog"}
  /\ Goto(IF apc = "close_recog" THEN "idle" ELSE "end")
  /\ Aside

CloseRecog ==
  /\ apc \in {"close_recog", "hang_recog"}
  /\ Freed("recog")
  /\ Goto(IF apc = "close_recog" THEN "idle" ELSE "end")
  /\ left' = FALSE
  /\ UNCHANGED <<dataVars, next, serverVars, noisy, overlap, refused>>

-----------------------------------------------------------------------------
(* The client task: callbacks and message handlers, and the servers behind *)
(* them.                                                                   *)

Closing(c) ==
  apc \in IF c = "synth" THEN {"release", "close_synth", "hang_synth"}
                         ELSE {"close_recog", "hang_recog"}

\* speech_on_session_terminate: asked for by destroy, or by an open that gave
\* up waiting for it.
Terminated(c) ==
  /\ next = "none" /\ state[c] # "CLOSED"
  /\ Closing(c) \/ chan[c] = "failed"
  /\ SetState(c, "CLOSED")
  /\ requests' = [requests EXCEPT ![c] = <<>>]
  /\ IF c = "synth" THEN speaking' = FALSE /\ UNCHANGED active
                    ELSE active' = 0 /\ UNCHANGED speaking
  /\ UNCHANGED <<chan, appVars, dataVars, next, histVars>>

Up(c) == next = "none" /\ chan[c] = "opened" /\ state[c] # "CLOSED"

Answers(c, m) ==
  /\ Up(c) /\ requests[c] # <<>> /\ Head(requests[c]) = m
  /\ requests' = [requests EXCEPT ![c] = Tail(@)]

\* A synthesizer's message sets s.
SynthSets(s) ==
  /\ SetState("synth", s) /\ noisy' = (noisy \/ s = "ERROR")
  /\ UNCHANGED <<chan, appVars, dataVars, next, active, overlap, refused, left>>

\* A SPEAK is begun, or answered with anything but IN-PROGRESS.
AnswerSpeak ==
  /\ Answers("synth", "SPEAK")
  /\ \/ ~speaking /\ speaking' = TRUE /\ SynthSets("PROCESSING")
     \/ UNCHANGED speaking /\ SynthSets("ERROR")

AnswerStop ==
  /\ Answers("synth", "STOP")
  /\ \/ speaking' = FALSE /\ SynthSets("READY")
     \/ UNCHANGED speaking /\ SynthSets("ERROR")

\* Mutant of SpeakComplete: it is taken for IN-PROGRESS.
SpeakCompleteGoesOn ==
  /\ Up("synth") /\ speaking
  /\ speaking' = FALSE /\ SynthSets("PROCESSING") /\ UNCHANGED requests

SpeakComplete ==
  /\ Up("synth") /\ speaking
  /\ speaking' = FALSE /\ SynthSets("READY") /\ UNCHANGED requests

\* Any other event of the synthesizer.
OtherSynthEvent ==
  /\ Up("synth") /\ speaking
  /\ SynthSets("ERROR") /\ UNCHANGED <<requests, speaking>>

\* recog_channel_set_results, of which the mutex is released before
\* speech_channel_set_state takes it again.
StoresThenSets(s) ==
  /\ results' = IF results = "unset" THEN "set" ELSE results
  /\ next' = s
  /\ UNCHANGED <<state, started, timers>>

RecogSets(s) == SetState("recog", s) /\ UNCHANGED <<next, dataVars>>

FinishMessage ==
  /\ next # "none"
  /\ SetState("recog", next) /\ next' = "none"
  /\ UNCHANGED <<chan, requests, appVars, dataVars, serverVars, histVars>>

\* RECOGNIZE is in progress, queued, or has failed.
AnswerRecognize ==
  /\ Answers("recog", "RECOGNIZE")
  /\ \/ active = 0 /\ active' = 1 /\ RecogSets("PROCESSING")
     \/ active > 0 /\ active' = active + 1 /\ UNCHANGED <<state, next, dataVars>>
     \/ UNCHANGED active /\ (RecogSets("ERROR") \/ StoresThenSets("ERROR"))
  /\ UNCHANGED <<chan, appVars, speaking, histVars>>

\* A request state other than COMPLETE changes nothing.
AnswerDefine ==
  /\ Answers("recog", "DEFINE-GRAMMAR")
  /\ \/ RecogSets("READY") \/ RecogSets("ERROR") \/ StoresThenSets("ERROR")
     \/ UNCHANGED <<state, next, dataVars>>
  /\ UNCHANGED <<chan, appVars, serverVars, histVars>>

AnswerTimers ==
  /\ Answers("recog", "START-INPUT-TIMERS")
  /\ \/ timers' = TRUE /\ UNCHANGED refused
     \/ UNCHANGED timers /\ refused' = TRUE
  /\ UNCHANGED <<chan, state, appVars, results, started, next, serverVars,
                 noisy, overlap, left>>

RecognitionComplete ==
  /\ Up("recog") /\ active > 0
  /\ active' = active - 1 /\ StoresThenSets("READY")
  /\ UNCHANGED <<chan, requests, appVars, speaking, histVars>>

StartOfInput ==
  /\ Up("recog") /\ active > 0 /\ ~started
  /\ started' = TRUE
  /\ UNCHANGED <<chanVars, appVars, results, timers, next, serverVars, histVars>>

\* Any other event of the recognizer.
OtherRecogEvent ==
  /\ Up("recog") /\ active > 0
  /\ RecogSets("ERROR")
  /\ UNCHANGED <<chan, requests, appVars, serverVars, histVars>>

-----------------------------------------------------------------------------
\* What the application does by itself once it runs.
Run ==
  \/ CreateRecog \/ OpenRecog \/ NextGrammar \/ Define \/ Defined
  \/ Prompts \/ PlayFile \/ Release \/ PlayText \/ CreateSynth \/ OpenSynth
  \/ Content \/ Speak \/ Spoken \/ PlayedAlone
  \/ Start \/ Sent \/ Listen \/ PromptGoesOn \/ PromptAdvances \/ PromptsEnd
  \/ BargeInText \/ BargeInFile \/ NoBargeIn \/ Frame \/ Results
  \/ ExitKeeps \/ ExitStop \/ Stopped \/ ExitDestroy \/ CloseSynth \/ CloseRecog

\* What the dialplan and the caller do.
Caller ==
  BadCall \/ Exec \/ AloneFails \/ ListenFails \/ FrameRefused \/ NullFrame \/ HangUp

ClientTask ==
  \/ \E c \in Channels : Terminated(c)
  \/ AnswerSpeak \/ AnswerStop \/ SpeakComplete \/ OtherSynthEvent
  \/ FinishMessage \/ AnswerRecognize \/ AnswerDefine \/ AnswerTimers
  \/ RecognitionComplete \/ StartOfInput \/ OtherRecogEvent

\* The caller is gone, or the process is.
Over == apc \in {"end", "crashed"} /\ UNCHANGED sarVars

SarNext == Run \/ Caller \/ ClientTask \/ Over

SarSpec == SarInit /\ [][SarNext]_sarVars

\* The application's and the client task's threads run, a session that was
\* asked to ends, and the servers complete what they have in progress; they
\* need not answer any request, and nobody need hang up.
SarFairSpec ==
  /\ SarSpec
  /\ WF_sarVars(Run) /\ WF_sarVars(FinishMessage)
  /\ WF_sarVars(Terminated("synth")) /\ WF_sarVars(Terminated("recog"))
  /\ WF_sarVars(SpeakComplete) /\ WF_sarVars(RecognitionComplete)

-----------------------------------------------------------------------------
(* What the application promises.                                          *)

Listening == apc \in {"listen", "frame"}

\* The caller is not talked over: once the prompts are over, or input that
\* started has stopped the text, the synthesizer is silent or has been told to
\* be; unless it had something left to say from before, reported an error, or
\* the STOP could not be made.
BargeInSilences ==
  Listening /\ ~playing /\ ~noisy =>
    ~speaking \/ \E i \in DOMAIN requests["synth"] : requests["synth"][i] = "STOP"

\* One text at a time: SPEAK is sent only when the synthesizer has answered and
\* finished all it was sent before, although the end of a text is read from
\* the state alone, under the same conditions.
PromptsOneByOne ==
  [][requests'["synth"] = Append(requests["synth"], "SPEAK")
       => ~Owing \/ noisy]_sarVars

\* With the policy "auto" the recognizer's timers run once the prompts are
\* over, or input has started, or the request for them is on its way; else the
\* server or the library refused them.
TimersFollowPrompts ==
  /\ Listening /\ state["recog"] = "PROCESSING" /\ policy = "auto" /\ ~playing
  /\ ~overlap
  => \/ timers \/ started \/ refused
     \/ \E i \in DOMAIN requests["recog"] :
          requests["recog"][i] = "START-INPUT-TIMERS"

\* A dynamic run, and a hangup, leave neither channel, request nor activity of
\* a server behind, however the run ended.
BothReleased ==
  apc = "end" \/ (apc = "idle" /\ ~plt) =>
    /\ \A c \in Channels : chan[c] = "null" /\ requests[c] = <<>>
    /\ next = "none" /\ ~speaking /\ active = 0

\* Each of the two channels, by itself, keeps the contract of a channel.
SynthContract ==
  INSTANCE ChannelContract WITH
    exists <- chan["synth"] # "null", state <- state["synth"]

RecogContract ==
  INSTANCE ChannelContract WITH
    exists <- chan["recog"] # "null", state <- state["recog"]

ChannelsKept == SynthContract!Spec /\ RecogContract!Spec

\* Every run of the application ends.
RunEnds ==
  (apc \notin {"idle", "end", "crashed"}) ~> (apc \in {"idle", "end", "crashed"})

\* "do nothing, synth channel will be destroyed anyway"
\* (app_synthandrecog.c:1845): between runs there is no synthesizer's channel
\* that was left speaking.
LeftIsDestroyed == apc = "idle" /\ left => chan["synth"] = "null"

\* The runs, and the hangup, as the datastore relies on them.
HangingUp == apc \in {"hang_synth", "hang_recog"}

OnEntry == apc \notin {"idle", "end"} /\ ~HangingUp

EntryAt ==
  IF HangingUp THEN "hangup"
  ELSE IF apc \in {"idle", "end", "crashed"} THEN apc ELSE "run"

EntryUses == IF OnEntry THEN Channels ELSE {}

EntryLasting == OnEntry /\ plt

EntryHeld == {c \in Channels : chan[c] # "null"}

EntryRuns ==
  INSTANCE RunContract WITH
    Uses <- {Channels}, at <- EntryAt, uses <- EntryUses,
    lasting <- EntryLasting, held <- EntryHeld

RunsKept == EntryRuns!Spec

\* The application keeps to all three: its channels' and its entry's.
ContractsKept == ChannelsKept /\ RunsKept
=============================================================================
