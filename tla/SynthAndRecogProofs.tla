------------------------ MODULE SynthAndRecogProofs ------------------------
(***************************************************************************)
(* What is proved of SynthAndRecog, for any number of runs and prompts and *)
(* for servers that answer whenever they like, if ever.                    *)
(***************************************************************************)
EXTENDS SynthAndRecog, SequenceTheorems, TLAPS

USE SarAssumption DEF SarAssumption

\* Messages of the client task.
SynthMessage ==
  AnswerSpeak \/ AnswerStop \/ SpeakComplete \/ OtherSynthEvent

RecogMessage ==
  \/ FinishMessage \/ AnswerRecognize \/ AnswerDefine \/ AnswerTimers
  \/ RecognitionComplete \/ StartOfInput \/ OtherRecogEvent

\* The steps that leave the channels, their data and the servers alone.
ChannelsIdle ==
  \/ BadCall \/ NextGrammar \/ Defined \/ Prompts \/ PlayFile \/ PlayText
  \/ Content \/ Spoken \/ PlayedAlone \/ AloneFails \/ Sent \/ Listen
  \/ ListenFails \/ PromptGoesOn \/ PromptAdvances \/ BargeInFile \/ NoBargeIn
  \/ Frame \/ FrameRefused \/ NullFrame \/ ExitKeeps \/ ExitDestroy \/ HangUp

\* The others of the application's.
ChannelsUsed ==
  \/ Exec \/ CreateRecog \/ OpenRecog \/ Define \/ Release \/ CreateSynth
  \/ OpenSynth \/ Speak \/ Start \/ PromptsEnd \/ BargeInText \/ Results
  \/ ExitStop \/ Stopped \/ CloseSynth \/ CloseRecog

LEMMA Steps ==
  SarNext => \/ ChannelsIdle \/ ChannelsUsed \/ SynthMessage \/ RecogMessage
             \/ Terminated("synth") \/ Terminated("recog") \/ UNCHANGED sarVars
  BY DEF SarNext, Run, Caller, ClientTask, Over, ChannelsIdle, ChannelsUsed,
     SynthMessage, RecogMessage, Channels

LEMMA IdleIsAside == ChannelsIdle => Aside
  BY DEF ChannelsIdle, BadCall, NextGrammar, Defined, Prompts, PlayFile, PlayText,
     Content, Spoken, PlayedAlone, AloneFails, Sent, Listen, ListenFails,
     PromptGoesOn, PromptAdvances, BargeInFile, NoBargeIn, Frame, FrameRefused,
     NullFrame, ExitKeeps, ExitDestroy, HangUp

-----------------------------------------------------------------------------
(* Types.                                                                  *)

\* What the helpers make of a channel.
LEMMA ChannelUpdates ==
  ASSUME ChansOK, NEW c \in Channels
  PROVE  /\ Create(c) \/ Opened(c) \/ OpenFailed(c) \/ Freed(c) => ChansOK'
         /\ \A m \in Methods : Send(c, m) => requests' \in [Channels -> Seq(Methods)]
         /\ \A m \in Methods : Answers(c, m) => requests' \in [Channels -> Seq(Methods)]
         /\ \A s \in States : SetState(c, s) => state' \in [Channels -> States]
  <1>1. Create(c) \/ Opened(c) \/ OpenFailed(c) \/ Freed(c) => ChansOK'
    BY DEF ChansOK, Create, Opened, OpenFailed, Freed, SetState, States
  <1>2. ASSUME NEW m \in Methods, Send(c, m)
        PROVE  requests' \in [Channels -> Seq(Methods)]
    <2>1. Append(requests[c], m) \in Seq(Methods)
      BY AppendProperties DEF ChansOK
    <2> QED
      BY <1>2, <2>1 DEF ChansOK, Send
  <1>3. ASSUME NEW m \in Methods, Answers(c, m)
        PROVE  requests' \in [Channels -> Seq(Methods)]
    <2>1. requests[c] \in Seq(Methods) /\ requests[c] # <<>>
      BY <1>3 DEF ChansOK, Answers
    <2>2. Tail(requests[c]) \in Seq(Methods)
      BY <2>1, HeadTailProperties
    <2> QED
      BY <1>3, <2>2 DEF ChansOK, Answers
  <1>4. \A s \in States : SetState(c, s) => state' \in [Channels -> States]
    BY DEF ChansOK, SetState
  <1> QED
    BY <1>1, <1>2, <1>3, <1>4

LEMMA ChansStep == ASSUME SarTypeOK, SarNext PROVE ChansOK'
  <1>0. ChansOK /\ next \in {"none", "READY", "ERROR"}
    BY DEF SarTypeOK, RunOK
  <1>1. /\ "synth" \in Channels /\ "recog" \in Channels
        /\ {"CLOSED", "READY", "PROCESSING", "ERROR"} = States
        /\ {"SPEAK", "STOP", "RECOGNIZE", "DEFINE-GRAMMAR", "START-INPUT-TIMERS"} = Methods
    BY DEF Channels, States, Methods
  <1>2. UNCHANGED chanVars => ChansOK'
    BY <1>0 DEF chanVars, ChansOK
  <1>3. CASE ChannelsIdle
    BY <1>2, <1>3, IdleIsAside DEF Aside
  <1>4. ASSUME NEW c \in Channels, NEW m \in Methods, NEW s \in States,
               Send(c, m) \/ UNCHANGED requests,
               SetState(c, s) \/ UNCHANGED state, UNCHANGED chan
        PROVE  ChansOK'
    BY <1>0, <1>4, ChannelUpdates DEF ChansOK
  <1>5. ASSUME NEW c \in Channels, NEW m \in Methods, NEW s \in States,
               Answers(c, m) \/ UNCHANGED requests,
               SetState(c, s) \/ UNCHANGED state, UNCHANGED chan
        PROVE  ChansOK'
    BY <1>0, <1>5, ChannelUpdates DEF ChansOK
  <1>6. CASE ChannelsUsed
    <2>1. CASE Exec \/ Results
      BY <2>1, <1>2 DEF Exec, Results
    <2>2. CASE CreateRecog \/ OpenRecog \/ CloseRecog
      BY <2>2, <1>0, <1>1, <1>2, ChannelUpdates
         DEF CreateRecog, OpenRecog, CloseRecog, Aside
    <2>3. CASE CreateSynth \/ OpenSynth \/ CloseSynth \/ Release
      BY <2>3, <1>0, <1>1, <1>2, ChannelUpdates
         DEF CreateSynth, OpenSynth, CloseSynth, Release, Aside
    <2>4. CASE Define
      BY <2>4, <1>1, <1>4 DEF Define
    <2>5. CASE Speak \/ Start
      BY <2>5, <1>1, <1>4 DEF Speak, Start
    <2>6. CASE PromptsEnd
      BY <2>6, <1>1, <1>4 DEF PromptsEnd, AskForTimers
    <2>7. CASE BargeInText
      BY <2>7, <1>1, <1>4 DEF BargeInText
    <2>8. CASE ExitStop \/ Stopped
      BY <2>8, <1>1, <1>4 DEF ExitStop, Stopped
    <2> QED
      BY <1>6, <2>1, <2>2, <2>3, <2>4, <2>5, <2>6, <2>7, <2>8 DEF ChannelsUsed
  <1>7. CASE SynthMessage
    BY <1>1, <1>5, <1>7
       DEF SynthMessage, AnswerSpeak, AnswerStop, SpeakComplete, OtherSynthEvent, SynthSets
  <1>8. CASE RecogMessage
    <2>1. CASE FinishMessage
      BY <2>1, <1>0, <1>1, <1>5 DEF FinishMessage
    <2>2. CASE AnswerRecognize
      BY <2>2, <1>1, <1>5 DEF AnswerRecognize, RecogSets, StoresThenSets
    <2>3. CASE AnswerDefine
      BY <2>3, <1>1, <1>5 DEF AnswerDefine, RecogSets, StoresThenSets
    <2>4. CASE AnswerTimers
      BY <2>4, <1>1, <1>5 DEF AnswerTimers
    <2>5. CASE RecognitionComplete
      BY <2>5, <1>1, <1>5 DEF RecognitionComplete, StoresThenSets
    <2>6. CASE StartOfInput
      BY <2>6, <1>2 DEF StartOfInput
    <2>7. CASE OtherRecogEvent
      BY <2>7, <1>1, <1>5 DEF OtherRecogEvent, RecogSets
    <2> QED
      BY <1>8, <2>1, <2>2, <2>3, <2>4, <2>5, <2>6, <2>7 DEF RecogMessage
  <1>9. ASSUME NEW c \in Channels, Terminated(c) PROVE ChansOK'
    <2>1. <<>> \in Seq(Methods)
      BY EmptySeq
    <2> QED
      BY <1>0, <1>9, <2>1 DEF Terminated, SetState, ChansOK, States
  <1> QED
    BY <1>1, <1>2, <1>3, <1>6, <1>7, <1>8, <1>9, Steps DEF sarVars

LEMMA RunStep == ASSUME SarTypeOK, SarNext PROVE RunOK'
  <1>0. RunOK
    BY DEF SarTypeOK
  <1>1. UNCHANGED <<results, next, active>> =>
          results' \in {"none", "unset", "set"} /\ next' \in {"none", "READY", "ERROR"}
          /\ active' \in Nat
    BY <1>0 DEF RunOK
  <1>2. CASE ChannelsIdle
    <2>1. UNCHANGED <<results, next, active>>
      BY <1>2, IdleIsAside DEF Aside, dataVars, serverVars
    <2>2. CASE BadCall
      BY <2>2, <2>1, <1>0 DEF RunOK, BadCall, promptVars
    <2>3. CASE Prompts
      BY <2>3, <2>1, <1>0 DEF RunOK, Prompts, ExitWith, argVars, promptVars, AppStates
    <2>4. CASE PlayFile \/ PlayText
      BY <2>4, <2>1, <1>0
         DEF RunOK, PlayFile, PlayText, ExitWith, argVars, promptVars, AppStates
    <2>5. CASE PlayedAlone \/ PromptAdvances
      BY <2>5, <2>1, <1>0
         DEF RunOK, PlayedAlone, PromptAdvances, NextPrompt, PromptsOver, argVars, AppStates
    <2>6. CASE Sent
      BY <2>6, <2>1, <1>0 DEF RunOK, Sent, ExitWith, argVars, promptVars, AppStates
    <2>7. CASE BargeInFile \/ NullFrame
      BY <2>7, <2>1, <1>0
         DEF RunOK, BargeInFile, NullFrame, argVars, promptVars, AppStates
    <2>8. CASE Defined
      BY <2>8, <2>1, <1>0
         DEF RunOK, Defined, Loaded, ExitWith, argVars, promptVars, AppStates
    <2>9. CASE NextGrammar \/ Content \/ Spoken \/ AloneFails \/ Listen
               \/ ListenFails \/ PromptGoesOn \/ NoBargeIn \/ Frame \/ FrameRefused
               \/ ExitKeeps \/ ExitDestroy \/ HangUp
      BY <2>9, <2>1, <1>0
         DEF RunOK, NextGrammar, Content, Spoken, AloneFails, Listen, ListenFails,
             PromptGoesOn, NoBargeIn, Frame, FrameRefused, ExitKeeps, ExitDestroy,
             HangUp, Goto, ExitWith, argVars, promptVars, AppStates
    <2> QED
      BY <1>2, <2>2, <2>3, <2>4, <2>5, <2>6, <2>7, <2>8, <2>9 DEF ChannelsIdle
  <1>3. CASE ChannelsUsed
    <2>1. CASE Exec
      BY <2>1, <1>0, <1>1 DEF RunOK, Exec, AppStates, dataVars, serverVars
    <2>2. CASE CreateRecog \/ OpenRecog \/ CloseRecog
      BY <2>2, <1>0
         DEF RunOK, CreateRecog, OpenRecog, CloseRecog, Goto, ExitWith, Aside, AppStates,
             argVars, promptVars, dataVars, serverVars
    <2>3. CASE CreateSynth \/ OpenSynth \/ CloseSynth \/ Release
      BY <2>3, <1>0
         DEF RunOK, CreateSynth, OpenSynth, CloseSynth, Release, Goto, ExitWith, Aside,
             AppStates, argVars, promptVars, dataVars, serverVars
    <2>4. CASE Define \/ Speak
      BY <2>4, <1>0
         DEF RunOK, Define, Speak, Goto, Loaded, ExitWith, AppStates, argVars, promptVars,
             dataVars, serverVars
    <2>5. CASE Start
      BY <2>5, <1>0 DEF RunOK, Start, AppStates, promptVars, dataVars, serverVars
    <2>6. CASE PromptsEnd \/ BargeInText
      BY <2>6, <1>0
         DEF RunOK, PromptsEnd, BargeInText, PromptsOver, AppStates, argVars,
             dataVars, serverVars
    <2>7. CASE Results
      BY <2>7, <1>0 DEF RunOK, Results, AppStates, argVars, dataVars, serverVars
    <2>8. CASE ExitStop \/ Stopped
      BY <2>8, <1>0
         DEF RunOK, ExitStop, Stopped, Goto, AppStates, argVars, promptVars, dataVars,
             serverVars
    <2> QED
      BY <1>3, <2>1, <2>2, <2>3, <2>4, <2>5, <2>6, <2>7, <2>8 DEF ChannelsUsed
  <1>4. CASE SynthMessage
    BY <1>4, <1>0
       DEF RunOK, SynthMessage, AnswerSpeak, AnswerStop, SpeakComplete, OtherSynthEvent,
           SynthSets, appVars, argVars, promptVars, dataVars
  <1>5. CASE RecogMessage
    <2>1. appVars' = appVars
      BY <1>5
         DEF RecogMessage, FinishMessage, AnswerRecognize, AnswerDefine, AnswerTimers,
             RecognitionComplete, StartOfInput, OtherRecogEvent
    <2>2. /\ results' \in {"none", "unset", "set"} /\ next' \in {"none", "READY", "ERROR"}
          /\ active' \in Nat
      BY <1>5, <1>0
         DEF RunOK, RecogMessage, FinishMessage, AnswerRecognize, AnswerDefine,
             AnswerTimers, RecognitionComplete, StartOfInput, OtherRecogEvent,
             RecogSets, StoresThenSets, dataVars, serverVars
    <2> QED
      BY <1>0, <2>1, <2>2 DEF RunOK, appVars, argVars, promptVars
  <1>6. CASE Terminated("synth") \/ Terminated("recog")
    BY <1>6, <1>0 DEF RunOK, Terminated, appVars, argVars, promptVars, dataVars
  <1>7. CASE UNCHANGED sarVars
    BY <1>7, <1>0 DEF RunOK, sarVars, appVars, argVars, promptVars, dataVars, serverVars
  <1> QED
    BY <1>2, <1>3, <1>4, <1>5, <1>6, <1>7, Steps

LEMMA FlagsStep == ASSUME SarTypeOK, SarNext PROVE SarFlagsOK'
  <1>0. SarFlagsOK
    BY DEF SarTypeOK
  <1>1. ASSUME UNCHANGED <<plt, grammar, file, playing>>
        PROVE  plt' \in BOOLEAN /\ grammar' \in BOOLEAN /\ file' \in BOOLEAN
               /\ playing' \in BOOLEAN
    BY <1>0, <1>1 DEF SarFlagsOK
  <1>2. ASSUME UNCHANGED <<started, timers, speaking>>
        PROVE  started' \in BOOLEAN /\ timers' \in BOOLEAN /\ speaking' \in BOOLEAN
    BY <1>0, <1>2 DEF SarFlagsOK
  <1>3. ASSUME UNCHANGED <<noisy, overlap, refused, left>>
        PROVE  noisy' \in BOOLEAN /\ overlap' \in BOOLEAN /\ refused' \in BOOLEAN
               /\ left' \in BOOLEAN
    BY <1>0, <1>3 DEF SarFlagsOK
  <1>4. CASE ChannelsIdle
    <2>1. UNCHANGED <<started, timers, speaking, noisy, overlap, refused, left>>
      BY <1>4, IdleIsAside DEF Aside, dataVars, serverVars, histVars
    <2>2. plt' \in BOOLEAN /\ grammar' \in BOOLEAN /\ file' \in BOOLEAN
          /\ playing' \in BOOLEAN
      <3>1. CASE Prompts
        <4>1. (prompts' > 0) \in BOOLEAN
          OBVIOUS
        <4> QED
          BY <3>1, <4>1, <1>0, Zenon DEF SarFlagsOK, Prompts, ExitWith, argVars, promptVars
      <3>2. CASE BadCall
        BY <3>2, <1>0, Zenon DEF SarFlagsOK, BadCall, promptVars
      <3>3. CASE Defined
        BY <3>3, <1>0, Zenon DEF SarFlagsOK, Defined, Loaded, ExitWith, argVars, promptVars
      <3>4. CASE PlayFile \/ PlayText
        BY <3>4, <1>0, Zenon
           DEF SarFlagsOK, PlayFile, PlayText, ExitWith, argVars, promptVars
      <3>5. CASE PlayedAlone \/ PromptAdvances
        BY <3>5, <1>0, Zenon
           DEF SarFlagsOK, PlayedAlone, PromptAdvances, NextPrompt, PromptsOver, argVars
      <3>6. CASE Sent
        BY <3>6, <1>0, Zenon DEF SarFlagsOK, Sent, ExitWith, argVars, promptVars
      <3>7. CASE BargeInFile \/ NullFrame
        BY <3>7, <1>0, Zenon DEF SarFlagsOK, BargeInFile, NullFrame, argVars, promptVars
      <3>8. CASE NextGrammar \/ Content \/ Spoken \/ AloneFails \/ Listen
                 \/ ListenFails \/ PromptGoesOn \/ NoBargeIn \/ Frame \/ FrameRefused
                 \/ ExitKeeps \/ ExitDestroy \/ HangUp
        <4>1. UNCHANGED <<plt, grammar, file, playing>>
          BY <3>8
             DEF NextGrammar, Content, Spoken, AloneFails, Listen, ListenFails,
                 PromptGoesOn, NoBargeIn, Frame, FrameRefused, ExitKeeps, ExitDestroy,
                 HangUp, Goto, ExitWith, argVars, promptVars
        <4> QED
          BY <4>1, <1>1
      <3> QED
        BY <1>4, <3>1, <3>2, <3>3, <3>4, <3>5, <3>6, <3>7, <3>8 DEF ChannelsIdle
    <2> QED
      BY <2>1, <2>2, <1>2, <1>3 DEF SarFlagsOK
  <1>5. CASE Exec
    <2>1. noisy' = Owing /\ Owing \in BOOLEAN
      BY <1>5 DEF Exec, Owing
    <2>2. noisy' \in BOOLEAN
      BY <2>1, Zenon
    <2>3. UNCHANGED <<started, timers, speaking, overlap, refused, left>>
      BY <1>5 DEF Exec, dataVars, serverVars
    <2>4. plt' \in BOOLEAN /\ grammar' = TRUE /\ file' = FALSE /\ playing' = FALSE
      BY <1>5 DEF Exec
    <2> QED
      BY <2>2, <2>3, <2>4, <1>0, <1>2, Zenon DEF SarFlagsOK
  <1>6. CASE CreateRecog \/ OpenRecog \/ CloseRecog
    <2>1. /\ UNCHANGED <<plt, grammar, file, playing, speaking, noisy, overlap, refused>>
          /\ started' \in {started, FALSE} /\ timers' \in {timers, FALSE}
          /\ left' \in {left, FALSE}
      BY <1>6
         DEF CreateRecog, OpenRecog, CloseRecog, Goto, ExitWith, Aside, argVars,
             promptVars, dataVars, serverVars, histVars
    <2> QED
      BY <2>1, <1>0, <1>1, Zenon DEF SarFlagsOK
  <1>7. CASE CreateSynth \/ OpenSynth \/ CloseSynth \/ Release
    <2>1. /\ UNCHANGED <<plt, grammar, file, playing, started, timers, speaking,
                         overlap, refused, left>>
          /\ noisy' \in {noisy, FALSE}
      BY <1>7
         DEF CreateSynth, OpenSynth, CloseSynth, Release, Goto, ExitWith, Aside, argVars,
             promptVars, dataVars, serverVars, histVars
    <2> QED
      BY <2>1, <1>0, <1>1, <1>2, Zenon DEF SarFlagsOK
  <1>8. CASE Define \/ Speak \/ ExitStop \/ Stopped
    <2>1. /\ UNCHANGED <<plt, file, playing, started, timers, speaking>>
          /\ UNCHANGED <<noisy, overlap, refused, left>>
          /\ grammar' \in {grammar, FALSE}
      BY <1>8
         DEF Define, Speak, ExitStop, Stopped, Goto, Loaded, ExitWith, argVars,
             promptVars, dataVars, serverVars, histVars
    <2> QED
      BY <2>1, <1>0, <1>2, <1>3, Zenon DEF SarFlagsOK
  <1>9. CASE Start
    <2>1. /\ (requests["recog"] # <<>> \/ active > 0 \/ next # "none") \in BOOLEAN
          /\ StartInputTimers(policy') \in BOOLEAN
      <3>1. (~playing) \in BOOLEAN /\ (policy' = "on") \in BOOLEAN
        BY <1>0, Zenon DEF SarFlagsOK
      <3>2. StartInputTimers(policy') \in BOOLEAN
        BY <3>1, Zenon DEF StartInputTimers
      <3>3. (requests["recog"] # <<>> \/ active > 0 \/ next # "none") \in BOOLEAN
        OBVIOUS
      <3> QED
        BY <3>2, <3>3
    <2>2. /\ UNCHANGED <<plt, grammar, file, playing, speaking, noisy, left>>
          /\ started' \in {started, FALSE} /\ refused' \in {refused, FALSE}
      BY <1>9 DEF Start, promptVars, dataVars, serverVars
    <2>3. timers' = timers \/ timers' = StartInputTimers(policy')
      BY <1>9 DEF Start, dataVars
    <2>4. \/ overlap' = overlap
          \/ overlap' = (requests["recog"] # <<>> \/ active > 0 \/ next # "none")
      BY <1>9 DEF Start
    <2>5. timers' \in BOOLEAN /\ overlap' \in BOOLEAN
      BY <2>1, <2>3, <2>4, <1>0, Zenon DEF SarFlagsOK
    <2> QED
      BY <2>2, <2>5, <1>0, <1>1, Zenon DEF SarFlagsOK
  <1>10. CASE PromptsEnd
    BY <1>10, <1>0, Zenon
       DEF PromptsEnd, PromptsOver, AskForTimers, SarFlagsOK, argVars, dataVars, serverVars
  <1>11. CASE BargeInText
    BY <1>11, <1>0, Zenon DEF BargeInText, SarFlagsOK, argVars, dataVars, serverVars
  <1>12. CASE Results
    <2>1. (left \/ (playing /\ ~file)) \in BOOLEAN
      BY Zenon
    <2> QED
      BY <1>12, <2>1, <1>0, Zenon DEF Results, SarFlagsOK, argVars, dataVars, serverVars
  <1>13. CASE SynthMessage
    <2>1. /\ UNCHANGED <<plt, grammar, file, playing, started, timers, overlap, refused, left>>
          /\ speaking' \in {speaking, TRUE, FALSE}
      BY <1>13
         DEF SynthMessage, AnswerSpeak, AnswerStop, SpeakComplete, OtherSynthEvent,
             SynthSets, appVars, argVars, promptVars, dataVars
    <2>2. \E s \in States : SynthSets(s)
      BY <1>13
         DEF SynthMessage, AnswerSpeak, AnswerStop, SpeakComplete, OtherSynthEvent, States
    <2>3. \A s : (noisy \/ s = "ERROR") \in BOOLEAN
      BY Zenon
    <2>4. noisy' \in BOOLEAN
      BY <2>2, <2>3, Zenon DEF SynthSets
    <2> QED
      BY <2>1, <2>4, <1>0, <1>1, Zenon DEF SarFlagsOK
  <1>14. CASE RecogMessage
    <2>1. /\ UNCHANGED <<plt, grammar, file, playing, speaking, noisy, overlap, left>>
          /\ started' \in {started, TRUE} /\ timers' \in {timers, TRUE}
          /\ refused' \in {refused, TRUE}
      BY <1>14
         DEF RecogMessage, FinishMessage, AnswerRecognize, AnswerDefine, AnswerTimers,
             RecognitionComplete, StartOfInput, OtherRecogEvent, RecogSets,
             StoresThenSets, appVars, argVars, promptVars, dataVars, serverVars, histVars
    <2> QED
      BY <2>1, <1>0, <1>1, Zenon DEF SarFlagsOK
  <1>15. CASE Terminated("synth") \/ Terminated("recog")
    <2>1. /\ UNCHANGED <<plt, grammar, file, playing, started, timers>>
          /\ UNCHANGED <<noisy, overlap, refused, left>>
          /\ speaking' \in {speaking, FALSE}
      BY <1>15 DEF Terminated, appVars, argVars, promptVars, dataVars, histVars
    <2> QED
      BY <2>1, <1>0, <1>1, <1>3, Zenon DEF SarFlagsOK
  <1>16. CASE UNCHANGED sarVars
    BY <1>16, <1>1, <1>2, <1>3
       DEF SarFlagsOK, sarVars, appVars, argVars, promptVars, dataVars, serverVars, histVars
  <1> QED
    BY <1>4, <1>5, <1>6, <1>7, <1>8, <1>9, <1>10, <1>11, <1>12, <1>13, <1>14, <1>15,
       <1>16, Steps DEF ChannelsUsed

LEMMA TypeStep == ASSUME SarTypeOK, SarNext PROVE SarTypeOK'
  BY ChansStep, RunStep, FlagsStep DEF SarTypeOK

-----------------------------------------------------------------------------
(* The two channels.                                                       *)

\* A channel that is not there is CLOSED, and a session that is closed has
\* nothing to answer and nothing in progress.
Quiet ==
  /\ \A c \in Channels : chan[c] = "null" => state[c] = "CLOSED"
  /\ state["synth"] = "CLOSED" => requests["synth"] = <<>> /\ ~speaking
  /\ state["recog"] = "CLOSED" =>
       requests["recog"] = <<>> /\ active = 0 /\ next = "none"

\* A channel to be opened is there, and CLOSED.
Opening ==
  /\ apc = "open_recog" => chan["recog"] # "null" /\ state["recog"] = "CLOSED"
  /\ apc = "open_synth" => chan["synth"] # "null" /\ state["synth"] = "CLOSED"

\* The channels are destroyed one after the other.
Emptied ==
  /\ apc \in {"close_recog", "hang_recog"} => chan["synth"] = "null"
  /\ apc = "end" \/ (apc = "idle" /\ ~plt) => \A c \in Channels : chan[c] = "null"

ChanInv == Quiet /\ Opening /\ Emptied

\* The contract's step, of one channel.
Kept(c) ==
  IF c = "synth" THEN [SynthContract!Next]_<<chan["synth"] # "null", state["synth"]>>
                 ELSE [RecogContract!Next]_<<chan["recog"] # "null", state["recog"]>>

LEMMA IdleKeeps ==
  ASSUME SarTypeOK, ChanInv, ChannelsIdle
  PROVE  ChanInv' /\ \A c \in Channels : Kept(c)
  <1>1. UNCHANGED <<chan, state, requests, next, speaking, active>>
    BY IdleIsAside DEF Aside, chanVars, serverVars
  <1>2. Quiet' /\ \A c \in Channels : Kept(c)
    BY <1>1 DEF ChanInv, Quiet, Kept
  <1>3. /\ apc' \notin {"open_recog", "open_synth", "close_recog", "hang_recog", "end"}
        /\ apc' = "idle" => plt' \/ (apc = "idle" /\ ~plt)
    BY DEF SarTypeOK, RunOK, ChannelsIdle, BadCall, NextGrammar, Defined, Prompts,
           PlayFile, PlayText, Content, Spoken, PlayedAlone, AloneFails, Sent, Listen,
           ListenFails, PromptGoesOn, PromptAdvances, BargeInFile, NoBargeIn, Frame,
           FrameRefused, NullFrame, ExitKeeps, ExitDestroy, HangUp, Goto, Loaded,
           ExitWith, NextPrompt, PromptsOver, argVars
  <1> QED
    BY <1>1, <1>2, <1>3 DEF ChanInv, Opening, Emptied

LEMMA UsedKeeps ==
  ASSUME SarTypeOK, ChanInv, ChannelsUsed
  PROVE  ChanInv' /\ \A c \in Channels : Kept(c)
  <1>0. /\ Quiet /\ Opening /\ Emptied /\ ChansOK
        /\ \A c \in Channels : c = "synth" \/ c = "recog"
        /\ "synth" \in Channels /\ "recog" \in Channels
    BY DEF ChanInv, SarTypeOK, Channels
  <1>1. UNCHANGED <<chan, state, requests, next, speaking, active>> =>
          Quiet' /\ \A c \in Channels : Kept(c)
    BY <1>0 DEF Quiet, Kept
  <1>2. CASE Exec
    BY <1>0, <1>1, <1>2 DEF ChanInv, Exec, chanVars, serverVars, Opening, Emptied
  <1>3. CASE Results
    BY <1>0, <1>1, <1>3 DEF ChanInv, Results, chanVars, serverVars, Opening, Emptied
  <1>4. CASE CreateRecog
    BY <1>0, <1>1, <1>4
       DEF ChanInv, CreateRecog, Create, SetState, Goto, ExitWith, Aside, chanVars,
           serverVars, ChansOK, Quiet, Opening, Emptied, Kept, SynthContract!Next,
           RecogContract!Next, RecogContract!Create
  <1>5. CASE CreateSynth
    BY <1>0, <1>1, <1>5
       DEF ChanInv, CreateSynth, Create, SetState, Goto, ExitWith, Aside, chanVars,
           serverVars, dataVars, ChansOK, Quiet, Opening, Emptied, Kept, SynthContract!Next,
           RecogContract!Next, SynthContract!Create
  <1>6. CASE OpenRecog
    <2>1. /\ apc = "open_recog" /\ UNCHANGED <<plt, next, speaking, active, requests>>
          /\ apc' \in {"grammar", "exit"}
      BY <1>6
         DEF OpenRecog, Opened, OpenFailed, Goto, ExitWith, serverVars, argVars, chanVars
    <2>2. CASE UNCHANGED chanVars
      BY <2>1, <2>2, <1>0, <1>1 DEF ChanInv, chanVars, Opening, Emptied
    <2>3. ASSUME Opened("recog") \/ OpenFailed("recog")
          PROVE  ChanInv' /\ \A c \in Channels : Kept(c)
      <3>1. /\ state["recog"] = "CLOSED" /\ state'["synth"] = state["synth"]
            /\ state'["recog"] \in {"CLOSED", "READY", "ERROR"}
            /\ chan["recog"] # "null" /\ chan'["synth"] = chan["synth"]
            /\ chan'["recog"] # "null" /\ UNCHANGED requests
        BY <2>1, <2>3, <1>0 DEF Opened, OpenFailed, SetState, ChansOK, Opening
      <3>2. \A c \in Channels : Kept(c)
        BY <3>1, <1>0 DEF Kept, RecogContract!Next, RecogContract!Open, RecogContract!Release
      <3> QED
        BY <3>1, <3>2, <2>1, <1>0 DEF ChanInv, Quiet, Opening, Emptied
    <2>4. Opened("recog") \/ OpenFailed("recog") \/ UNCHANGED chanVars
      BY <1>6 DEF OpenRecog
    <2> QED
      BY <2>2, <2>3, <2>4
  <1>7. CASE OpenSynth
    <2>1. /\ apc = "open_synth" /\ UNCHANGED <<plt, next, speaking, active, requests>>
          /\ apc' \in {"content", "exit"}
      BY <1>7
         DEF OpenSynth, Opened, OpenFailed, Goto, ExitWith, serverVars, argVars, chanVars
    <2>2. CASE UNCHANGED chanVars
      BY <2>1, <2>2, <1>0, <1>1 DEF ChanInv, chanVars, Opening, Emptied
    <2>3. ASSUME Opened("synth") \/ OpenFailed("synth")
          PROVE  ChanInv' /\ \A c \in Channels : Kept(c)
      <3>1. /\ state["synth"] = "CLOSED" /\ state'["recog"] = state["recog"]
            /\ state'["synth"] \in {"CLOSED", "READY", "ERROR"}
            /\ chan["synth"] # "null" /\ chan'["recog"] = chan["recog"]
            /\ chan'["synth"] # "null" /\ UNCHANGED requests
        BY <2>1, <2>3, <1>0 DEF Opened, OpenFailed, SetState, ChansOK, Opening
      <3>2. \A c \in Channels : Kept(c)
        BY <3>1, <1>0 DEF Kept, SynthContract!Next, SynthContract!Open, SynthContract!Release
      <3> QED
        BY <3>1, <3>2, <2>1, <1>0 DEF ChanInv, Quiet, Opening, Emptied
    <2>4. Opened("synth") \/ OpenFailed("synth") \/ UNCHANGED chanVars
      BY <1>7 DEF OpenSynth
    <2> QED
      BY <2>2, <2>3, <2>4
  <1>8. CASE CloseRecog
    BY <1>0, <1>1, <1>8
       DEF ChanInv, CloseRecog, Freed, Goto, chanVars, argVars, dataVars,
           serverVars, ChansOK, Quiet, Opening, Emptied, Kept, SynthContract!Next,
           RecogContract!Next, RecogContract!Release
  <1>9. CASE CloseSynth \/ Release
    BY <1>0, <1>1, <1>9
       DEF ChanInv, CloseSynth, Release, Freed, Goto, chanVars, argVars, dataVars,
           serverVars, ChansOK, Quiet, Opening, Emptied, Kept, SynthContract!Next,
           RecogContract!Next, SynthContract!Release, SarTypeOK, RunOK
  <1>10. CASE Define
    BY <1>0, <1>1, <1>10
       DEF ChanInv, Define, Send, SetState, Goto, Loaded, ExitWith, chanVars, dataVars,
           serverVars, ChansOK, Quiet, Opening, Emptied, Kept, SynthContract!Next,
           RecogContract!Next, RecogContract!Change, RecogContract!States
  <1>11. CASE Speak \/ BargeInText
    BY <1>0, <1>1, <1>11
       DEF ChanInv, Speak, BargeInText, Send, Goto, ExitWith, dataVars, serverVars,
           ChansOK, Quiet, Opening, Emptied, Kept
  <1>12. CASE Start \/ PromptsEnd
    BY <1>0, <1>1, <1>12
       DEF ChanInv, Start, PromptsEnd, PromptsOver, AskForTimers, Send, dataVars,
           serverVars, ChansOK, Quiet, Opening, Emptied, Kept
  <1>13. CASE ExitStop
    BY <1>0, <1>1, <1>13
       DEF ChanInv, ExitStop, Send, Goto, dataVars,
           serverVars, ChansOK, Quiet, Opening, Emptied, Kept
  <1>14. CASE Stopped
    BY <1>0, <1>1, <1>14
       DEF ChanInv, Stopped, SetState, Goto, dataVars, serverVars, ChansOK, Quiet,
           Opening, Emptied, Kept, SynthContract!Next, SynthContract!Change,
           SynthContract!States
  <1> QED
    BY <1>2, <1>3, <1>4, <1>5, <1>6, <1>7, <1>8, <1>9, <1>10, <1>11, <1>12, <1>13,
       <1>14 DEF ChannelsUsed

LEMMA ClientKeeps ==
  ASSUME SarTypeOK, ChanInv,
         SynthMessage \/ RecogMessage \/ Terminated("synth") \/ Terminated("recog")
  PROVE  ChanInv' /\ \A c \in Channels : Kept(c)
  <1>0. /\ Quiet /\ Opening /\ Emptied /\ ChansOK
        /\ next \in {"none", "READY", "ERROR"} /\ active \in Nat
        /\ \A c \in Channels : c = "synth" \/ c = "recog"
        /\ "synth" \in Channels /\ "recog" \in Channels
    BY DEF ChanInv, SarTypeOK, RunOK, Channels
  <1>1. UNCHANGED <<chan, apc, plt>>
    BY DEF SynthMessage, AnswerSpeak, AnswerStop, SpeakComplete, OtherSynthEvent,
       SynthSets, RecogMessage, FinishMessage, AnswerRecognize, AnswerDefine,
       AnswerTimers, RecognitionComplete, StartOfInput, OtherRecogEvent, Terminated,
       appVars, argVars, chanVars
  <1>2. UNCHANGED <<chan, state, requests, next, speaking, active>> =>
          Quiet' /\ \A c \in Channels : Kept(c)
    BY <1>0 DEF Quiet, Kept
  <1>3. ASSUME SynthMessage
        PROVE  /\ UNCHANGED <<next, active>> /\ state["synth"] # "CLOSED"
               /\ state' \in [Channels -> States] /\ state'["recog"] = state["recog"]
               /\ state'["synth"] \in States \ {"CLOSED"}
               /\ requests'["recog"] = requests["recog"]
    BY <1>0, <1>3
       DEF SynthMessage, AnswerSpeak, AnswerStop, SpeakComplete, OtherSynthEvent,
           SynthSets, SetState, Answers, Up, ChansOK, States
  <1>4. ASSUME RecogMessage
        PROVE  /\ UNCHANGED speaking /\ state["recog"] # "CLOSED"
               /\ state' \in [Channels -> States] /\ state'["synth"] = state["synth"]
               /\ state'["recog"] \in States \ {"CLOSED"}
               /\ requests'["synth"] = requests["synth"]
    <2>1. state["recog"] # "CLOSED"
      BY <1>0, <1>4
         DEF RecogMessage, FinishMessage, AnswerRecognize, AnswerDefine, AnswerTimers,
             RecognitionComplete, StartOfInput, OtherRecogEvent, Answers, Up, Quiet
    <2> QED
      BY <2>1, <1>0, <1>4
         DEF RecogMessage, FinishMessage, AnswerRecognize, AnswerDefine, AnswerTimers,
             RecognitionComplete, StartOfInput, OtherRecogEvent, RecogSets,
             StoresThenSets, SetState, Answers, Up, ChansOK, States, serverVars, chanVars
  <1>5. CASE SynthMessage
    BY <1>0, <1>1, <1>3, <1>5
       DEF ChanInv, Quiet, Opening, Emptied, Kept, ChansOK, States, SynthContract!Next,
           SynthContract!Change, SynthContract!States
  <1>6. CASE RecogMessage
    <2>1. \A c \in Channels : Kept(c)
      BY <1>0, <1>1, <1>4, <1>6
         DEF Quiet, Kept, States, RecogContract!Next, RecogContract!Change,
             RecogContract!States
    <2>2. Quiet'
      BY <1>0, <1>1, <1>4, <1>6 DEF Quiet
    <2>3. Opening' /\ Emptied'
      BY <1>0, <1>1, <1>4, <1>6 DEF Opening, Emptied
    <2> QED
      BY <2>1, <2>2, <2>3 DEF ChanInv
  <1>7. CASE Terminated("synth")
    BY <1>0, <1>1, <1>7
       DEF Terminated, SetState, ChanInv, Quiet, Opening, Emptied, Kept, ChansOK,
           SynthContract!Next, SynthContract!Change, SynthContract!States
  <1>8. CASE Terminated("recog")
    BY <1>0, <1>1, <1>8
       DEF Terminated, SetState, ChanInv, Quiet, Opening, Emptied, Kept, ChansOK,
           RecogContract!Next, RecogContract!Change, RecogContract!States
  <1> QED
    BY <1>5, <1>6, <1>7, <1>8

LEMMA ChanStep ==
  ASSUME SarTypeOK, ChanInv, [SarNext]_sarVars
  PROVE  ChanInv' /\ \A c \in Channels : Kept(c)
  <1>1. CASE UNCHANGED sarVars
    BY <1>1
       DEF sarVars, chanVars, appVars, argVars, serverVars, ChanInv, Quiet, Opening,
           Emptied, Kept
  <1> QED
    BY <1>1, Steps, IdleKeeps, UsedKeeps, ClientKeeps

-----------------------------------------------------------------------------
(* What the caller hears.                                                  *)

Preparing ==
  {"create_recog", "open_recog", "grammar", "define", "defined", "prompts", "start",
   "sent"}

Texts == {"create_synth", "open_synth", "content", "speak", "spoken"}

Playing == Texts \cup {"play", "release"}

Looping == {"listen", "prompt", "barge", "frame"}

\* Where there is a prompt, and of which kind.
Ordered ==
  /\ apc \in Playing \cup {"alone", "prompt", "barge"} => playing
  /\ apc \in Texts => ~file
  /\ apc = "release" => file

\* In a run whose synthesizer owed nothing: it is silent, or speaks the current
\* prompt, or is about to, or about to be stopped.
Silent == requests["synth"] = <<>> /\ ~speaking /\ state["synth"] # "PROCESSING"

SpeaksPrompt ==
  /\ requests["synth"] = <<>> /\ speaking /\ state["synth"] = "PROCESSING"
  /\ playing /\ ~file /\ apc \in Looping \cup {"spoken", "alone"}

WillSpeak ==
  /\ requests["synth"] = <<"SPEAK">> /\ ~speaking /\ state["synth"] = "READY"
  /\ apc = "spoken"

WillStop == requests["synth"] = <<"STOP">> /\ ~playing /\ apc \in {"listen", "frame"}

Voice ==
  /\ state["synth"] = "PROCESSING" => speaking
  /\ apc \in Preparing \cup Playing \cup Looping \cup {"alone"} /\ ~noisy =>
       Silent \/ SpeaksPrompt \/ WillSpeak \/ WillStop

VoiceInv == Ordered /\ Voice

LEMMA IdleVoice ==
  ASSUME SarTypeOK, VoiceInv, ChannelsIdle
  PROVE  VoiceInv'
  <1>1. UNCHANGED <<chan, state, requests, speaking, noisy>>
    BY IdleIsAside DEF Aside, chanVars, serverVars, histVars
  <1>0. Ordered /\ Voice /\ turn \in {"alone", "listen", "barge"} /\ prompts \in Nat
    BY DEF VoiceInv, SarTypeOK, RunOK
  <1> USE <1>0, <1>1
      DEF VoiceInv, Ordered, Voice, Silent, SpeaksPrompt, WillSpeak, WillStop, Preparing,
          Texts, Playing, Looping
  <1>2. CASE BadCall \/ Defined
    BY <1>2 DEF BadCall, Defined, Loaded, ExitWith, promptVars
  <1>3. CASE NextGrammar \/ HangUp \/ ExitKeeps \/ ExitDestroy
    BY <1>3 DEF NextGrammar, HangUp, ExitKeeps, ExitDestroy, Goto, ExitWith, promptVars
  <1>4. CASE Prompts
    BY <1>4 DEF Prompts, ExitWith
  <1>5. CASE PlayFile
    <2>1. apc = "play" /\ playing /\ (~noisy => Silent)
      BY <1>5 DEF PlayFile
    <2>2. apc' \in {"exit", "release", turn}
      BY <1>5 DEF PlayFile, ExitWith
    <2>3. apc' # "exit" => file' = TRUE /\ playing' = playing
      BY <1>5 DEF PlayFile, ExitWith
    <2>4. apc' # "exit" => file' /\ playing'
      BY <2>1, <2>3, Zenon
    <2>5. Silent' <=> Silent
      OBVIOUS
    <2>6. Voice'
      BY <2>1, <2>5
    <2>7. Ordered'
      BY <2>2, <2>4
    <2> QED
      BY <2>6, <2>7
  <1>6. CASE PlayText
    BY <1>6 DEF PlayText
  <1>7. CASE Content \/ Spoken
    BY <1>7 DEF Content, Spoken, Goto, ExitWith, promptVars
  <1>8. CASE PlayedAlone
    <2>1. apc = "alone" /\ (file \/ state["synth"] # "PROCESSING")
      BY <1>8 DEF PlayedAlone, TextOver
    <2>2. ~noisy => Silent
      BY <2>1
    <2>3. \/ apc' = "play" /\ playing' = playing
          \/ apc' = "start"
      BY <1>8 DEF PlayedAlone, NextPrompt, PromptsOver
    <2> QED
      BY <2>1, <2>2, <2>3
  <1>9. CASE AloneFails \/ Listen \/ ListenFails
    BY <1>9 DEF AloneFails, Listen, ListenFails, Goto, ExitWith, promptVars
  <1>10. CASE Sent
    BY <1>10 DEF Sent, ExitWith, promptVars
  <1>11. CASE PromptGoesOn
    BY <1>11 DEF PromptGoesOn, Goto, promptVars
  <1>12. CASE PromptAdvances
    BY <1>12 DEF PromptAdvances, NextPrompt, TextOver
  <1>13. CASE BargeInFile
    BY <1>13 DEF BargeInFile, BargeIn
  <1>14. CASE NoBargeIn \/ Frame \/ FrameRefused \/ NullFrame
    BY <1>14 DEF NoBargeIn, Frame, FrameRefused, NullFrame, Goto, promptVars
  <1> QED
    BY <1>2, <1>3, <1>4, <1>5, <1>6, <1>7, <1>8, <1>9, <1>10, <1>11, <1>12, <1>13,
       <1>14 DEF ChannelsIdle

LEMMA UsedVoice ==
  ASSUME SarTypeOK, ChanInv, VoiceInv, ChannelsUsed
  PROVE  VoiceInv'
  <1>0. /\ Ordered /\ Voice /\ Quiet /\ Opening /\ turn \in {"alone", "listen", "barge"}
        /\ "synth" \in Channels /\ "recog" \in Channels /\ ChansOK
    BY DEF VoiceInv, ChanInv, SarTypeOK, RunOK, Channels
  <1>1. requests["synth"] = <<>> =>
          /\ Append(requests["synth"], "SPEAK") = <<"SPEAK">>
          /\ Append(requests["synth"], "STOP") = <<"STOP">>
    OBVIOUS
  <1> USE <1>0
      DEF VoiceInv, Ordered, Voice, Silent, SpeaksPrompt, WillSpeak, WillStop, Preparing,
          Texts, Playing, Looping
  <1>2. CASE Exec
    BY <1>2 DEF Exec, Owing, chanVars, serverVars
  <1>3. CASE CreateRecog \/ OpenRecog
    <2>1. /\ requests'["synth"] = requests["synth"] /\ state'["synth"] = state["synth"]
          /\ UNCHANGED <<speaking, noisy, playing, file>>
          /\ apc \in Preparing /\ apc' \in {"open_recog", "grammar", "exit"}
      BY <1>3
         DEF CreateRecog, OpenRecog, Create, Opened, OpenFailed, SetState, Goto, ExitWith,
             Aside, ChansOK, chanVars, promptVars, serverVars, histVars
    <2> QED
      BY <2>1
  <1>4. CASE Define \/ Start
    <2>1. /\ requests'["synth"] = requests["synth"] /\ state'["synth"] = state["synth"]
          /\ UNCHANGED <<speaking, noisy, playing, file>>
          /\ apc \in Preparing /\ apc' \in {"defined", "grammar", "sent", "exit"}
      BY <1>4
         DEF Define, Start, Send, SetState, Goto, Loaded, ExitWith,
             ChansOK, promptVars, serverVars, histVars
    <2> QED
      BY <2>1
  <1>5. CASE CreateSynth
    <2>1. apc = "create_synth"
      BY <1>5 DEF CreateSynth
    <2>2. CASE ExitWith("ERROR") /\ Aside
      BY <2>2 DEF ExitWith, Aside, chanVars, promptVars, serverVars, histVars
    <2>3. CASE Create("synth") /\ Goto("open_synth")
      <3>1. /\ requests["synth"] = <<>> /\ ~speaking /\ state'["synth"] = "CLOSED"
            /\ UNCHANGED <<requests, playing, file, speaking>> /\ apc' = "open_synth"
        BY <1>5, <2>3
           DEF CreateSynth, Create, SetState, Goto, Aside, ChansOK, Quiet, promptVars,
               serverVars
      <3> QED
        BY <2>1, <3>1
    <2> QED
      BY <1>5, <2>2, <2>3 DEF CreateSynth
  <1>6. CASE OpenSynth
    <2>1. /\ UNCHANGED <<requests, speaking, noisy, playing, file>>
          /\ apc = "open_synth" /\ apc' \in {"content", "exit"}
          /\ state'["synth"] # "PROCESSING"
      BY <1>6
         DEF OpenSynth, Opened, OpenFailed, SetState, Goto, ExitWith, ChansOK, Opening,
             chanVars, promptVars, serverVars, histVars
    <2> QED
      BY <2>1
  <1>7. CASE Release \/ CloseSynth \/ CloseRecog
    <2>1. /\ UNCHANGED <<state, requests, speaking, noisy, playing, file>>
          /\ apc' \notin Preparing \cup Texts \cup {"play", "release"}
      BY <1>7 DEF Release, CloseSynth, CloseRecog, Freed, Goto, promptVars, serverVars, histVars
    <2>2. apc = "release" \/ apc' \notin Looping \cup {"alone"}
      BY <1>7 DEF Release, CloseSynth, CloseRecog, Goto
    <2> QED
      BY <2>1, <2>2
  <1>8. CASE Speak
    <2>1. apc = "speak" /\ UNCHANGED <<state, speaking, noisy, playing, file>>
          /\ (~noisy => Silent)
      BY <1>8 DEF Speak, Goto, ExitWith, promptVars, serverVars, histVars
    <2>2. CASE Send("synth", "SPEAK") /\ Goto("spoken") /\ state["synth"] = "READY"
      <3>1. requests'["synth"] = Append(requests["synth"], "SPEAK") /\ apc' = "spoken"
        BY <2>2 DEF Send, Goto, ChansOK
      <3> QED
        BY <1>1, <2>1, <2>2, <3>1
    <2>3. CASE ExitWith("ERROR")
      BY <2>1, <2>3 DEF ExitWith
    <2> QED
      BY <1>8, <2>2, <2>3 DEF Speak
  <1>9. CASE PromptsEnd
    <2>1. /\ requests'["synth"] = requests["synth"]
          /\ UNCHANGED <<state, speaking, noisy, file>> /\ ~playing'
          /\ apc = "prompt" /\ apc' = "frame" /\ (file \/ TextOver)
      BY <1>9 DEF PromptsEnd, PromptsOver, AskForTimers, Send, ChansOK, serverVars
    <2> QED
      BY <2>1 DEF TextOver
  <1>10. CASE BargeInText
    BY <1>1, <1>10 DEF BargeInText, BargeIn, Send, ChansOK, serverVars
  <1>11. CASE Results
    BY <1>11 DEF Results, chanVars, serverVars
  <1>12. CASE ExitStop \/ Stopped
    BY <1>12 DEF ExitStop, Stopped, Send, SetState, Goto, ChansOK, promptVars, serverVars
  <1> QED
    BY <1>2, <1>3, <1>4, <1>5, <1>6, <1>7, <1>8, <1>9, <1>10, <1>11, <1>12
       DEF ChannelsUsed

LEMMA ClientVoice ==
  ASSUME SarTypeOK, ChanInv, VoiceInv,
         SynthMessage \/ RecogMessage \/ Terminated("synth") \/ Terminated("recog")
  PROVE  VoiceInv'
  <1>0. Ordered /\ Voice /\ ChansOK /\ "synth" \in Channels /\ "recog" \in Channels
    BY DEF VoiceInv, SarTypeOK, Channels
  <1>1. UNCHANGED <<apc, playing, file>>
    BY DEF SynthMessage, AnswerSpeak, AnswerStop, SpeakComplete, OtherSynthEvent,
       SynthSets, RecogMessage, FinishMessage, AnswerRecognize, AnswerDefine,
       AnswerTimers, RecognitionComplete, StartOfInput, OtherRecogEvent, Terminated,
       appVars, promptVars
  <1>2. Ordered'
    BY <1>0, <1>1 DEF Ordered
  <1>3. CASE RecogMessage
    <2>1. /\ requests'["synth"] = requests["synth"] /\ state'["synth"] = state["synth"]
          /\ UNCHANGED <<speaking, noisy>>
      BY <1>0, <1>3
         DEF RecogMessage, FinishMessage, AnswerRecognize, AnswerDefine, AnswerTimers,
             RecognitionComplete, StartOfInput, OtherRecogEvent, RecogSets,
             StoresThenSets, SetState, Answers, Up, ChansOK, serverVars, chanVars, histVars
    <2> QED
      BY <1>0, <1>1, <1>2, <2>1
         DEF VoiceInv, Voice, Silent, SpeaksPrompt, WillSpeak, WillStop
  <1>4. CASE Terminated("recog")
    BY <1>0, <1>1, <1>2, <1>4
       DEF Terminated, SetState, ChansOK, histVars, VoiceInv, Voice, Silent, SpeaksPrompt,
           WillSpeak, WillStop
  <1>5. CASE Terminated("synth")
    BY <1>0, <1>1, <1>2, <1>5
       DEF Terminated, SetState, ChansOK, histVars, VoiceInv, Voice, Silent
  <1>6. CASE SynthMessage
    <2>1. /\ Head(<<"SPEAK">>) = "SPEAK" /\ Tail(<<"SPEAK">>) = <<>>
          /\ Head(<<"STOP">>) = "STOP" /\ Tail(<<"STOP">>) = <<>>
      OBVIOUS
    <2>2. ASSUME NEW s \in States, SynthSets(s)
          PROVE  /\ state'["synth"] = s /\ (noisy' <=> noisy \/ s = "ERROR")
      BY <1>0, <2>2 DEF SynthSets, SetState, ChansOK
    <2>3. CASE AnswerSpeak
      BY <1>0, <1>1, <1>2, <2>1, <2>2, <2>3
         DEF AnswerSpeak, Answers, ChansOK, States, VoiceInv, Voice, Silent, SpeaksPrompt,
             WillSpeak, WillStop, Ordered, Playing, Texts, Looping
    <2>4. CASE AnswerStop
      BY <1>0, <1>1, <1>2, <2>1, <2>2, <2>4
         DEF AnswerStop, Answers, ChansOK, States, VoiceInv, Voice, Silent, SpeaksPrompt,
             WillSpeak, WillStop
    <2>5. CASE SpeakComplete \/ OtherSynthEvent
      BY <1>0, <1>1, <1>2, <2>2, <2>5
         DEF SpeakComplete, OtherSynthEvent, States, VoiceInv, Voice, Silent, SpeaksPrompt,
             WillSpeak, WillStop
    <2> QED
      BY <1>6, <2>3, <2>4, <2>5 DEF SynthMessage
  <1> QED
    BY <1>3, <1>4, <1>5, <1>6

LEMMA VoiceStep ==
  ASSUME SarTypeOK, ChanInv, VoiceInv, [SarNext]_sarVars
  PROVE  VoiceInv'
  <1>1. CASE UNCHANGED sarVars
    BY <1>1
       DEF sarVars, chanVars, appVars, promptVars, serverVars, histVars, VoiceInv, Ordered,
           Voice, Silent, SpeaksPrompt, WillSpeak, WillStop
  <1> QED
    BY <1>1, Steps, IdleVoice, UsedVoice, ClientVoice

-----------------------------------------------------------------------------
(* The recognizer's timers.                                                *)

Pending(m) == \E i \in DOMAIN requests["recog"] : requests["recog"][i] = m

Recognizing ==
  apc = "sent" \/ apc \in Looping \/ (apc \in Playing /\ turn # "alone")

\* RECOGNIZE is the recognizer's only request until it was answered, and no
\* other follows in the run; the timers run, or are asked for, or the
\* recognition is over already.
Timed ==
  Recognizing /\ ~overlap =>
    /\ apc = "sent" =>
         \/ requests["recog"] = <<>>
         \/ requests["recog"] = <<"RECOGNIZE">> /\ state["recog"] # "PROCESSING"
    /\ apc # "sent" => ~Pending("RECOGNIZE")
    /\ policy = "auto" /\ ~playing =>
         \/ timers \/ started \/ refused
         \/ apc # "sent" /\ (\/ Pending("START-INPUT-TIMERS")
                             \/ state["recog"] # "PROCESSING")

LEMMA PendingUpdates ==
  ASSUME ChansOK
  PROVE  /\ UNCHANGED requests \/ requests'["recog"] = requests["recog"] =>
              \A m : Pending(m)' <=> Pending(m)
         /\ \A m \in Methods : Send("recog", m) =>
              \A n : Pending(n)' <=> Pending(n) \/ n = m
         /\ \A m \in Methods : Answers("recog", m) =>
              \A n : /\ Pending(n)' => Pending(n)
                     /\ n # m /\ Pending(n) => Pending(n)'
         /\ \A m \in Methods : Answers("recog", m) => Pending(m)
         /\ requests["recog"] = <<>> => \A m : ~Pending(m)
         /\ requests'["recog"] = <<>> => \A m : ~Pending(m)'
  <1>0. "recog" \in Channels /\ requests["recog"] \in Seq(Methods)
    BY DEF ChansOK, Channels
  <1>1. UNCHANGED requests \/ requests'["recog"] = requests["recog"] =>
          \A m : Pending(m)' <=> Pending(m)
    BY DEF Pending
  <1>2. ASSUME NEW m \in Methods, Send("recog", m), NEW n
        PROVE  Pending(n)' <=> Pending(n) \/ n = m
    <2>1. requests'["recog"] = Append(requests["recog"], m)
      BY <1>0, <1>2 DEF Send, ChansOK
    <2> DEFINE q == requests["recog"]
    <2>2. /\ DOMAIN q = 1..Len(q) /\ Len(q) \in Nat
          /\ DOMAIN Append(q, m) = 1..(Len(q) + 1)
          /\ \A i \in 1..Len(q) : Append(q, m)[i] = q[i]
          /\ Append(q, m)[Len(q) + 1] = m
      BY <1>0, AppendProperties, LenProperties
    <2> HIDE DEF q
    <2> QED
      BY <2>1, <2>2 DEF Pending, q
  <1>3. ASSUME NEW m \in Methods, Answers("recog", m)
        PROVE  /\ Pending(m)
               /\ \A n : /\ Pending(n)' => Pending(n)
                         /\ n # m /\ Pending(n) => Pending(n)'
    <2> DEFINE q == requests["recog"]
    <2>1. requests'["recog"] = Tail(q) /\ q # <<>> /\ Head(q) = m
      BY <1>0, <1>3 DEF Answers, ChansOK
    <2>2. /\ DOMAIN q = 1..Len(q) /\ Len(q) \in Nat \ {0} /\ q[1] = m
          /\ DOMAIN Tail(q) = 1..(Len(q) - 1)
          /\ \A i \in 1..(Len(q) - 1) : Tail(q)[i] = q[i + 1]
      BY <1>0, <2>1, HeadTailProperties, LenProperties, EmptySeq
    <2> HIDE DEF q
    <2>3. Pending(m)
      BY <2>2 DEF Pending, q
    <2>4. ASSUME NEW n, Pending(n)' PROVE Pending(n)
      BY <2>1, <2>2, <2>4 DEF Pending, q
    <2>5. ASSUME NEW n, n # m, Pending(n) PROVE Pending(n)'
      <3>1. PICK i \in 1..Len(q) : q[i] = n
        BY <2>2, <2>5 DEF Pending, q
      <3>2. i - 1 \in 1..(Len(q) - 1) /\ Tail(q)[i - 1] = n
        BY <2>2, <2>5, <3>1
      <3> QED
        BY <2>1, <2>2, <3>2 DEF Pending
    <2> QED
      BY <2>3, <2>4, <2>5
  <1>4. requests["recog"] = <<>> => \A m : ~Pending(m)
    BY DEF Pending
  <1>5. requests'["recog"] = <<>> => \A m : ~Pending(m)'
    BY DEF Pending
  <1> QED
    BY <1>1, <1>2, <1>3, <1>4, <1>5

LEMMA IdleTimed ==
  ASSUME SarTypeOK, VoiceInv, Timed, ChannelsIdle
  PROVE  Timed'
  <1>0. /\ UNCHANGED <<state, requests, overlap, timers, started, refused>>
        /\ Ordered /\ ChansOK
    BY IdleIsAside DEF Aside, chanVars, dataVars, histVars, VoiceInv, SarTypeOK
  <1>1. \A m : Pending(m)' <=> Pending(m)
    BY <1>0, PendingUpdates
  <1>2. ASSUME apc' \notin Looping \cup {"sent"}, apc' \notin Playing \/ turn' = "alone"
        PROVE  Timed'
    BY <1>2 DEF Timed, Recognizing
  <1>3. ASSUME Recognizing, apc # "sent", apc' # "sent", policy' = policy,
               playing' = playing \/ started
        PROVE  Timed'
    BY <1>0, <1>1, <1>3 DEF Timed
  <1>4. CASE BadCall \/ Defined \/ NextGrammar \/ HangUp \/ ExitKeeps \/ ExitDestroy
    BY <1>2, <1>4
       DEF BadCall, Defined, Loaded, ExitWith, NextGrammar, HangUp, ExitKeeps, ExitDestroy,
           Goto, Looping, Playing, Texts
  <1>5. CASE Prompts \/ PlayedAlone
    <2>1. apc' \in {"exit", "start"} \/ (apc' \in {"play", "start"} /\ turn' = "alone")
      BY <1>5 DEF Prompts, PlayedAlone, NextPrompt, PromptsOver, ExitWith
    <2> QED
      BY <2>1, <1>2 DEF Looping, Playing, Texts
  <1>6. CASE PlayFile \/ PlayText
    <2>1. /\ apc = "play" /\ apc' \in {"exit", "release", "create_synth", "content", turn}
          /\ apc' = "exit" \/ UNCHANGED <<policy, playing, turn>>
      BY <1>6 DEF PlayFile, PlayText, ExitWith, argVars
    <2>2. turn \in {"alone", "listen", "barge"}
      BY DEF SarTypeOK, RunOK
    <2>3. CASE apc' = "exit" \/ turn = "alone"
      BY <2>1, <2>3, <1>2 DEF Looping, Playing, Texts
    <2>4. CASE apc' # "exit" /\ turn # "alone"
      BY <2>1, <2>2, <2>4, <1>3 DEF Recognizing, Playing
    <2> QED
      BY <2>3, <2>4
  <1>7. CASE Content \/ Spoken
    <2>1. /\ apc \in {"content", "spoken"} /\ apc' \in {"exit", "crashed", "speak", turn}
          /\ apc' \in {"exit", "crashed"} \/ UNCHANGED <<policy, playing, turn>>
      BY <1>7 DEF Content, Spoken, Goto, ExitWith, argVars, promptVars
    <2>2. turn \in {"alone", "listen", "barge"}
      BY DEF SarTypeOK, RunOK
    <2>3. CASE apc' \in {"exit", "crashed"} \/ turn = "alone"
      BY <2>1, <2>3, <1>2 DEF Looping, Playing, Texts
    <2>4. CASE apc' \notin {"exit", "crashed"} /\ turn # "alone"
      BY <2>1, <2>2, <2>4, <1>3 DEF Recognizing, Playing, Texts
    <2> QED
      BY <2>3, <2>4
  <1>8. CASE AloneFails \/ ListenFails \/ FrameRefused \/ NullFrame
    BY <1>2, <1>8
       DEF AloneFails, ListenFails, FrameRefused, NullFrame, Goto, ExitWith, Looping,
           Playing, Texts
  <1>9. CASE Sent
    BY <1>0, <1>1, <1>2, <1>9, PendingUpdates
       DEF Sent, ExitWith, argVars, Timed, Recognizing, Looping, Playing, Texts
  <1>10. CASE Listen \/ PromptGoesOn \/ NoBargeIn \/ Frame
    BY <1>2, <1>3, <1>10
       DEF Listen, PromptGoesOn, NoBargeIn, Frame, Goto, argVars, promptVars, Recognizing,
           Looping, Playing, Texts
  <1>11. CASE PromptAdvances
    BY <1>3, <1>11 DEF PromptAdvances, NextPrompt, argVars, Recognizing, Looping
  <1>12. CASE BargeInFile
    BY <1>3, <1>12 DEF BargeInFile, BargeIn, argVars, Recognizing, Looping
  <1> QED
    BY <1>4, <1>5, <1>6, <1>7, <1>8, <1>9, <1>10, <1>11, <1>12 DEF ChannelsIdle

LEMMA UsedTimed ==
  ASSUME SarTypeOK, ChanInv, VoiceInv, Timed, ChannelsUsed
  PROVE  Timed'
  <1>0. /\ Ordered /\ ChansOK /\ "synth" \in Channels /\ "recog" \in Channels
        /\ turn \in {"alone", "listen", "barge"}
    BY DEF VoiceInv, SarTypeOK, RunOK, Channels
  <1>1. ASSUME apc' \notin Looping \cup Playing \cup {"sent"} PROVE Timed'
    BY <1>1 DEF Timed, Recognizing
  <1>2. ASSUME apc \in Playing, apc' \in Playing \cup {turn, "exit"},
               requests'["recog"] = requests["recog"], state'["recog"] = state["recog"],
               UNCHANGED <<turn, policy, playing, overlap, timers, started, refused>>
        PROVE  Timed'
    BY <1>0, <1>2, PendingUpdates DEF Timed, Recognizing, Looping, Playing, Texts
  <1>3. CASE Exec \/ CreateRecog \/ OpenRecog \/ Define \/ Results
    BY <1>1, <1>3
       DEF Exec, CreateRecog, OpenRecog, Define, Results, Goto, Loaded, ExitWith, Looping,
           Playing, Texts
  <1>4. CASE ExitStop \/ Stopped \/ CloseSynth \/ CloseRecog
    BY <1>1, <1>4
       DEF ExitStop, Stopped, CloseSynth, CloseRecog, Goto, Looping, Playing, Texts
  <1>5. CASE Release
    BY <1>0, <1>2, <1>5
       DEF Release, Freed, Goto, argVars, promptVars, dataVars, histVars, Playing
  <1>6. CASE CreateSynth
    BY <1>0, <1>2, <1>6
       DEF CreateSynth, Create, SetState, Goto, ExitWith, Aside, ChansOK, chanVars,
           argVars, promptVars, dataVars, histVars, Playing, Texts
  <1>7. CASE OpenSynth
    <2>1. requests'["recog"] = requests["recog"] /\ state'["recog"] = state["recog"]
      BY <1>0, <1>7
         DEF OpenSynth, Opened, OpenFailed, SetState, ChansOK, chanVars
    <2> QED
      BY <1>2, <1>7, <2>1
         DEF OpenSynth, Goto, ExitWith, argVars, promptVars, dataVars, histVars, Playing,
             Texts
  <1>8. CASE Speak
    BY <1>0, <1>2, <1>8
       DEF Speak, Send, Goto, ExitWith, ChansOK, argVars, promptVars, dataVars, histVars,
           Playing, Texts
  <1>9. CASE Start
    <2>1. CASE apc' = "exit"
      BY <1>1, <2>1 DEF Looping, Playing, Texts
    <2>2. CASE apc' # "exit"
      <3>1. /\ requests'["recog"] = Append(requests["recog"], "RECOGNIZE")
            /\ UNCHANGED <<state, playing>> /\ state["recog"] = "READY" /\ apc' = "sent"
        BY <1>0, <1>9, <2>2 DEF Start, Send, ChansOK, promptVars
      <3>2. ~overlap' => requests'["recog"] = <<"RECOGNIZE">>
        <4>1. Append(<<>>, "RECOGNIZE") = <<"RECOGNIZE">>
          OBVIOUS
        <4> QED
          BY <1>9, <2>2, <3>1, <4>1 DEF Start
      <3>3. policy' = "auto" /\ ~playing => timers'
        BY <1>9, <2>2, Zenon DEF Start, StartInputTimers
      <3> QED
        BY <3>1, <3>2, <3>3 DEF Timed
    <2> QED
      BY <2>1, <2>2
  <1>10. CASE PromptsEnd
    <2>1. /\ apc = "prompt" /\ apc' = "frame" /\ UNCHANGED <<policy, state, overlap, timers, started>>
      BY <1>10 DEF PromptsEnd, PromptsOver, argVars, dataVars
    <2>2. \/ UNCHANGED <<requests, refused>>
          \/ Send("recog", "START-INPUT-TIMERS") /\ UNCHANGED refused
          \/ UNCHANGED requests /\ refused'
      BY <1>10 DEF PromptsEnd, AskForTimers
    <2>3. "START-INPUT-TIMERS" \in Methods /\ "RECOGNIZE" # "START-INPUT-TIMERS"
      BY DEF Methods
    <2>4. ~Pending("RECOGNIZE") => ~Pending("RECOGNIZE")'
      BY <1>0, <2>2, <2>3, PendingUpdates
    <2>5. policy = "auto" => \/ timers \/ refused' \/ state["recog"] # "PROCESSING"
                             \/ Pending("START-INPUT-TIMERS")'
      BY <1>0, <1>10, <2>3, PendingUpdates DEF PromptsEnd, AskForTimers
    <2> QED
      BY <2>1, <2>4, <2>5 DEF Timed, Recognizing, Looping
  <1>11. CASE BargeInText
    <2>1. /\ apc = "barge" /\ apc' = "frame" /\ started' /\ started
          /\ UNCHANGED <<policy, overlap>> /\ requests'["recog"] = requests["recog"]
      BY <1>0, <1>11 DEF BargeInText, BargeIn, Send, ChansOK, argVars, dataVars
    <2>2. \A m : Pending(m)' <=> Pending(m)
      BY <1>0, <2>1, PendingUpdates
    <2> QED
      BY <2>1, <2>2 DEF Timed, Recognizing, Looping
  <1> QED
    BY <1>3, <1>4, <1>5, <1>6, <1>7, <1>8, <1>9, <1>10, <1>11 DEF ChannelsUsed

LEMMA ClientTimed ==
  ASSUME SarTypeOK, ChanInv, Timed,
         SynthMessage \/ RecogMessage \/ Terminated("synth") \/ Terminated("recog")
  PROVE  Timed'
  <1>0. /\ ChansOK /\ "synth" \in Channels /\ "recog" \in Channels
        /\ next \in {"none", "READY", "ERROR"}
    BY DEF SarTypeOK, RunOK, Channels
  <1>1. UNCHANGED <<apc, turn, policy, playing, overlap>>
    BY DEF SynthMessage, AnswerSpeak, AnswerStop, SpeakComplete, OtherSynthEvent,
       SynthSets, RecogMessage, FinishMessage, AnswerRecognize, AnswerDefine,
       AnswerTimers, RecognitionComplete, StartOfInput, OtherRecogEvent, Terminated,
       appVars, argVars, promptVars, histVars
  <1>2. Recognizing' <=> Recognizing
    BY <1>1 DEF Recognizing
  <1>3. ASSUME requests'["recog"] = requests["recog"],
               state'["recog"] = "PROCESSING" => state["recog"] = "PROCESSING",
               timers => timers', started => started', refused => refused'
        PROVE  Timed'
    BY <1>0, <1>1, <1>2, <1>3, PendingUpdates DEF Timed
  <1>4. CASE SynthMessage
    <2>1. /\ requests'["recog"] = requests["recog"] /\ state'["recog"] = state["recog"]
          /\ UNCHANGED <<timers, started, refused>>
      BY <1>0, <1>4
         DEF SynthMessage, AnswerSpeak, AnswerStop, SpeakComplete, OtherSynthEvent,
             SynthSets, SetState, Answers, ChansOK, dataVars
    <2> QED
      BY <2>1, <1>3
  <1>5. CASE Terminated("synth")
    BY <1>0, <1>3, <1>5 DEF Terminated, SetState, ChansOK, dataVars, histVars
  <1>6. CASE Terminated("recog")
    <2>1. /\ requests'["recog"] = <<>> /\ state'["recog"] = "CLOSED"
          /\ UNCHANGED <<timers, started, refused>>
      BY <1>0, <1>6 DEF Terminated, SetState, ChansOK, dataVars, histVars
    <2> QED
      BY <1>0, <1>1, <1>2, <2>1, PendingUpdates DEF Timed
  <1>7. CASE FinishMessage \/ OtherRecogEvent \/ RecognitionComplete \/ StartOfInput
    <2>1. /\ requests'["recog"] = requests["recog"]
          /\ state'["recog"] = "PROCESSING" => state["recog"] = "PROCESSING"
          /\ UNCHANGED <<timers, refused>> /\ (started => started')
      BY <1>0, <1>7
         DEF FinishMessage, OtherRecogEvent, RecognitionComplete, StartOfInput, RecogSets,
             StoresThenSets, SetState, ChansOK, dataVars, histVars, chanVars
    <2> QED
      BY <2>1, <1>3
  <1>8. "RECOGNIZE" \in Methods /\ "DEFINE-GRAMMAR" \in Methods
        /\ "START-INPUT-TIMERS" \in Methods
    BY DEF Methods
  <1>9. /\ Tail(<<"RECOGNIZE">>) = <<>> /\ Head(<<"RECOGNIZE">>) = "RECOGNIZE"
    OBVIOUS
  <1>10. CASE AnswerRecognize
    <2>1. /\ Answers("recog", "RECOGNIZE") /\ UNCHANGED <<started, timers, refused>>
          /\ Pending("RECOGNIZE")
      BY <1>0, <1>8, <1>10, PendingUpdates
         DEF AnswerRecognize, RecogSets, StoresThenSets, dataVars, histVars
    <2>2. CASE Recognizing /\ ~overlap
      <3>1. apc = "sent" /\ requests["recog"] = <<"RECOGNIZE">>
        BY <1>0, <2>1, <2>2, PendingUpdates DEF Timed
      <3>2. requests'["recog"] = <<>>
        BY <1>0, <1>9, <2>1, <3>1 DEF Answers, ChansOK
      <3> QED
        BY <1>1, <2>1, <2>2, <3>1, <3>2 DEF Timed
    <2>3. CASE ~(Recognizing /\ ~overlap)
      BY <1>1, <1>2, <2>3 DEF Timed
    <2> QED
      BY <2>2, <2>3
  <1>11. CASE AnswerDefine
    <2>1. /\ Answers("recog", "DEFINE-GRAMMAR") /\ UNCHANGED <<started, timers, refused>>
          /\ state'["recog"] = "PROCESSING" => state["recog"] = "PROCESSING"
      BY <1>0, <1>11
         DEF AnswerDefine, RecogSets, StoresThenSets, SetState, ChansOK, dataVars, histVars
    <2>2. requests["recog"] # <<"RECOGNIZE">> /\ requests["recog"] # <<>>
      BY <1>9, <2>1 DEF Answers
    <2>3. /\ Pending("RECOGNIZE")' => Pending("RECOGNIZE")
          /\ Pending("START-INPUT-TIMERS") => Pending("START-INPUT-TIMERS")'
      BY <1>0, <1>8, <2>1, PendingUpdates
    <2> QED
      BY <1>1, <1>2, <2>1, <2>2, <2>3 DEF Timed
  <1>12. CASE AnswerTimers
    <2>1. /\ Answers("recog", "START-INPUT-TIMERS") /\ UNCHANGED <<started, state>>
          /\ timers' \/ refused'
      BY <1>12 DEF AnswerTimers
    <2>2. requests["recog"] # <<"RECOGNIZE">> /\ requests["recog"] # <<>>
      BY <1>9, <2>1 DEF Answers
    <2>3. Pending("RECOGNIZE")' => Pending("RECOGNIZE")
      BY <1>0, <1>8, <2>1, PendingUpdates
    <2> QED
      BY <1>1, <1>2, <2>1, <2>2, <2>3 DEF Timed
  <1> QED
    BY <1>4, <1>5, <1>6, <1>7, <1>10, <1>11, <1>12 DEF RecogMessage

LEMMA TimedStep ==
  ASSUME SarTypeOK, ChanInv, VoiceInv, Timed, [SarNext]_sarVars
  PROVE  Timed'
  <1>1. CASE UNCHANGED sarVars
    BY <1>1
       DEF sarVars, chanVars, appVars, argVars, promptVars, dataVars, histVars, Timed,
           Recognizing, Pending
  <1> QED
    BY <1>1, Steps, IdleTimed, UsedTimed, ClientTimed

-----------------------------------------------------------------------------
(* The theorems.                                                           *)

SarInv == SarTypeOK /\ ChanInv /\ VoiceInv /\ Timed

LEMMA SarInitial == SarInit => SarInv
  <1> SUFFICES ASSUME SarInit PROVE SarInv
    OBVIOUS
  <1>1. ChansOK /\ RunOK
    BY EmptySeq DEF SarInit, ChansOK, RunOK, Channels, States, AppStates
  <1>2. SarFlagsOK
    BY Zenon DEF SarInit, SarFlagsOK
  <1>3. ChanInv
    BY DEF SarInit, ChanInv, Quiet, Opening, Emptied, Channels
  <1>4. VoiceInv
    BY DEF SarInit, VoiceInv, Ordered, Voice, Silent, Playing, Texts, Preparing,
       Looping, Channels
  <1>5. Timed
    BY DEF SarInit, Timed, Recognizing, Looping, Playing, Texts
  <1> QED
    BY <1>1, <1>2, <1>3, <1>4, <1>5 DEF SarInv, SarTypeOK

LEMMA SarStep == SarInv /\ [SarNext]_sarVars => SarInv'
  <1> SUFFICES ASSUME SarInv, [SarNext]_sarVars PROVE SarInv'
    OBVIOUS
  <1>1. CASE UNCHANGED sarVars
    <2>1. SarTypeOK'
      BY <1>1
         DEF SarInv, SarTypeOK, ChansOK, RunOK, SarFlagsOK, sarVars, chanVars, appVars,
             argVars, promptVars, dataVars, serverVars, histVars
    <2> QED
      BY <2>1, ChanStep, VoiceStep, TimedStep DEF SarInv
  <1>2. CASE SarNext
    BY <1>2, TypeStep, ChanStep, VoiceStep, TimedStep DEF SarInv
  <1> QED
    BY <1>1, <1>2

LEMMA SarAlways == SarSpec => []SarInv
  BY SarInitial, SarStep, PTL DEF SarSpec

\* Every variable keeps its type (SarTypeOK).
THEOREM SarTypeCorrect == SarSpec => []SarTypeOK
  <1>1. SarInv => SarTypeOK
    BY DEF SarInv
  <1> QED
    BY <1>1, SarAlways, PTL

\* However a dynamic run ends, and however the call ends, both channels are
\* destroyed and nothing of theirs is left (synthandrecog_exit,
\* app_datastore_destroy).
THEOREM BothAreReleased == SarSpec => []BothReleased
  <1>1. SarInv => BothReleased
    BY DEF SarInv, ChanInv, Quiet, Emptied, BothReleased, Channels
  <1> QED
    BY <1>1, SarAlways, PTL

\* The caller is not talked over: input that starts, or the end of the prompts,
\* leaves the synthesizer silent or told to be (synth_channel_bargein_occurred
\* and the loop of app_synthandrecog_exec).
THEOREM CallerIsNotTalkedOver == SarSpec => []BargeInSilences
  <1>1. SarInv => BargeInSilences
    <2> SUFFICES ASSUME SarInv, Listening, ~playing, ~noisy, speaking
                 PROVE  \E i \in DOMAIN requests["synth"] : requests["synth"][i] = "STOP"
      BY DEF BargeInSilences
    <2>1. requests["synth"] = <<"STOP">>
      BY DEF SarInv, VoiceInv, Voice, Silent, SpeaksPrompt, WillSpeak, WillStop, Listening,
         Looping, Playing, Preparing
    <2> QED
      BY <2>1
  <1> QED
    BY <1>1, SarAlways, PTL

\* With the policy "auto" the timers follow the prompts
\* (recog_channel_start, recog_channel_start_input_timers).
THEOREM TimersFollow == SarSpec => []TimersFollowPrompts
  <1>1. SarInv => TimersFollowPrompts
    BY DEF SarInv, Timed, Recognizing, Pending, TimersFollowPrompts, Listening, Looping
  <1> QED
    BY <1>1, SarAlways, PTL

\* SPEAK is sent to a synthesizer that has finished (synth_channel_speak, and
\* the loop that reads the end of a text from the state alone).
THEOREM OnePromptAtATime == SarSpec => PromptsOneByOne
  <1> DEFINE Asks == requests'["synth"] = Append(requests["synth"], "SPEAK")
  <1>1. ASSUME SarInv, [SarNext]_sarVars, Asks
        PROVE  ~Owing \/ noisy
    <2>0. /\ "synth" \in Channels /\ "recog" \in Channels /\ ChansOK
          /\ requests["synth"] \in Seq(Methods)
      BY <1>1 DEF SarInv, SarTypeOK, ChansOK, Channels
    <2>1. /\ Append(requests["synth"], "SPEAK") # requests["synth"]
          /\ Append(requests["synth"], "SPEAK") # Append(requests["synth"], "STOP")
          /\ Append(requests["synth"], "SPEAK") # <<>>
          /\ requests["synth"] # <<>> =>
               Append(requests["synth"], "SPEAK") # Tail(requests["synth"])
      <3> DEFINE q == requests["synth"]
                 p == Append(q, "SPEAK")
                 t == Append(q, "STOP")
                 r == Tail(q)
      <3>1. /\ Len(p) = Len(q) + 1 /\ Len(t) = Len(q) + 1 /\ Len(q) \in Nat
            /\ p[Len(q) + 1] = "SPEAK" /\ t[Len(q) + 1] = "STOP"
        BY <2>0, AppendProperties, LenProperties DEF Methods
      <3>2. q # <<>> => Len(r) = Len(q) - 1
        BY <2>0, HeadTailProperties
      <3>3. Len(<<>>) = 0
        OBVIOUS
      <3> HIDE DEF p, t, r
      <3>4. p # q /\ p # t /\ p # <<>> /\ (q # <<>> => p # r)
        BY <3>1, <3>2, <3>3
      <3> QED
        BY <3>4 DEF p, t, r
    <2>2. Speak
      <3>1. UNCHANGED requests \/ requests'["synth"] = requests["synth"] => FALSE
        BY <1>1, <2>1
      <3>2. ~ChannelsIdle
        BY <3>1, IdleIsAside DEF Aside, chanVars
      <3>3. ~UNCHANGED sarVars
        BY <3>1 DEF sarVars, chanVars
      <3>4. ~RecogMessage
        BY <2>0, <3>1
           DEF RecogMessage, FinishMessage, AnswerRecognize, AnswerDefine, AnswerTimers,
               RecognitionComplete, StartOfInput, OtherRecogEvent, Answers, ChansOK,
               chanVars
      <3>5. ~SynthMessage
        BY <1>1, <2>0, <2>1, <3>1
           DEF SynthMessage, AnswerSpeak, AnswerStop, SpeakComplete, OtherSynthEvent,
               Answers, ChansOK
      <3>6. ~Terminated("synth") /\ ~Terminated("recog")
        BY <1>1, <2>0, <2>1, <3>1 DEF Terminated, ChansOK
      <3>7. ~BargeInText /\ ~ExitStop
        BY <1>1, <2>0, <2>1, <3>1 DEF BargeInText, ExitStop, Send, ChansOK
      <3>8. ~Define /\ ~Start /\ ~PromptsEnd
        BY <2>0, <3>1 DEF Define, Start, PromptsEnd, AskForTimers, Send, ChansOK
      <3>9. /\ ~Exec /\ ~CreateRecog /\ ~OpenRecog /\ ~Release /\ ~CreateSynth
            /\ ~OpenSynth /\ ~Results /\ ~Stopped /\ ~CloseSynth /\ ~CloseRecog
        BY <3>1
           DEF Exec, CreateRecog, OpenRecog, Release, CreateSynth, OpenSynth, Results,
               Stopped, CloseSynth, CloseRecog, Create, Opened, OpenFailed, Freed, Aside,
               chanVars
      <3> QED
        BY <1>1, <3>2, <3>3, <3>4, <3>5, <3>6, <3>7, <3>8, <3>9, Steps DEF ChannelsUsed
    <2>3. apc = "speak"
      BY <2>2 DEF Speak
    <2> QED
      BY <1>1, <2>3
         DEF SarInv, VoiceInv, Voice, Silent, SpeaksPrompt, WillSpeak, WillStop, Owing,
             Playing, Texts, Looping
  <1>2. SarInv /\ [SarNext]_sarVars => [Asks => ~Owing \/ noisy]_sarVars
    BY <1>1
  <1> QED
    BY <1>2, SarAlways, PTL DEF SarSpec, PromptsOneByOne

\* Each of the two channels keeps the contract that SpeechChannel implements
\* (the calls of speech_channel_create, open and destroy in
\* app_synthandrecog.c, and its message handlers).
THEOREM BothChannelsKept == SarSpec => ChannelsKept
  <1>1. SarInit => SynthContract!Init /\ RecogContract!Init
    BY DEF SarInit, SynthContract!Init, RecogContract!Init, Channels
  <1>2. SarInv /\ [SarNext]_sarVars =>
          /\ [SynthContract!Next]_<<chan["synth"] # "null", state["synth"]>>
          /\ [RecogContract!Next]_<<chan["recog"] # "null", state["recog"]>>
    BY ChanStep DEF SarInv, Kept, Channels
  <1> QED
    BY <1>1, <1>2, SarAlways, PTL
       DEF SarSpec, ChannelsKept, SynthContract!Spec, RecogContract!Spec

-----------------------------------------------------------------------------
(* No run is stuck: what RunEnds needs besides fairness.                   *)

\* Only the server of an open channel has something in progress; the recognizer's
\* channel is in PROCESSING in the loop only while there is a recognition, or the
\* client task is about to say that it is over.
Attended ==
  /\ speaking => chan["synth"] = "opened"
  /\ active > 0 \/ next # "none" => chan["recog"] = "opened"
  /\ Recognizing /\ state["recog"] = "PROCESSING" => active > 0 \/ next # "none"

\* A prompt that plays is one of the list.
Counted == playing => prompts > 0

Runs == apc \notin {"idle", "end", "crashed"}

\* destroy waits for the session's end.
Held(c) == Closing(c) /\ chan[c] # "null" /\ state[c] # "CLOSED"

\* The thread has a step that takes the run on.
RunReady ==
  /\ Runs
  /\ apc = "alone" => file \/ state["synth"] # "PROCESSING"
  /\ apc \in Looping => state["recog"] # "PROCESSING"
  /\ \A c \in Channels : ~Held(c)

\* A run that is not over, and has no step that takes it on, waits for the client
\* task to finish a message, for the end of a session that was asked to end, or for
\* that of the speech or the recognition that it plays or listens to; none of these
\* waits has a timeout.
RunIsNotStuck ==
  Runs =>
    \/ RunReady
    \/ next # "none"
    \/ next = "none" /\ \E c \in Channels : Held(c)
    \/ apc = "alone" /\ Up("synth") /\ speaking
    \/ apc \in Looping /\ Up("recog") /\ active > 0

\* How many steps a run still has before it, the turns of its loop not counted: as
\* many for each prompt, input that stops it being one of them.
Setup == {"create_recog", "open_recog", "grammar", "define", "defined", "prompts"}

Leaving ==
  {"results", "exit", "stop", "close_synth", "close_recog", "hang_synth", "hang_recog",
   "idle", "end", "crashed"}

Turns == IF apc \in Setup THEN MaxPrompts ELSE IF apc \in Leaving THEN 0 ELSE prompts

Rank ==
  IF apc = "create_recog" THEN 48 ELSE IF apc = "open_recog" THEN 47
  ELSE IF apc = "grammar" THEN (IF grammar THEN 46 ELSE 43)
  ELSE IF apc = "define" THEN 45 ELSE IF apc = "defined" THEN 44
  ELSE IF apc = "prompts" THEN 42 ELSE IF apc = "start" THEN 41
  ELSE IF apc = "sent" THEN 40 ELSE IF apc = "play" THEN 39
  ELSE IF apc \in {"release", "create_synth"} THEN 38
  ELSE IF apc = "open_synth" THEN 37 ELSE IF apc = "content" THEN 36
  ELSE IF apc = "speak" THEN 35 ELSE IF apc = "spoken" THEN 34
  ELSE IF apc = "alone" THEN 33
  ELSE IF apc \in Looping THEN (IF playing THEN 33 ELSE 32)
  ELSE IF apc = "results" THEN 9 ELSE IF apc = "exit" THEN 8
  ELSE IF apc = "stop" THEN 7 ELSE IF apc = "close_synth" THEN 6
  ELSE IF apc = "close_recog" THEN 5 ELSE IF apc = "hang_synth" THEN 4
  ELSE IF apc = "hang_recog" THEN 3 ELSE 0

Stage == 20 * Turns + Rank

\* How many the servers and the client task, ...
Bit(b) == IF b THEN 1 ELSE 0

Work(r, a, n, t, k) == 4 * r + 2 * a + n + 2 * t + k

ServerToGo ==
  Work(Len(requests["recog"]), active, Bit(next # "none"),
       Len(requests["synth"]), Bit(speaking))

\* ... and how many the loop has once the recognizer's state is not PROCESSING, or
\* destroy before it goes on.
TurnToGo ==
  IF apc \in Looping
  THEN IF state["recog"] = "PROCESSING" THEN 5
       ELSE IF apc = "prompt" THEN 4 ELSE IF apc = "barge" THEN 3
       ELSE IF apc = "frame" THEN 2 ELSE 1
  ELSE IF \E c \in Channels : Held(c) THEN 1 ELSE 0

Nearer ==
  \/ Stage' < Stage
  \/ Stage' = Stage /\ ServerToGo' < ServerToGo
  \/ Stage' = Stage /\ ServerToGo' = ServerToGo /\ TurnToGo' < TurnToGo

Waits ==
  /\ Stage' = Stage /\ ServerToGo' = ServerToGo /\ TurnToGo' = TurnToGo
  /\ RunReady => RunReady'

\* No step takes a run back, neither its own nor its caller's nor the servers', and
\* the steps RunIsNotStuck names take it on.
RunAdvances ==
  Runs =>
    /\ Nearer \/ Waits
    /\ \/ Run /\ RunReady
       \/ Caller
       \/ FinishMessage \/ SpeakComplete \/ RecognitionComplete
       \/ \E c \in Channels : Held(c) /\ Terminated(c)
       => Nearer

LEMMA CountedStep == ASSUME SarTypeOK, Counted, [SarNext]_sarVars PROVE Counted'
  <1> USE DEF SarTypeOK, RunOK, Counted
  <1>1. CASE ChannelsIdle
    <2>1. CASE Prompts \/ PlayFile \/ PlayText \/ Sent \/ BargeInFile
      <3>1. CASE Prompts
        BY <3>1 DEF Prompts, ExitWith, promptVars
      <3>2. CASE PlayFile \/ PlayText \/ Sent \/ BargeInFile
        BY <3>2 DEF PlayFile, PlayText, Sent, BargeInFile, ExitWith, promptVars
      <3> QED
        BY <2>1, <3>1, <3>2
    <2>3. CASE PlayedAlone \/ PromptAdvances
      <3>1. CASE \E a \in {"alone", "barge"} : NextPrompt(a)
        <4>1. prompts' > 0
          BY <3>1 DEF NextPrompt
        <4> QED
          BY <4>1
      <3>2. CASE PromptsOver("start")
        BY <3>2, Zenon DEF PromptsOver
      <3> QED
        BY <2>3, <3>1, <3>2 DEF PlayedAlone, PromptAdvances
    <2>2. CASE UNCHANGED promptVars
      BY <2>2 DEF promptVars
    <2> QED
      BY <1>1, <2>1, <2>2, <2>3
         DEF ChannelsIdle, BadCall, NextGrammar, Defined, Content, Spoken, AloneFails, Listen,
             ListenFails, PromptGoesOn, NoBargeIn, Frame, FrameRefused, NullFrame,
             ExitKeeps, ExitDestroy, HangUp, Goto, Loaded, ExitWith
  <1>2. CASE ChannelsUsed
    <2>1. CASE Exec \/ PromptsEnd \/ BargeInText \/ Results
      BY <2>1 DEF Exec, PromptsEnd, PromptsOver, BargeInText, Results
    <2>2. CASE UNCHANGED promptVars
      BY <2>2 DEF promptVars
    <2> QED
      BY <1>2, <2>1, <2>2
         DEF ChannelsUsed, CreateRecog, OpenRecog, Define, Release, CreateSynth, OpenSynth,
             Speak, Start, ExitStop, Stopped, CloseSynth, CloseRecog, Goto, Loaded, ExitWith
  <1>3. CASE UNCHANGED promptVars
    BY <1>3 DEF promptVars
  <1> QED
    BY <1>1, <1>2, <1>3, Steps
       DEF SynthMessage, RecogMessage, AnswerSpeak, AnswerStop, SpeakComplete,
           OtherSynthEvent, SynthSets, FinishMessage, AnswerRecognize, AnswerDefine,
           AnswerTimers, RecognitionComplete, StartOfInput, OtherRecogEvent, Terminated,
           appVars, sarVars

\* A step of the application's thread that has the loop go round, or end.
LEMMA StaysInLoop ==
  ASSUME SarTypeOK, ChannelsIdle, Recognizing'
  PROVE  Recognizing
  <1> USE DEF SarTypeOK, RunOK, Recognizing, Looping, Playing, Texts
  <1>1. CASE PlayFile \/ PlayText \/ PlayedAlone \/ Sent \/ PromptAdvances
    BY <1>1
       DEF PlayFile, PlayText, PlayedAlone, Sent, PromptAdvances, NextPrompt, PromptsOver,
           ExitWith
  <1>2. CASE Content \/ Spoken
    BY <1>2 DEF Content, Spoken, Goto, ExitWith, promptVars
  <1>3. CASE Listen \/ PromptGoesOn \/ BargeInFile \/ NoBargeIn \/ Frame
    BY <1>3 DEF Listen, PromptGoesOn, BargeInFile, NoBargeIn, Frame, BargeIn
  <1>4. CASE BadCall \/ NextGrammar \/ Defined \/ Prompts
    BY <1>4 DEF BadCall, NextGrammar, Defined, Prompts, Goto, Loaded, ExitWith, promptVars
  <1>5. CASE AloneFails \/ ListenFails \/ FrameRefused \/ NullFrame \/ ExitKeeps
             \/ ExitDestroy \/ HangUp
    BY <1>5
       DEF AloneFails, ListenFails, FrameRefused, NullFrame, ExitKeeps, ExitDestroy, HangUp,
           Goto, ExitWith
  <1> QED
    BY <1>1, <1>2, <1>3, <1>4, <1>5 DEF ChannelsIdle

LEMMA UsedAttended ==
  ASSUME SarTypeOK, ChanInv, Attended, ChannelsUsed
  PROVE  Attended'
  <1>0. ChansOK /\ "synth" \in Channels /\ "recog" \in Channels
    BY DEF SarTypeOK, Channels
  <1>1. CASE Exec \/ CreateRecog \/ OpenRecog \/ Define
    <2>1. ~Recognizing'
      BY <1>1
         DEF Exec, CreateRecog, OpenRecog, Define, Goto, Loaded, ExitWith, Recognizing,
             Looping, Playing, Texts
    <2>2. UNCHANGED <<speaking, active, next>>
      BY <1>1 DEF Exec, CreateRecog, OpenRecog, Define, Aside, serverVars
    <2>3. chan'["synth"] = chan["synth"]
      BY <1>0, <1>1
         DEF Exec, CreateRecog, OpenRecog, Define, Create, Opened, OpenFailed, Aside,
             chanVars, ChansOK, Channels
    <2>4. CASE chan'["recog"] = chan["recog"]
      BY <2>1, <2>2, <2>3, <2>4 DEF Attended
    <2>5. CASE CreateRecog \/ OpenRecog
      <3>1. UNCHANGED chan \/ chan["recog"] = "null" \/ state["recog"] = "CLOSED"
        BY <2>5 DEF CreateRecog, OpenRecog, Create, Aside, chanVars, ChanInv, Opening
      <3> QED
        BY <1>0, <2>1, <2>2, <2>3, <3>1 DEF ChanInv, Quiet, Attended
    <2> QED
      BY <1>1, <2>4, <2>5 DEF Exec, Define, chanVars
  <1>2. CASE Release \/ CreateSynth \/ OpenSynth
    <2>1. UNCHANGED <<active, next>> /\ chan'["recog"] = chan["recog"]
          /\ state'["recog"] = state["recog"]
      BY <1>0, <1>2
         DEF Release, CreateSynth, OpenSynth, Freed, Create, Opened, OpenFailed, SetState,
             Aside, chanVars, serverVars, ChansOK
    <2>2. Recognizing' => Recognizing
      BY <1>2
         DEF SarTypeOK, RunOK, Release, CreateSynth, OpenSynth, Goto, ExitWith, promptVars,
             Recognizing, Looping, Playing, Texts
    <2>3. speaking' => chan'["synth"] = "opened"
      BY <1>0, <1>2
         DEF Release, CreateSynth, OpenSynth, Freed, Create, Opened, OpenFailed, Aside,
             chanVars, serverVars, ChansOK, ChanInv, Opening, Quiet, Attended
    <2> QED
      BY <2>1, <2>2, <2>3 DEF Attended
  <1>3. CASE Start
    <2>1. UNCHANGED <<chan, state, active, next, speaking>>
          /\ (apc' = "exit" \/ state["recog"] = "READY")
      BY <1>3 DEF Start, serverVars
    <2>2. apc' = "exit" => ~Recognizing'
      BY DEF Recognizing, Looping, Playing, Texts
    <2> QED
      BY <2>1, <2>2 DEF Attended
  <1>4. CASE Speak \/ PromptsEnd \/ BargeInText \/ Results
    <2>1. UNCHANGED <<chan, state, active, next, speaking>>
      BY <1>4 DEF Speak, PromptsEnd, BargeInText, Results, chanVars, serverVars
    <2>2. Recognizing' => Recognizing
      BY <1>4
         DEF Speak, PromptsEnd, BargeInText, BargeIn, Results, PromptsOver, Goto, ExitWith,
             promptVars, Recognizing, Looping, Playing, Texts
    <2> QED
      BY <2>1, <2>2 DEF Attended
  <1>5. CASE ExitStop \/ Stopped \/ CloseSynth \/ CloseRecog
    <2>1. ~Recognizing'
      BY <1>5
         DEF ExitStop, Stopped, CloseSynth, CloseRecog, Goto, Recognizing, Looping, Playing,
             Texts
    <2> QED
      BY <1>0, <1>5, <2>1
         DEF ExitStop, Stopped, CloseSynth, CloseRecog, Freed, serverVars, ChansOK, ChanInv,
             Quiet, Attended
  <1> QED
    BY <1>1, <1>2, <1>3, <1>4, <1>5 DEF ChannelsUsed

LEMMA ClientAttended ==
  ASSUME SarTypeOK, Attended,
         SynthMessage \/ RecogMessage \/ Terminated("synth") \/ Terminated("recog")
  PROVE  Attended'
  <1>0. ChansOK /\ "synth" \in Channels /\ "recog" \in Channels
        /\ active \in Nat
    BY DEF SarTypeOK, RunOK, Channels
  <1>1. UNCHANGED <<chan, appVars>> /\ Recognizing' = Recognizing
    BY DEF SynthMessage, RecogMessage, AnswerSpeak, AnswerStop, SpeakComplete,
       OtherSynthEvent, SynthSets, FinishMessage, AnswerRecognize, AnswerDefine,
       AnswerTimers, RecognitionComplete, StartOfInput, OtherRecogEvent, Terminated,
       chanVars, appVars, promptVars, Recognizing
  <1>2. CASE SynthMessage
    BY <1>0, <1>1, <1>2
       DEF SynthMessage, AnswerSpeak, AnswerStop, SpeakComplete, OtherSynthEvent, SynthSets,
           Answers, Up, SetState, ChansOK, Attended
  <1>3. CASE Terminated("synth") \/ Terminated("recog")
    BY <1>0, <1>1, <1>3 DEF Terminated, SetState, ChansOK, Attended
  <1>4. CASE AnswerRecognize \/ AnswerDefine \/ AnswerTimers
    BY <1>0, <1>1, <1>4
       DEF AnswerRecognize, AnswerDefine, AnswerTimers, Answers, Up, RecogSets,
           StoresThenSets, SetState, serverVars, dataVars, ChansOK, Attended
  <1>5. CASE FinishMessage \/ RecognitionComplete \/ StartOfInput \/ OtherRecogEvent
    BY <1>0, <1>1, <1>5
       DEF FinishMessage, RecognitionComplete, StartOfInput, OtherRecogEvent, Up, RecogSets,
           StoresThenSets, SetState, chanVars, serverVars, RunOK, SarTypeOK, ChansOK, Attended
  <1> QED
    BY <1>2, <1>3, <1>4, <1>5 DEF RecogMessage

LEMMA AttendedStep ==
  ASSUME SarInv, Attended, [SarNext]_sarVars PROVE Attended'
  <1>1. CASE ChannelsIdle
    <2>1. UNCHANGED <<chan, state, speaking, active, next>>
      BY <1>1, IdleIsAside DEF Aside, chanVars, serverVars
    <2> QED
      BY <1>1, <2>1, StaysInLoop DEF SarInv, Attended
  <1>2. CASE UNCHANGED sarVars
    BY <1>2 DEF sarVars, chanVars, appVars, promptVars, serverVars, Attended, Recognizing
  <1> QED
    BY <1>1, <1>2, UsedAttended, ClientAttended, Steps DEF SarInv

LEMMA AlwaysAttended == SarSpec => [](Attended /\ Counted)
  <1>1. SarInit => Attended /\ Counted
    BY DEF SarInit, Attended, Counted, Recognizing, Looping, Playing, Texts
  <1>2. SarInv /\ Attended /\ Counted /\ [SarNext]_sarVars => Attended' /\ Counted'
    BY AttendedStep, CountedStep DEF SarInv
  <1> QED
    BY <1>1, <1>2, SarAlways, PTL DEF SarSpec

\* A run waits for nothing that nobody owes: the loops of app_synthandrecog_exec and
\* of the prompts played before it, and destroy, which have no timeout.
THEOREM SarIsNotStuck == SarSpec => []RunIsNotStuck
  <1>1. SarInv /\ Attended => RunIsNotStuck
    <2> SUFFICES ASSUME SarInv, Attended, Runs, ~RunReady, next = "none",
                        \A c \in Channels : ~Held(c)
                 PROVE  \/ apc = "alone" /\ Up("synth") /\ speaking
                        \/ apc \in Looping /\ Up("recog") /\ active > 0
      BY DEF RunIsNotStuck
    <2>1. CASE apc = "alone" /\ state["synth"] = "PROCESSING"
      BY <2>1 DEF SarInv, VoiceInv, Voice, Attended, Up
    <2>2. CASE apc \in Looping /\ state["recog"] = "PROCESSING"
      BY <2>2 DEF Recognizing, Attended, Up
    <2> QED
      BY <2>1, <2>2 DEF RunReady
  <1> QED
    BY <1>1, SarAlways, AlwaysAttended, PTL

\* A run that goes to a lower rank comes nearer its end, and so does one that has one
\* prompt less.
LEMMA LowerRank ==
  ASSUME RunOK, RunOK', Rank' < Rank,
         \/ apc \in Setup \/ apc' \in Leaving
         \/ apc' \notin Setup /\ apc \notin Leaving /\ prompts' = prompts
  PROVE  Stage' < Stage
  <1>1. Turns \in 0..MaxPrompts /\ Turns' \in 0..MaxPrompts
    BY DEF RunOK, Turns
  <1>2. Rank \in 0..48 /\ Rank' \in 0..48
    BY DEF Rank
  <1>3. Turns' <= Turns
    <2>1. CASE apc \in Setup
      BY <1>1, <2>1 DEF Turns
    <2>2. CASE apc' \in Leaving
      <3>1. Turns' = 0
        BY <2>2 DEF Turns, Setup, Leaving
      <3> QED
        BY <1>1, <3>1
    <2>3. CASE apc' \notin Setup /\ apc \notin Leaving /\ prompts' = prompts /\ apc \notin Setup
      <3>1. Turns = prompts /\ Turns' \in {0, prompts} /\ prompts \in Nat
        BY <2>3 DEF Turns, RunOK
      <3> QED
        BY <3>1
    <2> QED
      BY <2>1, <2>2, <2>3
  <1>4. \A a, b \in 0..MaxPrompts, r, t \in 0..48 :
          b <= a /\ t < r => 20 * b + t < 20 * a + r
    OBVIOUS
  <1> QED
    BY <1>1, <1>2, <1>3, <1>4 DEF Stage

LEMMA FewerPrompts ==
  ASSUME RunOK, RunOK', apc \notin Setup \cup Leaving, apc' \notin Setup,
         prompts' < prompts, Rank' < Rank + 20
  PROVE  Stage' < Stage
  <1>1. Turns = prompts /\ Turns' \in {0, prompts'} /\ prompts \in Nat /\ prompts' \in Nat
    BY DEF Turns, RunOK
  <1>2. Rank \in 0..48 /\ Rank' \in 0..48
    BY DEF Rank
  <1>3. Turns' < Turns /\ Turns \in Nat /\ Turns' \in Nat
    BY <1>1
  <1>4. \A a, b \in Nat, r, t \in 0..48 :
          b < a /\ t < r + 20 => 20 * b + t < 20 * a + r
    OBVIOUS
  <1> QED
    BY <1>2, <1>3, <1>4 DEF Stage

LEMMA SetupTakesOn ==
  ASSUME SarTypeOK, RunOK',
         CreateRecog \/ OpenRecog \/ NextGrammar \/ Define \/ Defined \/ Prompts
  PROVE  Stage' < Stage
  <1>1. RunOK /\ grammar \in BOOLEAN
    BY DEF SarTypeOK, SarFlagsOK
  <1>2. CASE CreateRecog \/ OpenRecog
    <2>1. \/ apc = "create_recog" /\ apc' \in {"open_recog", "exit"}
          \/ apc = "open_recog" /\ apc' \in {"grammar", "exit"}
      BY <1>2 DEF CreateRecog, OpenRecog, Goto, ExitWith
    <2>2. Rank' < Rank
      BY <2>1 DEF Rank, Looping
    <2> QED
      BY <1>1, <2>1, <2>2, LowerRank DEF Setup
  <1>3. CASE NextGrammar
    <2>1. /\ apc = "grammar"
          /\ \/ ~grammar /\ apc' = "prompts"
             \/ grammar /\ apc' \in {"define", "exit", "crashed"}
      BY <1>3 DEF NextGrammar, Goto, ExitWith
    <2>2. Rank' < Rank
      BY <2>1 DEF Rank, Looping
    <2> QED
      BY <1>1, <2>1, <2>2, LowerRank DEF Setup
  <1>4. CASE Define \/ Defined
    <2>1. /\ apc \in {"define", "defined"}
          /\ \/ apc' = "grammar" /\ ~grammar'
             \/ apc = "define" /\ apc' = "defined"
             \/ apc' = "exit"
      BY <1>4 DEF Define, Defined, Loaded, Goto, ExitWith
    <2>2. Rank' < Rank
      BY <2>1 DEF Rank, Looping
    <2> QED
      BY <1>1, <2>1, <2>2, LowerRank DEF Setup
  <1>5. CASE Prompts
    <2>1. apc = "prompts" /\ apc' \in {"play", "start", "exit"}
      BY <1>5 DEF Prompts, ExitWith
    <2>2. Rank' < Rank
      BY <2>1 DEF Rank, Looping
    <2> QED
      BY <1>1, <2>1, <2>2, LowerRank DEF Setup
  <1> QED
    BY <1>2, <1>3, <1>4, <1>5

LEMMA PlayTakesOn ==
  ASSUME SarTypeOK, RunOK', Ordered,
         \/ PlayFile \/ Release \/ PlayText \/ CreateSynth \/ OpenSynth \/ Content
         \/ Speak \/ Spoken \/ Start \/ Sent
  PROVE  Stage' < Stage
  <1>1. RunOK /\ turn \in {"alone", "listen", "barge"}
    BY DEF SarTypeOK, RunOK
  <1>2. CASE PlayFile \/ Release
    <2>1. /\ \/ apc = "play" /\ apc' \in {"release", turn, "exit"}
             \/ apc = "release" /\ apc' = turn
          /\ apc' = "exit" \/ prompts' = prompts
      BY <1>2 DEF PlayFile, Release, Goto, ExitWith, promptVars
    <2>2. Rank' < Rank
      BY <1>1, <2>1 DEF Rank, Looping
    <2> QED
      BY <1>1, <2>1, <2>2, LowerRank DEF Setup, Leaving
  <1>3. CASE PlayText \/ CreateSynth \/ OpenSynth \/ Content
    <2>1. /\ \/ apc = "play" /\ apc' \in {"create_synth", "content"}
             \/ apc = "create_synth" /\ apc' \in {"open_synth", "exit"}
             \/ apc = "open_synth" /\ apc' \in {"content", "exit"}
             \/ apc = "content" /\ apc' \in {"speak", "exit", "crashed"}
          /\ prompts' = prompts
      BY <1>3 DEF PlayText, CreateSynth, OpenSynth, Content, Goto, ExitWith, promptVars
    <2>2. Rank' < Rank
      BY <2>1 DEF Rank, Looping
    <2> QED
      BY <1>1, <2>1, <2>2, LowerRank DEF Setup, Leaving
  <1>4. CASE Speak \/ Spoken \/ Start \/ Sent
    <2>1. /\ \/ apc = "speak" /\ apc' \in {"spoken", "exit"}
             \/ apc = "spoken" /\ apc' \in {turn, "exit"}
             \/ apc = "start" /\ apc' \in {"sent", "exit"}
             \/ apc = "sent" /\ apc' \in {"play", "listen", "exit"}
          /\ prompts' = prompts
      BY <1>4 DEF Speak, Spoken, Start, Sent, Goto, ExitWith, promptVars
    <2>2. Rank' < Rank
      BY <1>1, <2>1 DEF Rank, Looping
    <2> QED
      BY <1>1, <2>1, <2>2, LowerRank DEF Setup, Leaving
  <1> QED
    BY <1>2, <1>3, <1>4

LEMMA PromptTakesOn ==
  ASSUME SarTypeOK, RunOK', Ordered, Counted,
         PlayedAlone \/ PromptAdvances \/ PromptsEnd \/ BargeInText \/ BargeInFile
  PROVE  Stage' < Stage
  <1>1. RunOK /\ prompts \in Nat
    BY DEF SarTypeOK, RunOK
  <1>2. apc \in {"alone", "prompt", "barge"} /\ playing /\ prompts > 0
    BY DEF PlayedAlone, PromptAdvances, PromptsEnd, BargeInText, BargeInFile, BargeIn,
       Ordered, Counted
  <1>3. CASE PlayedAlone \/ PromptAdvances \/ PromptsEnd
    <2>1. apc' \in {"play", "start", "frame"} /\ prompts' \in {prompts - 1, 0}
      BY <1>3 DEF PlayedAlone, PromptAdvances, PromptsEnd, NextPrompt, PromptsOver
    <2>2. prompts' < prompts
      BY <1>1, <1>2, <2>1
    <2>3. Rank' < Rank + 20
      BY <1>2, <2>1 DEF Rank, Looping
    <2> QED
      BY <1>1, <1>2, <2>1, <2>2, <2>3, FewerPrompts DEF Setup, Leaving
  <1>4. CASE BargeInText \/ BargeInFile
    <2>1. apc = "barge" /\ apc' = "frame" /\ ~playing' /\ prompts' = prompts
      BY <1>4 DEF BargeInText, BargeInFile, BargeIn
    <2>2. Rank' < Rank
      BY <1>2, <2>1 DEF Rank, Looping
    <2> QED
      BY <1>1, <2>1, <2>2, LowerRank DEF Setup, Leaving
  <1> QED
    BY <1>3, <1>4

\* The caller's steps end a loop; mrcp_application_session_terminate is called by the
\* thread, and waited for.
LEMMA ExitTakesOn ==
  ASSUME SarTypeOK, RunOK', Runs,
         \/ AloneFails \/ ListenFails \/ FrameRefused \/ NullFrame \/ Results
         \/ ExitKeeps \/ ExitStop \/ Stopped \/ ExitDestroy \/ CloseSynth \/ CloseRecog
  PROVE  Stage' < Stage
  <1>1. RunOK
    BY DEF SarTypeOK
  <1>2. CASE AloneFails \/ ListenFails \/ FrameRefused \/ NullFrame \/ Results
    <2>1. \/ apc \in Looping \cup {"alone"} /\ apc' \in {"results", "exit"}
          \/ apc = "results" /\ apc' = "exit"
      BY <1>2
         DEF AloneFails, ListenFails, FrameRefused, NullFrame, Results, Goto, ExitWith,
             Looping
    <2>2. Rank' < Rank
      BY <2>1 DEF Rank, Looping
    <2> QED
      BY <1>1, <2>1, <2>2, LowerRank DEF Leaving
  <1>3. CASE ExitKeeps \/ ExitStop \/ Stopped \/ ExitDestroy \/ CloseSynth \/ CloseRecog
    <2>1. \/ apc = "exit" /\ apc' \in {"idle", "stop", "close_synth"}
          \/ apc = "stop" /\ apc' = "close_synth"
          \/ apc = "close_synth" /\ apc' = "close_recog"
          \/ apc = "hang_synth" /\ apc' = "hang_recog"
          \/ apc = "close_recog" /\ apc' = "idle"
          \/ apc = "hang_recog" /\ apc' = "end"
      BY <1>3
         DEF ExitKeeps, ExitStop, Stopped, ExitDestroy, CloseSynth, CloseRecog, Goto
    <2>2. Rank' < Rank
      BY <2>1 DEF Rank, Looping
    <2> QED
      BY <1>1, <2>1, <2>2, LowerRank DEF Leaving
  <1> QED
    BY <1>2, <1>3

\* A turn of the loop leaves a run where it is, unless it is the last.
LEMMA TurnTakesOn ==
  ASSUME SarTypeOK, RunOK', Ordered, Listen \/ PromptGoesOn \/ NoBargeIn \/ Frame
  PROVE  /\ Nearer \/ Waits
         /\ RunReady => Nearer
  <1>1. /\ apc \in Looping
        /\ UNCHANGED <<prompts, playing, chan, state, requests, speaking, active, next>>
    BY IdleIsAside
       DEF Listen, PromptGoesOn, NoBargeIn, Frame, Goto, promptVars, Aside, chanVars,
           serverVars, Looping
  <1>2. CASE apc' = "results"
    <2>1. Rank' < Rank
      BY <1>1, <1>2 DEF Rank, Looping
    <2> QED
      BY <1>2, <2>1, LowerRank DEF SarTypeOK, Leaving, Nearer
  <1>3. CASE apc' \in Looping
    <2>1. Stage' = Stage
      <3>1. Turns' = Turns /\ Rank' = Rank
        BY <1>1, <1>3 DEF Turns, Rank, Setup, Leaving, Looping
      <3> QED
        BY <3>1 DEF Stage
    <2>2. ServerToGo' = ServerToGo
      BY <1>1 DEF ServerToGo
    <2>3. CASE state["recog"] = "PROCESSING"
      <3>1. TurnToGo' = TurnToGo
        BY <1>1, <1>3, <2>3 DEF TurnToGo
      <3>2. ~RunReady
        BY <1>1, <2>3 DEF RunReady
      <3> QED
        BY <2>1, <2>2, <3>1, <3>2 DEF Waits
    <2>4. CASE state["recog"] # "PROCESSING"
      <3>1. \/ apc = "prompt" /\ apc' = "barge"
            \/ apc = "barge" /\ apc' = "frame"
            \/ apc = "frame" /\ apc' = "listen"
        BY <1>3, <2>4 DEF Listen, PromptGoesOn, NoBargeIn, Frame, Goto, Looping
      <3>2. TurnToGo' < TurnToGo
        BY <1>1, <1>3, <2>4, <3>1 DEF TurnToGo
      <3> QED
        BY <2>1, <2>2, <3>2 DEF Nearer
    <2> QED
      BY <2>3, <2>4
  <1> QED
    BY <1>2, <1>3 DEF Listen, PromptGoesOn, NoBargeIn, Frame, Goto, Looping

LEMMA ClientStays ==
  ASSUME SynthMessage \/ RecogMessage \/ Terminated("synth") \/ Terminated("recog")
  PROVE  UNCHANGED <<chan, apc, file>> /\ Stage' = Stage
  <1>1. UNCHANGED <<chan, appVars>>
    BY DEF SynthMessage, RecogMessage, AnswerSpeak, AnswerStop, SpeakComplete,
       OtherSynthEvent, SynthSets, FinishMessage, AnswerRecognize, AnswerDefine,
       AnswerTimers, RecognitionComplete, StartOfInput, OtherRecogEvent, Terminated, chanVars
  <1> QED
    BY <1>1 DEF appVars, argVars, promptVars, Stage, Turns, Rank

\* A server has one message less to send with each that it sends, ...
LEMMA WorkFalls ==
  ASSUME NEW r \in Nat, NEW a \in Nat, NEW t \in Nat,
         NEW n \in {0, 1}, NEW m \in {0, 1}, NEW k \in {0, 1}, NEW l \in {0, 1}
  PROVE  /\ t > 0 => Work(r, a, n, t - 1, l) < Work(r, a, n, t, k)
         /\ Work(r, a, n, t, 0) < Work(r, a, n, t, 1)
         /\ r > 0 => /\ Work(r - 1, a, m, t, k) < Work(r, a, 0, t, k)
                     /\ Work(r - 1, a + 1, m, t, k) < Work(r, a, 0, t, k)
         /\ a > 0 => Work(r, a - 1, m, t, k) < Work(r, a, 0, t, k)
         /\ Work(r, a, 0, t, k) < Work(r, a, 1, t, k)
  BY DEF Work

LEMMA ServerSends ==
  ASSUME SarTypeOK, RunOK', SynthMessage \/ RecogMessage
  PROVE  \/ ServerToGo' < ServerToGo
         \/ /\ OtherSynthEvent \/ StartOfInput \/ OtherRecogEvent
            /\ ServerToGo' = ServerToGo
  <1> DEFINE r == Len(requests["recog"])
             t == Len(requests["synth"])
             n == Bit(next # "none")
             k == Bit(speaking)
  <1>0. /\ ChansOK /\ requests["synth"] \in Seq(Methods) /\ requests["recog"] \in Seq(Methods)
        /\ "synth" \in Channels /\ "recog" \in Channels
    BY DEF SarTypeOK, ChansOK, Channels
  <1>1. /\ t \in Nat /\ r \in Nat /\ active \in Nat
        /\ k \in {0, 1} /\ k' \in {0, 1} /\ n \in {0, 1} /\ n' \in {0, 1}
    BY <1>0, LenProperties DEF SarTypeOK, RunOK, Bit
  <1>2. /\ ServerToGo = Work(r, active, n, t, k)
        /\ ServerToGo' = Work(r', active', n', t', k')
    BY DEF ServerToGo
  <1>3. CASE AnswerSpeak \/ AnswerStop
    <2>1. /\ requests["synth"] # <<>> /\ requests'["synth"] = Tail(requests["synth"])
          /\ requests'["recog"] = requests["recog"]
          /\ UNCHANGED <<next, active>>
      BY <1>0, <1>3 DEF AnswerSpeak, AnswerStop, Answers, SynthSets, ChansOK
    <2>2. t' = t - 1 /\ t > 0
      BY <1>0, <2>1, HeadTailProperties, EmptySeq
    <2>3. r' = r /\ n' = n
      BY <2>1
    <2> HIDE DEF r, t, n, k
    <2> QED
      BY <1>1, <1>2, <2>1, <2>2, <2>3, WorkFalls
  <1>4. CASE SpeakComplete
    <2>1. UNCHANGED <<requests, next, active>> /\ speaking /\ ~speaking'
      BY <1>4 DEF SpeakComplete, SynthSets
    <2>2. r' = r /\ n' = n /\ t' = t /\ k = 1 /\ k' = 0
      BY <2>1 DEF Bit
    <2> HIDE DEF r, t, n, k
    <2> QED
      BY <1>1, <1>2, <2>1, <2>2, WorkFalls
  <1>5. CASE AnswerRecognize \/ AnswerDefine \/ AnswerTimers
    <2>1. /\ requests["recog"] # <<>> /\ requests'["recog"] = Tail(requests["recog"])
          /\ requests'["synth"] = requests["synth"]
          /\ next = "none" /\ UNCHANGED speaking /\ active' \in {active, active + 1}
      BY <1>0, <1>1, <1>5
         DEF AnswerRecognize, AnswerDefine, AnswerTimers, Answers, Up, serverVars, ChansOK
    <2>2. r' = r - 1 /\ r > 0
      BY <1>0, <2>1, HeadTailProperties, EmptySeq
    <2>3. t' = t /\ k' = k /\ n = 0
      BY <2>1 DEF Bit
    <2> HIDE DEF r, t, n, k
    <2> QED
      BY <1>1, <1>2, <2>1, <2>2, <2>3, WorkFalls
  <1>6. CASE RecognitionComplete
    <2>1. /\ UNCHANGED <<requests, speaking>> /\ active' = active - 1 /\ active > 0
          /\ next = "none"
      BY <1>6 DEF RecognitionComplete, Up
    <2>2. r' = r /\ t' = t /\ k' = k /\ n = 0
      BY <2>1 DEF Bit
    <2> HIDE DEF r, t, n, k
    <2> QED
      BY <1>1, <1>2, <2>1, <2>2, WorkFalls
  <1>7. CASE FinishMessage
    <2>1. UNCHANGED <<requests, speaking, active>> /\ next # "none" /\ next' = "none"
      BY <1>7 DEF FinishMessage, serverVars
    <2>2. r' = r /\ t' = t /\ k' = k /\ n = 1 /\ n' = 0
      BY <2>1 DEF Bit
    <2> HIDE DEF r, t, n, k
    <2> QED
      BY <1>1, <1>2, <2>1, <2>2, WorkFalls
  <1>8. CASE OtherSynthEvent \/ StartOfInput \/ OtherRecogEvent
    <2>1. UNCHANGED <<requests, speaking, active, next>>
      BY <1>8
         DEF OtherSynthEvent, SynthSets, StartOfInput, OtherRecogEvent, RecogSets, chanVars,
             serverVars
    <2> QED
      BY <1>8, <2>1 DEF ServerToGo
  <1> QED
    BY <1>3, <1>4, <1>5, <1>6, <1>7, <1>8 DEF SynthMessage, RecogMessage

\* ... and a message that is not the last leaves a run what it could do.
LEMMA MessageTakesOn ==
  ASSUME SarTypeOK, RunOK', SynthMessage \/ RecogMessage
  PROVE  /\ Nearer \/ Waits
         /\ FinishMessage \/ SpeakComplete \/ RecognitionComplete => Nearer
  <1>1. UNCHANGED <<chan, apc, file>> /\ Stage' = Stage
    BY ClientStays
  <1>2. CASE ServerToGo' < ServerToGo
    BY <1>1, <1>2 DEF Nearer
  <1>3. CASE (OtherSynthEvent \/ StartOfInput \/ OtherRecogEvent) /\ ServerToGo' = ServerToGo
    <2>0. "synth" \in Channels /\ "recog" \in Channels /\ ChansOK
      BY DEF SarTypeOK, Channels
    <2>1. \/ UNCHANGED state
          \/ \E c \in Channels : state[c] # "CLOSED" /\ state' = [state EXCEPT ![c] = "ERROR"]
      BY <1>3, <2>0
         DEF OtherSynthEvent, StartOfInput, OtherRecogEvent, SynthSets, RecogSets, SetState,
             Up, chanVars
    <2>2. \A c \in Channels : /\ Held(c)' = Held(c)
                              /\ state'[c] = "PROCESSING" => state[c] = "PROCESSING"
      BY <1>1, <2>0, <2>1 DEF Held, Closing, ChansOK
    <2>3. RunReady => RunReady'
      BY <1>1, <2>0, <2>2 DEF RunReady, Runs
    <2>4. TurnToGo' = TurnToGo \/ TurnToGo' < TurnToGo
      <3>1. CASE apc \in Looping
        BY <1>1, <2>0, <2>2, <3>1 DEF TurnToGo
      <3>2. CASE apc \notin Looping
        BY <1>1, <2>2, <3>2 DEF TurnToGo
      <3> QED
        BY <3>1, <3>2
    <2>5. ~FinishMessage /\ ~RecognitionComplete
      BY <1>3
         DEF OtherSynthEvent, StartOfInput, OtherRecogEvent, Up, SynthSets, RecogSets,
             FinishMessage, RecognitionComplete, StoresThenSets
    <2>6. ~SpeakComplete
      BY <1>3, <2>0
         DEF OtherSynthEvent, StartOfInput, OtherRecogEvent, SynthSets, SpeakComplete,
             serverVars, chanVars
    <2> QED
      BY <1>1, <1>3, <2>3, <2>4, <2>5, <2>6 DEF Nearer, Waits
  <1> QED
    BY <1>2, <1>3, ServerSends

\* The end of a session leaves its server nothing to do.
LEMMA EndTakesOn ==
  ASSUME SarTypeOK, RunOK', NEW c \in Channels, Terminated(c)
  PROVE  /\ Nearer \/ Waits
         /\ Held(c) => Nearer
  <1>0. /\ ChansOK /\ requests["synth"] \in Seq(Methods) /\ requests["recog"] \in Seq(Methods)
        /\ active \in Nat
    BY DEF SarTypeOK, RunOK, ChansOK, Channels
  <1>1. UNCHANGED <<chan, apc, file, next>> /\ Stage' = Stage
    BY ClientStays DEF Terminated, Channels
  <1>2. ServerToGo' = ServerToGo \/ ServerToGo' < ServerToGo
    <2> DEFINE r == Len(requests["recog"])
               t == Len(requests["synth"])
               k == Bit(speaking)
    <2>1. r \in Nat /\ t \in Nat /\ k \in {0, 1} /\ k' \in {0, 1} /\ next = "none"
      BY <1>0, LenProperties DEF Bit, Terminated
    <2>2. /\ c = "synth" => r' = r /\ active' = active /\ t' = 0 /\ k' = 0
          /\ c = "recog" => r' = 0 /\ active' = 0 /\ t' = t /\ k' = k
      <3>1. Len(<<>>) = 0
        OBVIOUS
      <3> QED
        BY <1>0, <3>1 DEF Terminated, ChansOK, Channels, Bit
    <2>3. /\ ServerToGo = Work(r, active, Bit(next # "none"), t, k)
          /\ ServerToGo' = Work(r', active', Bit(next # "none"), t', k')
          /\ Bit(next # "none") = 0
      BY <1>1, <2>1 DEF ServerToGo, Bit
    <2> HIDE DEF r, t, k
    <2>4. Work(r', active', 0, t', k') <= Work(r, active, 0, t, k)
      BY <1>0, <2>1, <2>2 DEF Work, Channels
    <2>5. Work(r', active', 0, t', k') \in Nat /\ Work(r, active, 0, t, k) \in Nat
      BY <1>0, <2>1, <2>2 DEF Work, Channels
    <2> QED
      BY <2>3, <2>4, <2>5
  <1>3. /\ state[c] # "CLOSED" /\ state' = [state EXCEPT ![c] = "CLOSED"]
        /\ Closing(c) \/ chan[c] = "failed"
    BY DEF Terminated, SetState
  <1>4. /\ ~Held(c)'
        /\ \A d \in Channels : /\ Held(d)' => Held(d)
                               /\ d # c => Held(d)' = Held(d)
                               /\ state'[d] = "PROCESSING" => state[d] = "PROCESSING"
    BY <1>0, <1>1, <1>3 DEF Held, Closing, ChansOK
  <1>5. RunReady => RunReady'
    BY <1>1, <1>4 DEF RunReady, Runs, Channels
  <1>6. CASE Held(c)
    <2>1. apc \notin Looping /\ \A d \in Channels : Held(d) => d = c
      BY <1>6 DEF Held, Closing, Looping, Channels
    <2>2. TurnToGo' < TurnToGo
      BY <1>1, <1>4, <1>6, <2>1 DEF TurnToGo
    <2> QED
      BY <1>1, <1>2, <2>2 DEF Nearer
  <1>7. CASE ~Held(c)
    <2>1. TurnToGo' = TurnToGo \/ TurnToGo' < TurnToGo
      <3>1. CASE apc \in Looping
        BY <1>1, <1>4, <3>1 DEF TurnToGo, Channels
      <3>2. CASE apc \notin Looping
        BY <1>1, <1>4, <1>7, <3>2 DEF TurnToGo
      <3> QED
        BY <3>1, <3>2
    <2> QED
      BY <1>1, <1>2, <1>5, <1>7, <2>1 DEF Nearer, Waits
  <1> QED
    BY <1>6, <1>7

\* The measures do not go below zero, so that a run is taken on only so often.
LEMMA SarMeasures ==
  SarSpec => [](Stage \in Nat /\ ServerToGo \in Nat /\ TurnToGo \in Nat)
  <1>1. SarInv => Stage \in Nat /\ ServerToGo \in Nat /\ TurnToGo \in Nat
    <2> SUFFICES ASSUME SarInv
                 PROVE  Stage \in Nat /\ ServerToGo \in Nat /\ TurnToGo \in Nat
      OBVIOUS
    <2>1. Turns \in Nat /\ Rank \in Nat
      BY DEF SarInv, SarTypeOK, RunOK, Turns, Rank
    <2>2. Len(requests["recog"]) \in Nat /\ Len(requests["synth"]) \in Nat
      <3>1. \A c \in Channels : requests[c] \in Seq(Methods)
        BY DEF SarInv, SarTypeOK, ChansOK
      <3>2. QED
        BY <3>1, LenProperties DEF Channels
    <2>3. active \in Nat /\ Bit(next # "none") \in Nat /\ Bit(speaking) \in Nat
      BY DEF SarInv, SarTypeOK, RunOK, Bit
    <2>4. TurnToGo \in Nat
      BY DEF TurnToGo
    <2>5. Stage \in Nat
      BY <2>1 DEF Stage
    <2>6. \A r, a, n, t, k \in Nat : Work(r, a, n, t, k) \in Nat
      BY DEF Work
    <2>7. ServerToGo \in Nat
      BY <2>2, <2>3, <2>6 DEF ServerToGo
    <2> QED
      BY <2>4, <2>5, <2>7
  <1> QED
    BY <1>1, SarAlways, PTL

\* Every run of app_synthandrecog_exec comes nearer its end with each step that it
\* waits for, and nothing the servers may say takes it back.
THEOREM SarRunsAdvance == SarSpec => [][RunAdvances]_sarVars
  <1>1. SarInv /\ SarInv' /\ Counted /\ SarNext => RunAdvances \/ UNCHANGED sarVars
    <2> SUFFICES ASSUME SarInv, SarInv', Counted, SarNext, Runs, ~UNCHANGED sarVars
                 PROVE  /\ Nearer \/ Waits
                        /\ \/ Run /\ RunReady
                           \/ Caller
                           \/ FinishMessage \/ SpeakComplete \/ RecognitionComplete
                           \/ \E c \in Channels : Held(c) /\ Terminated(c)
                           => Nearer
      BY DEF RunAdvances
    <2> DEFINE Turn == Listen \/ PromptGoesOn \/ NoBargeIn \/ Frame
    <2>0. SarTypeOK /\ RunOK' /\ Ordered
      BY DEF SarInv, SarTypeOK, VoiceInv
    <2>1. Turn => /\ Nearer \/ Waits
                  /\ RunReady => Nearer
      BY <2>0, TurnTakesOn
    <2>2. SynthMessage \/ RecogMessage =>
            /\ Nearer \/ Waits
            /\ FinishMessage \/ SpeakComplete \/ RecognitionComplete => Nearer
      BY <2>0, MessageTakesOn
    <2>3. ASSUME NEW c \in Channels, Terminated(c)
          PROVE  (Nearer \/ Waits) /\ (Held(c) => Nearer)
      BY <2>0, <2>3, EndTakesOn
    <2>4. ~BadCall /\ ~Exec /\ ~HangUp
      BY DEF BadCall, Exec, HangUp, Runs
    <2>5. Run /\ ~Turn => Nearer
      BY <2>0, SetupTakesOn, PlayTakesOn, PromptTakesOn, ExitTakesOn DEF Run, Nearer
    <2>6. Caller => Nearer
      BY <2>0, <2>4, ExitTakesOn DEF Caller, Nearer
    <2>7. Run \/ Caller \/ ClientTask
      BY DEF SarNext, Over
    <2>8. ClientTask => \/ SynthMessage \/ RecogMessage
                        \/ \E c \in Channels : Terminated(c)
      BY DEF ClientTask, SynthMessage, RecogMessage
    <2> HIDE DEF Turn
    <2> QED
      BY <2>1, <2>2, <2>3, <2>5, <2>6, <2>7, <2>8 DEF SynthMessage, RecogMessage
  <1> QED
    BY <1>1, SarAlways, AlwaysAttended, PTL DEF SarSpec

-----------------------------------------------------------------------------
(* The runs on the entry.                                                  *)

EntryVars == <<EntryAt, EntryUses, EntryLasting, EntryHeld>>

\* Only a dynamic run gives the synthesizer back, or destroys the channels.
Dynamic == apc \in {"release", "stop", "close_synth", "close_recog"} => ~plt

LEMMA SarDynamic == SarSpec => []Dynamic
  <1>1. SarInit => Dynamic
    BY DEF SarInit, Dynamic
  <1>2. SarTypeOK /\ Dynamic /\ [SarNext]_sarVars => Dynamic'
    <2> SUFFICES ASSUME SarTypeOK, Dynamic, [SarNext]_sarVars PROVE Dynamic'
      OBVIOUS
    <2>0. turn \notin {"release", "stop", "close_synth", "close_recog"}
      BY DEF SarTypeOK, RunOK
    <2> USE DEF Dynamic, Goto, ExitWith, argVars
    <2>1. CASE ChannelsIdle
      <3>1. CASE BadCall \/ NextGrammar \/ Defined \/ Prompts \/ PlayFile \/ PlayText
                 \/ Content \/ Spoken \/ PlayedAlone \/ AloneFails \/ Sent
        BY <3>1, <2>0
           DEF BadCall, NextGrammar, Defined, Loaded, Prompts, PlayFile, PlayText, Content,
               Spoken, PlayedAlone, NextPrompt, PromptsOver, AloneFails, Sent
      <3>2. CASE ~(BadCall \/ NextGrammar \/ Defined \/ Prompts \/ PlayFile \/ PlayText
                   \/ Content \/ Spoken \/ PlayedAlone \/ AloneFails \/ Sent)
        BY <2>1, <3>2
           DEF ChannelsIdle, Listen, ListenFails, PromptGoesOn, PromptAdvances, NextPrompt,
               BargeInFile, NoBargeIn, Frame, FrameRefused, NullFrame, ExitKeeps,
               ExitDestroy, HangUp
      <3> QED
        BY <3>1, <3>2
    <2>2. CASE ChannelsUsed
      BY <2>2, <2>0
         DEF ChannelsUsed, Exec, CreateRecog, OpenRecog, CreateSynth, OpenSynth, Release,
             Define, Loaded, Speak, Start, PromptsEnd, PromptsOver, BargeInText, Results,
             ExitStop, Stopped, CloseSynth, CloseRecog
    <2>3. CASE SynthMessage \/ RecogMessage
      BY <2>3
         DEF SynthMessage, AnswerSpeak, AnswerStop, SpeakComplete, OtherSynthEvent,
             SynthSets, RecogMessage, FinishMessage, AnswerRecognize, AnswerDefine,
             AnswerTimers, RecognitionComplete, StartOfInput, OtherRecogEvent, appVars
    <2>4. CASE Terminated("synth") \/ Terminated("recog") \/ UNCHANGED sarVars
      BY <2>4 DEF Terminated, sarVars, appVars
    <2> QED
      BY <2>1, <2>2, <2>3, <2>4, Steps
  <1>3. QED
    BY <1>1, <1>2, SarTypeCorrect, PTL DEF SarSpec

\* What the entry holds, when a channel is created, opened or destroyed.
LEMMA HeldUpdates ==
  ASSUME ChansOK, NEW c \in Channels
  PROVE  /\ chan' = [chan EXCEPT ![c] = "null"] => EntryHeld' = EntryHeld \ {c}
         /\ \A s \in {"new", "failed", "opened"} :
              chan' = [chan EXCEPT ![c] = s] => EntryHeld' = EntryHeld \cup {c}
         /\ chan' = chan => EntryHeld' = EntryHeld
  BY DEF ChansOK, EntryHeld

LEMMA EntryStays ==
  ASSUME plt' = plt, EntryHeld' = EntryHeld,
         \/ apc' = apc
         \/ {apc, apc'} \cap {"idle", "hang_synth", "hang_recog", "end", "crashed"} = {}
  PROVE  UNCHANGED EntryVars
  BY DEF EntryVars, EntryAt, EntryUses, EntryLasting, OnEntry, HangingUp

\* Whatever neither creates nor destroys a channel, and neither begins nor ends
\* a run, is no step of the entry.
LEMMA SarEntryStays ==
  ASSUME SarTypeOK, ChanInv, SarNext,
         ~(Exec \/ CreateRecog \/ NextGrammar \/ CreateSynth \/ Content \/ Release
           \/ ExitKeeps \/ HangUp \/ CloseSynth \/ CloseRecog)
  PROVE  UNCHANGED EntryVars
  <1>0. /\ turn \notin {"idle", "hang_synth", "hang_recog", "end", "crashed"}
        /\ chan' = chan => EntryHeld' = EntryHeld
    BY DEF SarTypeOK, RunOK, EntryHeld
  <1> USE DEF Goto, ExitWith, Aside, argVars, chanVars
  <1>1. CASE ChannelsIdle
    <2>1. chan' = chan
      BY <1>1, IdleIsAside
    <2>2. CASE BadCall \/ Defined \/ Prompts \/ PlayFile \/ PlayText
               \/ Spoken \/ PlayedAlone \/ AloneFails \/ Sent
      BY <2>1, <2>2, <1>0, EntryStays
         DEF BadCall, Defined, Loaded, Prompts, PlayFile, PlayText, Spoken,
             PlayedAlone, NextPrompt, PromptsOver, AloneFails, Sent
    <2>3. CASE Listen \/ ListenFails \/ PromptGoesOn \/ PromptAdvances
               \/ BargeInFile \/ NoBargeIn \/ Frame \/ FrameRefused \/ NullFrame
               \/ ExitDestroy
      BY <2>1, <2>3, <1>0, EntryStays
         DEF Listen, ListenFails, PromptGoesOn, PromptAdvances, NextPrompt, BargeIn,
             BargeInFile, NoBargeIn, Frame, FrameRefused, NullFrame, ExitDestroy
    <2> QED
      BY <1>1, <2>2, <2>3 DEF ChannelsIdle
  <1>2. CASE OpenRecog
    <2>1. EntryHeld' = EntryHeld
      BY <1>2, HeldUpdates
         DEF OpenRecog, Opened, OpenFailed, ChanInv, Opening, EntryHeld, SarTypeOK, Channels
    <2> QED
      BY <1>2, <2>1, EntryStays DEF OpenRecog
  <1>3. CASE OpenSynth
    <2>1. EntryHeld' = EntryHeld
      BY <1>3, HeldUpdates
         DEF OpenSynth, Opened, OpenFailed, ChanInv, Opening, EntryHeld, SarTypeOK, Channels
    <2> QED
      BY <1>3, <2>1, EntryStays DEF OpenSynth
  <1>4. CASE Define \/ Speak \/ Start \/ PromptsEnd \/ BargeInText \/ Results
             \/ ExitStop \/ Stopped
    BY <1>4, <1>0, EntryStays
       DEF Define, Loaded, Speak, Start, PromptsEnd, PromptsOver, BargeInText, BargeIn,
           Results, ExitStop, Stopped
  <1>5. CASE SynthMessage \/ RecogMessage
    BY <1>5, <1>0, EntryStays
       DEF SynthMessage, AnswerSpeak, AnswerStop, SpeakComplete, OtherSynthEvent,
           SynthSets, RecogMessage, FinishMessage, AnswerRecognize, AnswerDefine,
           AnswerTimers, RecognitionComplete, StartOfInput, OtherRecogEvent, appVars
  <1>6. CASE Terminated("synth") \/ Terminated("recog") \/ UNCHANGED sarVars
    BY <1>6, <1>0, EntryStays DEF Terminated, sarVars, appVars
  <1> QED
    BY <1>1, <1>2, <1>3, <1>4, <1>5, <1>6, Steps DEF ChannelsUsed

LEMMA SarEntrySteps ==
  ASSUME SarTypeOK, ChanInv, Dynamic,
         Exec \/ CreateRecog \/ NextGrammar \/ CreateSynth \/ Content \/ Release
           \/ ExitKeeps \/ HangUp \/ CloseSynth \/ CloseRecog
  PROVE  [EntryRuns!Next]_EntryVars
  <1> USE DEF EntryAt, EntryUses, EntryLasting, OnEntry, HangingUp, Goto, ExitWith,
        Aside, argVars, chanVars
  <1>0. /\ ChansOK /\ EntryHeld \subseteq Channels
        /\ turn \in {"alone", "listen", "barge"}
    BY DEF SarTypeOK, RunOK, EntryHeld
  <1>1. CASE Exec
    <2>1. EntryLasting' \in BOOLEAN
      BY <1>1, Zenon DEF Exec
    <2>2. EntryRuns!Begin
      BY <1>1, <2>1, <1>0, HeldUpdates DEF Exec, EntryRuns!Begin, EntryHeld
    <2> QED
      BY <2>2 DEF EntryRuns!Next
  <1>2. CASE CreateRecog \/ CreateSynth
    <2>1. ASSUME NEW c \in Channels, Create(c), plt' = plt,
                 {apc, apc'} \subseteq {"create_recog", "open_recog", "create_synth",
                                        "open_synth"}
          PROVE  EntryRuns!Create
      <3>1. c \notin EntryHeld /\ EntryHeld' = EntryHeld \cup {c}
        BY <2>1, <1>0, HeldUpdates DEF Create, EntryHeld
      <3> QED
        BY <2>1, <3>1 DEF EntryRuns!Create
    <2>2. EntryRuns!Create \/ (UNCHANGED <<chan, plt>> /\ apc' = "exit")
      BY <1>2, <2>1 DEF CreateRecog, CreateSynth, Channels
    <2>3. CASE UNCHANGED <<chan, plt>> /\ apc' = "exit"
      BY <1>2, <2>3, EntryStays DEF CreateRecog, CreateSynth, EntryHeld
    <2> QED
      BY <2>2, <2>3 DEF EntryRuns!Next
  <1>3. CASE NextGrammar \/ Content
    <2>0. EntryHeld' = EntryHeld
      BY <1>3 DEF NextGrammar, Content, EntryHeld
    <2>1. CASE apc' = "crashed"
      <3>1. EntryRuns!Crash
        BY <1>3, <2>0, <2>1 DEF NextGrammar, Content, EntryRuns!Crash
      <3> QED
        BY <3>1 DEF EntryRuns!Next
    <2>2. CASE apc' # "crashed"
      BY <1>3, <2>0, <2>2, EntryStays DEF NextGrammar, Content
    <2> QED
      BY <2>1, <2>2
  <1>4. CASE Release \/ CloseSynth
    <2>1. EntryHeld' = EntryHeld \ {"synth"}
      BY <1>4, <1>0, HeldUpdates DEF Release, CloseSynth, Freed, Channels
    <2>2. /\ UNCHANGED <<EntryAt, EntryUses, EntryLasting>>
          /\ EntryAt = "hangup" \/ (EntryAt = "run" /\ ~EntryLasting /\ EntryUses = Channels)
      BY <1>4, <1>0 DEF Release, CloseSynth, Dynamic
    <2>3. CASE "synth" \in EntryHeld
      <3>1. EntryRuns!Release \/ EntryRuns!Destroy
        BY <2>1, <2>2, <2>3 DEF EntryRuns!Release, EntryRuns!Destroy, Channels
      <3> QED
        BY <3>1 DEF EntryRuns!Next
    <2>4. CASE "synth" \notin EntryHeld
      BY <2>1, <2>2, <2>4 DEF EntryVars
    <2> QED
      BY <2>3, <2>4
  <1>5. CASE ExitKeeps
    <2>1. EntryRuns!Finish
      BY <1>5 DEF ExitKeeps, EntryHeld, EntryRuns!Finish
    <2> QED
      BY <2>1 DEF EntryRuns!Next
  <1>6. CASE HangUp
    <2>1. EntryRuns!HangUp
      BY <1>6 DEF HangUp, EntryHeld, EntryRuns!HangUp
    <2> QED
      BY <2>1 DEF EntryRuns!Next
  <1>7. CASE CloseRecog
    <2>1. EntryHeld' = {}
      <3>1. EntryHeld' = EntryHeld \ {"recog"} /\ "synth" \notin EntryHeld
        BY <1>7, <1>0, HeldUpdates DEF CloseRecog, Freed, Channels, ChanInv, Emptied, EntryHeld
      <3> QED
        BY <3>1, <1>0 DEF Channels
    <2>2. EntryRuns!Finish \/ EntryRuns!Ended
      <3>1. EntryHeld \ Channels = {}
        BY <1>0
      <3> QED
        BY <1>7, <2>1, <3>1 DEF CloseRecog, Dynamic, EntryRuns!Finish, EntryRuns!Ended
    <2> QED
      BY <2>2 DEF EntryRuns!Next
  <1> QED
    BY <1>1, <1>2, <1>3, <1>4, <1>5, <1>6, <1>7

\* Seen from the datastore, SynthAndRecog runs as RunContract says, with two
\* channels of which one may come and go during a run (app_synthandrecog_exec,
\* synthandrecog_exit, app_datastore_destroy).
THEOREM SarKeepsContract == SarSpec => RunsKept
  <1>1. SarInit => EntryRuns!Init
    BY DEF SarInit, EntryRuns!Init, EntryAt, EntryUses, EntryLasting, EntryHeld, OnEntry,
       HangingUp
  <1>2. SarInv /\ Dynamic /\ [SarNext]_sarVars => [EntryRuns!Next]_EntryVars
    <2> SUFFICES ASSUME SarInv, Dynamic, [SarNext]_sarVars
                 PROVE  [EntryRuns!Next]_EntryVars
      OBVIOUS
    <2>1. CASE UNCHANGED sarVars
      BY <2>1, EntryStays DEF sarVars, appVars, argVars, chanVars, EntryHeld
    <2>2. CASE SarNext
      BY <2>2, SarEntryStays, SarEntrySteps DEF SarInv
    <2> QED
      BY <2>1, <2>2
  <1> QED
    BY <1>1, <1>2, SarAlways, SarDynamic, PTL
       DEF SarSpec, RunsKept, EntryRuns!Spec, EntryVars

\* It keeps the contracts it relies on, of its channels and of its entry, at once.
THEOREM SarKeepsAllContracts == SarSpec => ContractsKept
  BY BothChannelsKept, SarKeepsContract DEF ContractsKept
=============================================================================
