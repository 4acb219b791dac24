-------------------------- MODULE MRCPRecogProofs --------------------------
(***************************************************************************)
(* Theorems of MRCPRecog, for any number of runs, grammars and prompts: it *)
(* uses its speech channel as SpeechChannel allows, so that what is proved *)
(* of the channel holds for the application; that a run leaves nothing,    *)
(* that it reports results of its own, and that the timers are asked for.  *)
(***************************************************************************)
EXTENDS MRCPRecog, SpeechChannelProofs, SequenceTheorems

\* The client task is about to set a state, or none.
PendingOK == rcb \in {"none", "READY", "ERROR"}

\* A step of the application's thread is a step of the channel, or leaves it.
LEMMA RunIsChannel == ASSUME Run PROVE [ChannelNext]_channelVars
  <1> USE DEF Quietly, Aside, ChannelNext
  <1>1. CASE CreateChannel
    <2>1. Create \/ CreateFails
      BY <1>1 DEF CreateChannel
    <2>2. QED
      BY <2>1 DEF AppCall
  <1>2. CASE ProfileMissing \/ Opened \/ NextGrammar \/ ReportFailure \/ Prompts
    BY <1>2 DEF ProfileMissing, Opened, NextGrammar, ReportFailure, Prompts
  <1>3. CASE OpenChannel
    BY <1>3 DEF OpenChannel, AppCall
  <1>4. CASE Opening
    BY <1>4 DEF Opening, Wake
  <1>5. CASE DefineSend
    BY <1>5 DEF DefineSend, AppCall, Wake
  <1>6. CASE Load
    BY <1>6 DEF Load, AppCall, Wake
  <1>7. CASE StartSend
    BY <1>7 DEF StartSend, AppCall, Wake
  <1>8. CASE Start
    BY <1>8 DEF Start, AppCall, Wake
  <1>9. CASE FirstPrompt \/ Listen \/ PromptGoesOn \/ PromptsEnd \/ NoFrame
    BY <1>9 DEF FirstPrompt, Listen, PromptGoesOn, PromptsEnd, NoFrame
  <1>10. CASE Results \/ ExitKeeps
    BY <1>10 DEF Results, ExitKeeps
  <1>11. CASE ExitDestroy
    BY <1>11 DEF ExitDestroy, AppCall
  <1>12. CASE Destroying
    <2>1. DestroyDone \/ UNCHANGED channelVars
      BY <1>12 DEF Destroying
    <2>2. QED
      BY <2>1 DEF Wake
  <1>13. QED
    BY <1>1, <1>2, <1>3, <1>4, <1>5, <1>6, <1>7, <1>8, <1>9, <1>10, <1>11,
       <1>12 DEF Run

\* So is one of the caller, ...
LEMMA CallerIsChannel == ASSUME Caller PROVE [ChannelNext]_channelVars
  <1>1. CASE BadCall \/ Exec \/ ListenFails \/ PromptFails \/ NullFrame \/ Digit
    BY <1>1 DEF BadCall, Exec, ListenFails, PromptFails, NullFrame, Digit, Aside
  <1>2. CASE VoiceFrame
    BY <1>2 DEF VoiceFrame, Quietly, ChannelNext, AppCall
  <1>3. CASE HangUp
    BY <1>3 DEF HangUp, ChannelNext, AppCall
  <1>4. QED
    BY <1>1, <1>2, <1>3 DEF Caller

\* ... and what a message handler does to the channel is set its state.
LEMMA ServerIsChannel ==
  ASSUME PendingOK, Server \/ FinishMessage PROVE [ChannelNext]_channelVars
  <1>1. CASE AnswerRecognize
    BY <1>1 DEF AnswerRecognize, Sets, StoresThenSets, ChannelNext
  <1>2. CASE AnswerDefine
    BY <1>2 DEF AnswerDefine, Sets, StoresThenSets, ChannelNext
  <1>3. CASE AnswerTimers \/ StartOfInput
    BY <1>3 DEF AnswerTimers, StartOfInput
  <1>4. CASE RecognitionComplete
    BY <1>4 DEF RecognitionComplete, StoresThenSets
  <1>5. CASE OtherEvent
    BY <1>5 DEF OtherEvent, Sets, ChannelNext
  <1>6. CASE FinishMessage
    BY <1>6 DEF FinishMessage, PendingOK, ChannelNext
  <1>7. QED
    BY <1>1, <1>2, <1>3, <1>4, <1>5, <1>6 DEF Server

LEMMA AlwaysPending == RecogSpec => []PendingOK
  <1>1. RecogInit => PendingOK
    BY DEF RecogInit, PendingOK
  <1>2. PendingOK /\ [RecogNext]_recogVars => PendingOK'
    <2> SUFFICES ASSUME PendingOK, [RecogNext]_recogVars PROVE PendingOK'
      OBVIOUS
    <2> USE DEF PendingOK, Quietly, Aside, restVars
    <2>1. CASE Run
      <3>1. rcb' = rcb
        <4>1. CASE CreateChannel \/ ProfileMissing \/ OpenChannel \/ Opening \/ Opened
          BY <4>1 DEF CreateChannel, ProfileMissing, OpenChannel, Opening, Opened
        <4>2. CASE NextGrammar \/ DefineSend \/ Load \/ ReportFailure
          BY <4>2 DEF NextGrammar, DefineSend, Load, ReportFailure
        <4>3. CASE Prompts \/ StartSend \/ Start \/ FirstPrompt
          BY <4>3 DEF Prompts, StartSend, Start, FirstPrompt
        <4>4. CASE Listen \/ PromptGoesOn \/ PromptsEnd \/ NoFrame \/ Results
          BY <4>4 DEF Listen, PromptGoesOn, PromptsEnd, NoFrame, Results
        <4>5. CASE ExitKeeps \/ ExitDestroy \/ Destroying
          BY <4>5 DEF ExitKeeps, ExitDestroy, Destroying
        <4>6. QED
          BY <2>1, <4>1, <4>2, <4>3, <4>4, <4>5 DEF Run
      <3>2. QED
        BY <3>1
    <2>2. CASE Caller
      BY <2>2 DEF Caller, BadCall, Exec, ListenFails, PromptFails, VoiceFrame,
         NullFrame, Digit, HangUp
    <2>3. CASE Server
      BY <2>3 DEF Server, AnswerRecognize, AnswerDefine, AnswerTimers,
         RecognitionComplete, StartOfInput, OtherEvent, Sets, StoresThenSets
    <2>4. CASE FinishMessage \/ SignallingCallback \/ StreamRead \/ Over
      BY <2>4 DEF FinishMessage, SignallingCallback, StreamRead, Over, recogVars
    <2>5. CASE UNCHANGED recogVars
      BY <2>5 DEF recogVars
    <2>6. QED
      BY <2>1, <2>2, <2>3, <2>4, <2>5 DEF RecogNext
  <1>3. QED
    BY <1>1, <1>2, PTL DEF RecogSpec

\* The application, its caller and the server use the channel in no way that
\* SpeechChannel does not allow: RecogSpec implements ChannelSpec.
THEOREM RecogUsesChannel == RecogSpec => ChannelUsed
  <1>1. RecogInit => ChannelInit
    BY DEF RecogInit
  <1>2. PendingOK /\ [RecogNext]_recogVars => [ChannelNext]_channelVars
    <2> SUFFICES ASSUME PendingOK, [RecogNext]_recogVars
                 PROVE  [ChannelNext]_channelVars
      OBVIOUS
    <2>1. CASE Run
      BY <2>1, RunIsChannel
    <2>2. CASE Caller
      BY <2>2, CallerIsChannel
    <2>3. CASE Server \/ FinishMessage
      BY <2>3, ServerIsChannel
    <2>4. CASE SignallingCallback \/ StreamRead
      BY <2>4 DEF SignallingCallback, StreamRead, Quietly, ChannelNext
    <2>5. CASE Over \/ UNCHANGED recogVars
      BY <2>5 DEF Over, recogVars
    <2>6. QED
      BY <2>1, <2>2, <2>3, <2>4, <2>5 DEF RecogNext
  <1>3. QED
    BY <1>1, <1>2, AlwaysPending, PTL DEF RecogSpec, ChannelUsed, ChannelSpec

\* However often the application runs, and however each run ends, its channel
\* is released only when the session is gone (speech_channel_destroy).
THEOREM RecogReleaseIsSafe == RecogSpec => []FreedIsGone
  BY RecogUsesChannel, ReleaseIsSafe DEF ChannelUsed

\* A RECOGNIZE is fed only audio that came after it was begun
\* (audio_queue_clear in recog_channel_start).
THEOREM RecogStartsEmpty == RecogSpec => StartsEmpty
  BY RecogUsesChannel, RequestStartsEmpty DEF ChannelUsed

LEMMA RecogIInv == RecogSpec => []IInv
  BY RecogUsesChannel, AlwaysIInv DEF ChannelUsed

-----------------------------------------------------------------------------
(* Types.                                                                  *)

Requests == [method : Methods, id : Nat]

AppOK ==
  /\ apc \in AppStates /\ calls \in 0..MaxCalls
  /\ grammars \in 0..MaxGrammars /\ prompts \in 0..MaxPrompts
  /\ policy \in {"auto", "on", "off"} /\ keys \in {"off", "some", "any"}
  /\ status \in {"OK", "ERROR", "INTERRUPTED"}
  /\ key \in {"none", "listed", "other"}
  /\ cause \in Causes /\ reported \in Causes /\ told \in Causes
  /\ rcb \in {"none", "READY", "ERROR"}
  /\ by \in Nat /\ owner \in Nat /\ cur \in Nat

SentOK == requests \in Seq(Requests) /\ active \in Seq(Nat)

RecogFlagsOK ==
  /\ plt \in BOOLEAN /\ profile \in BOOLEAN /\ playing \in BOOLEAN
  /\ started \in BOOLEAN /\ timers \in BOOLEAN /\ overlap \in BOOLEAN
  /\ refused \in BOOLEAN

\* The application's steps, first those before RECOGNIZE and after it.
Before ==
  \/ BadCall \/ Exec \/ CreateChannel \/ ProfileMissing \/ OpenChannel \/ Opening
  \/ Opened \/ NextGrammar \/ DefineSend \/ Load \/ ReportFailure \/ Prompts

After ==
  \/ FirstPrompt \/ Listen \/ ListenFails \/ PromptGoesOn \/ PromptFails
  \/ PromptsEnd \/ NoFrame \/ VoiceFrame \/ NullFrame \/ Digit \/ Results

Exiting == ExitKeeps \/ ExitDestroy \/ Destroying \/ HangUp

Handlers == Server \/ FinishMessage \/ SignallingCallback

LEMMA RecogSteps ==
  RecogNext => \/ Before \/ StartSend \/ Start \/ After \/ Exiting \/ Handlers
               \/ StreamRead \/ UNCHANGED recogVars
  BY DEF RecogNext, Run, Caller, Over, Before, After, Exiting, Handlers

LEMMA SentUpdates ==
  ASSUME SentOK
  PROVE  /\ \A m \in Methods, i \in Nat : Send(m, i) => requests' \in Seq(Requests)
         /\ \A m : Answers(m) => requests' \in Seq(Requests) /\ Head(requests).id \in Nat
         /\ active # <<>> => Head(active) \in Nat /\ Tail(active) \in Seq(Nat)
         /\ \A i \in Nat : Append(active, i) \in Seq(Nat) /\ <<i>> \in Seq(Nat)
         /\ <<>> \in Seq(Nat) /\ <<>> \in Seq(Requests)
  <1>1. ASSUME NEW m \in Methods, NEW i \in Nat, Send(m, i)
        PROVE  requests' \in Seq(Requests)
    <2>1. [method |-> m, id |-> i] \in Requests
      BY DEF Requests
    <2>2. Append(requests, [method |-> m, id |-> i]) \in Seq(Requests)
      BY <2>1, AppendProperties DEF SentOK
    <2> QED
      BY <1>1, <2>2 DEF Send
  <1>2. ASSUME NEW m, Answers(m)
        PROVE  requests' \in Seq(Requests) /\ Head(requests).id \in Nat
    <2>1. requests \in Seq(Requests) /\ requests # <<>> /\ requests' = Tail(requests)
      BY <1>2 DEF SentOK, Answers
    <2>2. Tail(requests) \in Seq(Requests) /\ Head(requests) \in Requests
      BY <2>1, HeadTailProperties
    <2> QED
      BY <2>1, <2>2 DEF Requests
  <1>3. active # <<>> => Head(active) \in Nat /\ Tail(active) \in Seq(Nat)
    BY HeadTailProperties DEF SentOK
  <1>4. \A i \in Nat : Append(active, i) \in Seq(Nat) /\ <<i>> \in Seq(Nat)
    BY AppendProperties DEF SentOK
  <1>5. <<>> \in Seq(Nat) /\ <<>> \in Seq(Requests)
    BY EmptySeq
  <1> QED
    BY <1>1, <1>2, <1>3, <1>4, <1>5

LEMMA SentStep == ASSUME SentOK, AppOK, RecogNext PROVE SentOK'
  <1>0. /\ "RECOGNIZE" \in Methods /\ "DEFINE-GRAMMAR" \in Methods
        /\ "START-INPUT-TIMERS" \in Methods /\ 0 \in Nat /\ cur + 1 \in Nat
    BY DEF Methods, AppOK
  <1>1. ASSUME UNCHANGED <<requests, active>> PROVE SentOK'
    BY <1>1 DEF SentOK
  <1>2. CASE CreateChannel \/ SignallingCallback
    <2>1. /\ requests' = <<>> \/ requests' = requests
          /\ active' = <<>> \/ active' = active
      BY <1>2 DEF CreateChannel, Quietly, restVars, serverVars, SignallingCallback
    <2> QED
      BY <2>1, SentUpdates, Zenon DEF SentOK
  <1>3. CASE DefineSend \/ StartSend \/ PromptsEnd
    <2>1. UNCHANGED active
      BY <1>3 DEF DefineSend, StartSend, PromptsEnd
    <2>2. UNCHANGED requests \/ \E m \in Methods, i \in Nat : Send(m, i)
      BY <1>0, <1>3 DEF DefineSend, StartSend, PromptsEnd, AskForTimers
    <2> QED
      BY <2>1, <2>2, SentUpdates DEF SentOK
  <1>4. CASE Server
    <2>1. UNCHANGED requests \/ \E m : Answers(m)
      BY <1>4
         DEF Server, AnswerRecognize, AnswerDefine, AnswerTimers, RecognitionComplete,
             StartOfInput, OtherEvent, serverVars
    <2>2. active' \in Seq(Nat)
      <3>1. CASE AnswerRecognize
        BY <3>1, SentUpdates DEF AnswerRecognize, SentOK
      <3>2. CASE RecognitionComplete
        BY <3>2, SentUpdates DEF RecognitionComplete, Live
      <3>3. CASE UNCHANGED active
        BY <3>3 DEF SentOK
      <3> QED
        BY <1>4, <3>1, <3>2, <3>3
           DEF Server, AnswerDefine, AnswerTimers, StartOfInput, OtherEvent, serverVars
    <2> QED
      BY <2>1, <2>2, SentUpdates DEF SentOK
  <1>5. CASE BadCall \/ Exec \/ ProfileMissing \/ OpenChannel \/ Opening \/ Opened
             \/ NextGrammar \/ Load \/ ReportFailure \/ Prompts \/ Start
    BY <1>1, <1>5
       DEF BadCall, Exec, ProfileMissing, OpenChannel, Opening, Opened, NextGrammar, Load,
           ReportFailure, Prompts, Start, Quietly, Aside, restVars, serverVars
  <1>6. CASE FirstPrompt \/ Listen \/ ListenFails \/ PromptGoesOn \/ PromptFails
             \/ NoFrame \/ VoiceFrame \/ NullFrame \/ Digit \/ Results
    BY <1>1, <1>6
       DEF FirstPrompt, Listen, ListenFails, PromptGoesOn, PromptFails, NoFrame, VoiceFrame,
           NullFrame, Digit, Results, Quietly, Aside, restVars, serverVars
  <1>7. CASE Exiting \/ FinishMessage \/ StreamRead \/ UNCHANGED recogVars
    BY <1>1, <1>7
       DEF Exiting, ExitKeeps, ExitDestroy, Destroying, HangUp, FinishMessage, StreamRead,
           Quietly, Aside, recogVars, restVars, serverVars
  <1> QED
    BY <1>2, <1>3, <1>4, <1>5, <1>6, <1>7, RecogSteps DEF Before, After, Handlers

\* A grammar is loaded, and a prompt played, only while there is one.
Counted ==
  /\ apc = "load" => grammars > 0
  /\ playing \/ apc = "prompt" => prompts > 0

LEMMA AppStep == ASSUME SentOK, AppOK, Counted, RecogNext PROVE AppOK'
  <1> USE RecogAssumption
      DEF RecogAssumption, AppOK, AppStates, Causes, NoData, Unset, Success, Failure,
          Quietly, Aside, Goto, ExitWith, At, GetResults, optionVars, runVars, restVars,
          dataVars, serverVars, appVars
  <1>1. CASE BadCall \/ Exec
    BY <1>1 DEF BadCall, Exec
  <1>2. CASE CreateChannel \/ ProfileMissing \/ OpenChannel \/ Opening \/ Opened
    BY <1>2 DEF CreateChannel, ProfileMissing, OpenChannel, Opening, Opened
  <1>3. CASE NextGrammar \/ DefineSend
    BY <1>3 DEF NextGrammar, DefineSend
  <1>4. CASE Load
    BY <1>4 DEF Load, Loaded, Counted
  <1>5. CASE ReportFailure \/ Results
    BY <1>5 DEF ReportFailure, Results
  <1>6. CASE Prompts
    <2>1. /\ apc' \in {"start", "exit"} /\ status' \in {status, "ERROR", "INTERRUPTED"}
          /\ UNCHANGED <<calls, grammars, key, reported, owner, restVars>>
      BY <1>6 DEF Prompts
    <2>2. /\ prompts' = prompts \/ prompts' \in 0..MaxPrompts
          /\ policy' = policy \/ policy' \in {"auto", "on", "off"}
          /\ keys' = keys \/ keys' \in {"off", "some", "any"}
      BY <1>6, Zenon DEF Prompts
    <2> QED
      BY <2>1, <2>2
  <1>7. CASE StartSend \/ Start
    BY <1>7 DEF StartSend, Start, ResetData
  <1>8. CASE FirstPrompt \/ Listen \/ ListenFails \/ NoFrame \/ VoiceFrame
    BY <1>8 DEF FirstPrompt, Listen, ListenFails, NoFrame, VoiceFrame
  <1>9. CASE PromptGoesOn \/ PromptFails \/ PromptsEnd
    BY <1>9 DEF PromptGoesOn, PromptFails, PromptsEnd, Counted
  <1>10. CASE NullFrame \/ Digit
    BY <1>10 DEF NullFrame, Digit
  <1>11. CASE Exiting
    BY <1>11 DEF Exiting, ExitKeeps, ExitDestroy, Destroying, HangUp
  <1>12. CASE AnswerRecognize \/ AnswerDefine
    <2>1. UNCHANGED <<apc, calls, grammars, prompts, policy, keys, status, key, reported,
                      owner, cur>>
      BY <1>12 DEF AnswerRecognize, AnswerDefine
    <2>2. \/ UNCHANGED <<cause, by, rcb>>
          \/ \E i \in Nat : StoresThenSets(Failure, i, "ERROR")
      BY <1>12, SentUpdates DEF AnswerRecognize, AnswerDefine, Sets
    <2>3. told' \in Causes
      BY <1>12 DEF AnswerRecognize, AnswerDefine
    <2> QED
      BY <2>1, <2>2, <2>3 DEF StoresThenSets, SetResults
  <1>13. CASE RecognitionComplete
    BY <1>13, SentUpdates DEF RecognitionComplete, Live, StoresThenSets, SetResults
  <1>14. CASE AnswerTimers \/ StartOfInput \/ OtherEvent
    BY <1>14 DEF AnswerTimers, StartOfInput, OtherEvent, Sets
  <1>15. CASE FinishMessage \/ SignallingCallback \/ StreamRead \/ UNCHANGED recogVars
    BY <1>15 DEF FinishMessage, SignallingCallback, StreamRead, recogVars
  <1> QED
    BY <1>1, <1>2, <1>3, <1>4, <1>5, <1>6, <1>7, <1>8, <1>9, <1>10, <1>11, <1>12,
       <1>13, <1>14, <1>15, RecogSteps DEF Before, After, Handlers, Server

LEMMA RecogFlagsStep == ASSUME RecogFlagsOK, RecogNext PROVE RecogFlagsOK'
  <1> USE DEF RecogFlagsOK, Quietly, Aside, Goto, ExitWith, optionVars, runVars, restVars,
          dataVars, serverVars, appVars
  <1>0. TRUE \in BOOLEAN /\ FALSE \in BOOLEAN
    OBVIOUS
  <1>1. CASE BadCall \/ Exec \/ CreateChannel \/ ProfileMissing \/ OpenChannel
    BY <1>0, <1>1, Zenon DEF BadCall, Exec, CreateChannel, ProfileMissing, OpenChannel
  <1>2. CASE Opening \/ Opened \/ NextGrammar \/ DefineSend
    BY <1>2, Zenon DEF Opening, Opened, NextGrammar, DefineSend
  <1>3. CASE Load \/ ReportFailure \/ FirstPrompt
    BY <1>3, Zenon DEF Load, Loaded, ReportFailure, FirstPrompt
  <1>4. CASE Prompts
    <2>1. prompts' = 0 \/ prompts' # 0
      OBVIOUS
    <2>2. playing' \in {FALSE} \/ playing' \in {TRUE, FALSE} \/ playing' = playing
      BY <1>4, <2>1, Zenon DEF Prompts
    <2>3. playing' \in BOOLEAN
      BY <1>0, <2>2, Zenon
    <2> QED
      BY <1>4, <2>3, Zenon DEF Prompts
  <1>5. CASE StartSend \/ Start
    <2>1. StartInputTimers \in BOOLEAN
      <3>1. (~playing) \in BOOLEAN /\ (policy = "on") \in BOOLEAN
        BY Zenon
      <3>2. policy = "auto" \/ policy # "auto"
        OBVIOUS
      <3> QED
        BY <3>1, <3>2, Zenon DEF StartInputTimers
    <2>2. (requests # <<>> \/ active # <<>> \/ rcb # "none") \in BOOLEAN
      BY Zenon
    <2> QED
      BY <1>0, <1>5, <2>1, <2>2, Zenon DEF StartSend, Start, ResetData
  <1>6. CASE Listen \/ ListenFails \/ PromptFails \/ NoFrame \/ VoiceFrame \/ NullFrame
             \/ Digit
    BY <1>6, Zenon DEF Listen, ListenFails, PromptFails, NoFrame, VoiceFrame, NullFrame, Digit
  <1>7. CASE PromptGoesOn \/ Results
    <2>1. (~started) \in BOOLEAN
      BY Zenon
    <2> QED
      BY <1>0, <1>7, <2>1, Zenon DEF PromptGoesOn, Results
  <1>8. CASE PromptsEnd
    <2>1. refused' = refused \/ refused' = TRUE
      BY <1>8, Zenon DEF PromptsEnd, AskForTimers
    <2>2. refused' \in BOOLEAN
      BY <1>0, <2>1, Zenon
    <2> QED
      BY <1>0, <1>8, <2>2, Zenon DEF PromptsEnd
  <1>9. CASE Exiting
    BY <1>9, Zenon DEF Exiting, ExitKeeps, ExitDestroy, Destroying, HangUp
  <1>10. CASE AnswerRecognize \/ AnswerDefine \/ RecognitionComplete
    <2>1. UNCHANGED <<started, timers, appVars, overlap, refused>>
      BY <1>10
         DEF AnswerRecognize, AnswerDefine, RecognitionComplete, Sets, StoresThenSets
    <2> QED
      BY <2>1
  <1>11. CASE AnswerTimers
    <2>1. (timers' = TRUE \/ timers' = timers) /\ (refused' = TRUE \/ refused' = refused)
      BY <1>11, Zenon DEF AnswerTimers
    <2> QED
      BY <1>0, <1>11, <2>1, Zenon DEF AnswerTimers
  <1>12. CASE StartOfInput \/ OtherEvent
    BY <1>0, <1>12, Zenon DEF StartOfInput, OtherEvent, Sets
  <1>13. CASE FinishMessage \/ SignallingCallback \/ StreamRead \/ UNCHANGED recogVars
    BY <1>13, Zenon DEF FinishMessage, SignallingCallback, StreamRead, recogVars
  <1> QED
    BY <1>1, <1>2, <1>3, <1>4, <1>5, <1>6, <1>7, <1>8, <1>9, <1>10, <1>11, <1>12,
       <1>13, RecogSteps DEF Before, After, Handlers, Server

LEMMA CountedStep ==
  ASSUME AppOK, Counted, RecogNext
  PROVE  Counted'
  <1> USE RecogAssumption
      DEF RecogAssumption, Counted, AppOK, Quietly, Aside, Goto, ExitWith, At, optionVars,
          runVars, appVars
  <1>1. CASE BadCall \/ Exec \/ CreateChannel \/ ProfileMissing \/ OpenChannel
    BY <1>1 DEF BadCall, Exec, CreateChannel, ProfileMissing, OpenChannel
  <1>2. CASE Opening \/ Opened \/ NextGrammar \/ DefineSend
    BY <1>2 DEF Opening, Opened, NextGrammar, DefineSend
  <1>3. CASE Load \/ ReportFailure \/ FirstPrompt
    BY <1>3 DEF Load, Loaded, ReportFailure, FirstPrompt
  <1>4. CASE Prompts
    <2>1. apc' # "load" /\ apc' # "prompt"
      BY <1>4 DEF Prompts
    <2>2. \/ UNCHANGED <<prompts, playing>>
          \/ prompts' \in 0..MaxPrompts /\ (prompts' = 0 => playing' = FALSE)
      BY <1>4, Zenon DEF Prompts
    <2> QED
      BY <2>1, <2>2
  <1>5. CASE StartSend \/ Start
    BY <1>5 DEF StartSend, Start, ResetData
  <1>6. CASE Listen \/ ListenFails \/ PromptFails \/ NoFrame \/ VoiceFrame \/ NullFrame
             \/ Digit
    BY <1>6 DEF Listen, ListenFails, PromptFails, NoFrame, VoiceFrame, NullFrame, Digit
  <1>7. CASE PromptGoesOn \/ PromptsEnd \/ Results
    BY <1>7 DEF PromptGoesOn, PromptsEnd, Results
  <1>8. CASE Exiting
    BY <1>8 DEF Exiting, ExitKeeps, ExitDestroy, Destroying, HangUp
  <1>9. CASE Handlers \/ StreamRead \/ UNCHANGED recogVars
    <2>1. UNCHANGED appVars
      BY <1>9
         DEF Handlers, Server, AnswerRecognize, AnswerDefine, AnswerTimers,
             RecognitionComplete, StartOfInput, OtherEvent, FinishMessage,
             SignallingCallback, StreamRead, recogVars
    <2> QED
      BY <2>1
  <1> QED
    BY <1>1, <1>2, <1>3, <1>4, <1>5, <1>6, <1>7, <1>8, <1>9, RecogSteps DEF Before, After

-----------------------------------------------------------------------------
(* The application and its channel.                                        *)

\* Where the application is, of the channel's calls and of the channel.
Placed ==
  /\ op # "idle" =>
       /\ apc \in {"open", "load", "start", "destroy", "hangup"}
       /\ apc = "open" => op \in {"open_wait", "open_term_wait"}
       /\ apc = "load" => op \in {"grammar_ready_wait", "grammar_wait"}
       /\ apc = "start" => op \in {"ready_wait", "request_wait"}
       /\ apc \in {"destroy", "hangup"} => op = "destroy_wait"
  /\ apc \notin {"idle", "create", "exit", "destroy", "hangup", "end"} => chan # "null"
  /\ apc \in {"destroy", "hangup"} => (chan = "null" <=> op = "idle")
  /\ apc = "end" \/ (apc = "idle" /\ ~plt) => chan = "null"

\* Requests, recognitions and messages are those of a session that is there.
Owed ==
  session \in Gone \cup {"adding"} => requests = <<>> /\ active = <<>> /\ rcb = "none"

\* A channel with a request under way, or ready for one, has its session.
LEMMA SessionUp ==
  ASSUME IInv, state \in {"READY", "PROCESSING"}, op \in Ops \ {"destroy_wait", "open_term_wait"}
  PROVE  session = "up"
  BY DEF IInv, Core, DataOK, Adding, Closed, Terminating, Ending, Failed, SessionStates, Gone

LEMMA PlacedStep ==
  ASSUME IInv, AppOK, Placed, RecogNext
  PROVE  Placed'
  <1> USE DEF Placed, Goto, ExitWith, Quietly, Aside, At, Return, optionVars, runVars
  <1>1. CASE BadCall \/ Exec \/ ProfileMissing \/ Opened \/ NextGrammar
    BY <1>1 DEF BadCall, Exec, ProfileMissing, Opened, NextGrammar, channelVars
  <1>2. CASE ReportFailure \/ Prompts \/ Results \/ ExitKeeps
    <2>1. CASE Prompts
      <3>1. apc = "prompts" /\ apc' \in {"start", "exit"} /\ UNCHANGED <<plt, channelVars>>
        BY <2>1, Zenon DEF Prompts
      <3> QED
        BY <2>1, <3>1 DEF channelVars, Prompts
    <2> QED
      BY <1>2, <2>1 DEF ReportFailure, Results, ExitKeeps, channelVars
  <1>3. CASE CreateChannel
    BY <1>3 DEF CreateChannel, Create, CreateFails
  <1>4. CASE OpenChannel
    BY <1>4 DEF OpenChannel, OpenFails, OpenSend
  <1>5. CASE Opening
    BY <1>5 DEF Opening, OpenReady, OpenDataFails, OpenError, OpenTermWake, appVars
  <1>6. CASE DefineSend
    BY <1>6 DEF DefineSend, GrammarSend, appVars
  <1>7. CASE Load
    BY <1>7 DEF Load, Loaded, GrammarNotReady, NotReady, GrammarFails, GrammarByUri,
       GrammarWake, MayStart, Call, appVars
  <1>8. CASE StartSend
    BY <1>8 DEF StartSend, RequestSend, appVars
  <1>9. CASE Start
    BY <1>9 DEF Start, RequestNotReady, NotReady, RequestFails, RequestWake, MayStart,
       Call, appVars
  <1>10. CASE FirstPrompt \/ Listen \/ ListenFails \/ PromptGoesOn \/ PromptFails
              \/ PromptsEnd \/ NoFrame \/ NullFrame \/ Digit
    BY <1>10 DEF FirstPrompt, Listen, ListenFails, PromptGoesOn, PromptFails, PromptsEnd,
       NoFrame, NullFrame, Digit, channelVars
  <1>11. CASE VoiceFrame
    BY <1>11 DEF VoiceFrame, Write
  <1>12. CASE ExitDestroy
    BY <1>12 DEF ExitDestroy, DestroyClosed, DestroySend, Free, Call
  <1>13. CASE Destroying
    BY <1>13 DEF Destroying, DestroyDone, Free, appVars, channelVars
  <1>14. CASE HangUp
    BY <1>14 DEF HangUp, DestroyClosed, DestroySend, Free, channelVars, Call
  <1>15. CASE Server \/ FinishMessage
    <2>1. UNCHANGED <<appVars, op, chan>>
      BY <1>15
         DEF Server, AnswerRecognize, AnswerDefine, AnswerTimers, RecognitionComplete,
             StartOfInput, OtherEvent, Sets, StoresThenSets, FinishMessage, OnMessage,
             channelVars
    <2> QED
      BY <2>1 DEF appVars
  <1>16. CASE SignallingCallback \/ StreamRead \/ UNCHANGED recogVars
    BY <1>16
       DEF SignallingCallback, Callback, OnChannelAdd, OnTerminateDestroy,
           OnTerminateClose, StreamRead, Read, recogVars, channelVars, appVars
  <1> QED
    BY <1>1, <1>2, <1>3, <1>4, <1>5, <1>6, <1>7, <1>8, <1>9, <1>10, <1>11, <1>12,
       <1>13, <1>14, <1>15, <1>16, RecogSteps DEF Before, After, Exiting, Handlers

\* What the thread's steps do to a session that is gone, or not there yet.
LEMMA SameSession ==
  ASSUME IInv, Before \/ StartSend \/ Start \/ After \/ Exiting \/ StreamRead
  PROVE  session' \in Gone \cup {"adding"} => session \in Gone \cup {"adding"}
  <1> USE TerminateAssumption
      DEF TerminateAssumption, IInv, Core, DataOK, Closed, Gone, SessionStates
  <1>1. CASE UNCHANGED session
    BY <1>1
  <1>2. CASE Create
    BY <1>2 DEF Create
  <1>3. CASE OpenFails \/ OpenSend
    BY <1>3 DEF OpenFails, OpenSend
  <1>4. CASE DestroySend \/ OpenError
    BY <1>4 DEF DestroySend, OpenError, Terminate
  <1>5. CASE RequestFails \/ RequestSend \/ GrammarFails \/ GrammarSend
    BY <1>5 DEF RequestFails, RequestSend, GrammarFails, GrammarSend, UseSession
  <1>6. CASE Before
    <2>1. CASE BadCall \/ Exec \/ ProfileMissing \/ Opened \/ NextGrammar
               \/ ReportFailure \/ Prompts
      BY <1>1, <2>1
         DEF BadCall, Exec, ProfileMissing, Opened, NextGrammar, ReportFailure, Prompts,
             Aside, channelVars
    <2>2. CASE CreateChannel \/ OpenChannel
      BY <1>1, <1>2, <1>3, <2>2 DEF CreateChannel, CreateFails, OpenChannel, Quietly
    <2>3. CASE Opening
      BY <1>1, <1>4, <2>3 DEF Opening, OpenReady, OpenDataFails, OpenTermWake, Quietly
    <2>4. CASE DefineSend \/ Load
      BY <1>1, <1>5, <2>4
         DEF DefineSend, Load, GrammarNotReady, NotReady, GrammarByUri, GrammarWake, Quietly
    <2> QED
      BY <1>6, <2>1, <2>2, <2>3, <2>4 DEF Before
  <1>7. CASE StartSend \/ Start
    BY <1>1, <1>5, <1>7 DEF StartSend, Start, RequestNotReady, NotReady, RequestWake, Quietly
  <1>8. CASE After \/ StreamRead
    BY <1>1, <1>8
       DEF After, FirstPrompt, Listen, ListenFails, PromptGoesOn, PromptFails, PromptsEnd,
           NoFrame, VoiceFrame, NullFrame, Digit, Results, StreamRead, Aside, Quietly,
           Write, Read, channelVars
  <1>9. CASE Exiting
    BY <1>1, <1>4, <1>9
       DEF Exiting, ExitKeeps, ExitDestroy, Destroying, HangUp, DestroyClosed, DestroyDone,
           Aside, Quietly, channelVars
  <1> QED
    BY <1>6, <1>7, <1>8, <1>9

LEMMA OwedStep ==
  ASSUME IInv, Owed, RecogNext
  PROVE  Owed'
  <1>1. CASE StartSend \/ DefineSend
    <2>1. session = "up"
      BY <1>1, SessionUp DEF StartSend, DefineSend, RequestSend, GrammarSend, MayStart, Call, Ops
    <2> QED
      BY <1>1, <2>1
         DEF StartSend, DefineSend, RequestSend, GrammarSend, UseSession, Owed, Gone
  <1>2. CASE PromptsEnd
    <2>1. state = "PROCESSING" => session = "up"
      BY <1>2, SessionUp DEF PromptsEnd, At, Ops
    <2>2. state # "PROCESSING" => UNCHANGED requests
      BY <1>2 DEF PromptsEnd, AskForTimers
    <2> QED
      BY <1>2, <2>1, <2>2 DEF PromptsEnd, channelVars, Owed, Gone
  <1>3. CASE CreateChannel
    BY <1>3, SameSession
       DEF CreateChannel, Quietly, restVars, serverVars, Owed, Before
  <1>4. CASE (Before \/ Start \/ After \/ Exiting \/ StreamRead)
             /\ ~(DefineSend \/ PromptsEnd \/ CreateChannel)
    <2>1. UNCHANGED <<requests, active, rcb>>
      <3>1. CASE Before
        BY <1>4, <3>1
           DEF Before, BadCall, Exec, ProfileMissing, OpenChannel, Opening, Opened,
               NextGrammar, Load, ReportFailure, Prompts, Quietly, Aside, restVars, serverVars
      <3>2. CASE Start \/ StreamRead \/ Exiting
        BY <3>2
           DEF Start, StreamRead, Exiting, ExitKeeps, ExitDestroy, Destroying, HangUp,
               Quietly, Aside, restVars, serverVars
      <3>3. CASE After
        BY <1>4, <3>3
           DEF After, FirstPrompt, Listen, ListenFails, PromptGoesOn, PromptFails, NoFrame,
               VoiceFrame, NullFrame, Digit, Results, Quietly, Aside, restVars, serverVars
      <3> QED
        BY <1>4, <3>1, <3>2, <3>3
    <2> QED
      BY <1>4, <2>1, SameSession DEF Owed
  <1>5. CASE Server \/ FinishMessage
    <2>1. UNCHANGED session /\ session \notin Gone \cup {"adding"}
      BY <1>5
         DEF Server, AnswerRecognize, AnswerDefine, AnswerTimers, RecognitionComplete,
             StartOfInput, OtherEvent, Sets, StoresThenSets, FinishMessage, OnMessage,
             Answers, Live, channelVars, Gone
    <2> QED
      BY <2>1 DEF Owed
  <1>6. CASE SignallingCallback
    BY <1>6
       DEF SignallingCallback, Callback, OnChannelAdd, OnTerminateDestroy,
           OnTerminateClose, Owed, IInv, Core, Terminating, Gone
  <1>7. CASE UNCHANGED recogVars
    BY <1>7 DEF Owed, recogVars, channelVars, restVars, serverVars
  <1> QED
    BY <1>1, <1>2, <1>3, <1>4, <1>5, <1>6, <1>7, RecogSteps DEF Handlers

-----------------------------------------------------------------------------
(* From RECOGNIZE to the end of the loop.                                  *)

InRun ==
  \/ apc \in {"first_prompt", "listen", "prompt", "frame", "results"}
  \/ apc = "start" /\ op = "request_wait"

\* The session is there, and nobody ends it.
UpInRun == InRun => session = "up"

OnlyTimers(s) == \A i \in 1..Len(s) : s[i].method = "START-INPUT-TIMERS"

\* How far a RECOGNIZE is that was sent when the server owed nothing: it is not
\* answered, in progress, over with an outcome that is its own, or refused.
Waiting ==
  /\ requests = <<[method |-> "RECOGNIZE", id |-> cur]>> /\ active = <<>>
  /\ rcb = "none" /\ state = "READY" /\ cause = Unset /\ apc = "start"

InProgress ==
  /\ OnlyTimers(requests) /\ active = <<cur>>
  /\ rcb = "none" /\ state \in {"PROCESSING", "ERROR"} /\ cause = Unset

Complete ==
  /\ OnlyTimers(requests) /\ active = <<>>
  /\ cause \in {Success, Failure} /\ by = cur

Rejected ==
  /\ OnlyTimers(requests) /\ active = <<>>
  /\ rcb = "none" /\ state = "ERROR" /\ cause = Unset

Stages == InRun /\ ~overlap => Waiting \/ InProgress \/ Complete \/ Rejected

TimersAsked == \E i \in 1..Len(requests) : requests[i].method = "START-INPUT-TIMERS"

\* The timers that the policy "auto" asks for, once no prompt is played.
Timely ==
  InRun /\ ~overlap /\ policy = "auto" /\ ~playing =>
    \/ timers \/ started \/ refused \/ TimersAsked
    \/ apc # "start" /\ state # "PROCESSING"

\* A run that is over reports what its RECOGNIZE came to.
Own == apc = "exit" /\ status = "OK" /\ key = "none" /\ ~overlap => owner = cur

LEMMA TimersInTurn ==
  ASSUME NEW s \in Seq(Requests), s # <<>>, OnlyTimers(s)
  PROVE  Head(s).method = "START-INPUT-TIMERS" /\ OnlyTimers(Tail(s))
  <1>1. Head(s) = s[1] /\ 1 \in 1..Len(s)
    BY HeadTailProperties, EmptySeq, LenProperties
  <1>2. Len(Tail(s)) = Len(s) - 1 /\ \A i \in 1..Len(Tail(s)) : Tail(s)[i] = s[i + 1]
    BY HeadTailProperties
  <1>3. Len(s) \in Nat
    BY LenProperties
  <1> QED
    BY <1>1, <1>2, <1>3 DEF OnlyTimers

LEMMA TimersAppended ==
  ASSUME NEW s \in Seq(Requests), OnlyTimers(s)
  PROVE  OnlyTimers(Append(s, [method |-> "START-INPUT-TIMERS", id |-> 0]))
  <1>1. [method |-> "START-INPUT-TIMERS", id |-> 0] \in Requests
    BY DEF Requests, Methods
  <1>2. Len(s) \in Nat
    BY LenProperties
  <1> DEFINE t == Append(s, [method |-> "START-INPUT-TIMERS", id |-> 0])
  <1>3. /\ Len(t) = Len(s) + 1 /\ \A i \in 1..Len(s) : t[i] = s[i]
        /\ t[Len(s) + 1] = [method |-> "START-INPUT-TIMERS", id |-> 0]
    BY <1>1, AppendProperties
  <1> QED
    BY <1>2, <1>3 DEF OnlyTimers

\* The steps that keep the application in the run, or bring it there.
LEMMA OutsideRun == ASSUME Before \/ Exiting PROVE ~InRun'
  <1> USE DEF InRun, Goto, ExitWith, At, appVars, runVars
  <1>1. CASE BadCall \/ Exec \/ CreateChannel \/ ProfileMissing \/ OpenChannel
    BY <1>1 DEF BadCall, Exec, CreateChannel, ProfileMissing, OpenChannel
  <1>2. CASE Opening \/ Opened \/ NextGrammar \/ DefineSend
    BY <1>2 DEF Opening, Opened, NextGrammar, DefineSend
  <1>3. CASE Load \/ ReportFailure
    BY <1>3 DEF Load, Loaded, ReportFailure
  <1>4. CASE Prompts
    <2>1. apc' = "exit" \/ (apc' = "start" /\ op = "idle" /\ UNCHANGED channelVars)
      BY <1>4, Zenon DEF Prompts, Aside
    <2> QED
      BY <2>1 DEF channelVars
  <1>5. CASE Exiting
    BY <1>5 DEF Exiting, ExitKeeps, ExitDestroy, Destroying, HangUp
  <1> QED
    BY <1>1, <1>2, <1>3, <1>4, <1>5 DEF Before

LEMMA StartInRun ==
  ASSUME Start, InRun'
  PROVE  /\ InRun /\ apc = "start" /\ apc' = "first_prompt" /\ state = "PROCESSING"
         /\ UNCHANGED <<state, session, restVars, optionVars>>
  BY DEF Start, RequestNotReady, NotReady, RequestFails, RequestWake, Return, Quietly,
         Goto, InRun, appVars, MayStart

LEMMA AfterInRun ==
  ASSUME After, InRun'
  PROVE  /\ InRun /\ apc # "start" /\ apc' # "start"
         /\ UNCHANGED <<state, session, dataVars, rcb, active, cur, overlap, policy>>
  <1> USE DEF InRun, Aside, Quietly, Goto, ExitWith, At, channelVars, restVars, dataVars,
        serverVars, optionVars
  <1>1. CASE FirstPrompt \/ Listen \/ ListenFails \/ PromptGoesOn \/ PromptFails
    BY <1>1 DEF FirstPrompt, Listen, ListenFails, PromptGoesOn, PromptFails
  <1>2. CASE PromptsEnd \/ NoFrame \/ VoiceFrame
    BY <1>2 DEF PromptsEnd, NoFrame, VoiceFrame, Write
  <1>3. CASE NullFrame \/ Digit \/ Results
    BY <1>3 DEF NullFrame, Digit, Results
  <1> QED
    BY <1>1, <1>2, <1>3 DEF After

LEMMA StartSendInRun ==
  ASSUME IInv, SentOK, StartSend
  PROVE  /\ policy' = "auto" /\ ~playing' => timers'
         /\ ~overlap' => Waiting'
         /\ UNCHANGED appVars /\ apc = "start" /\ session' = "up"
  <1>1. session = "up"
    BY SessionUp DEF StartSend, RequestSend, MayStart, Call, Ops
  <1>2. session' = "up" /\ state' = "READY" /\ apc = "start" /\ UNCHANGED appVars
    BY <1>1 DEF StartSend, RequestSend, UseSession, MayStart
  <1>3. policy' = "auto" /\ ~playing' => timers'
    BY DEF StartSend, ResetData, StartInputTimers, appVars, optionVars
  <1>4. ~overlap' => Waiting'
    <2>1. Append(<<>>, [method |-> "RECOGNIZE", id |-> cur + 1])
            = <<[method |-> "RECOGNIZE", id |-> cur + 1]>>
      OBVIOUS
    <2>2. ~overlap' => requests = <<>> /\ active = <<>> /\ rcb = "none"
      BY DEF StartSend
    <2>3. /\ requests' = Append(requests, [method |-> "RECOGNIZE", id |-> cur + 1])
          /\ cur' = cur + 1 /\ cause' = Unset /\ UNCHANGED <<active, rcb, apc>>
      BY DEF StartSend, Send, ResetData, appVars
    <2> QED
      BY <1>2, <2>1, <2>2, <2>3 DEF Waiting
  <1> QED
    BY <1>2, <1>3, <1>4

\* What handlers leave alone, and that no signalling callback comes in a run.
LEMMA ServerInRun ==
  ASSUME Server \/ FinishMessage \/ StreamRead \/ UNCHANGED recogVars
  PROVE  UNCHANGED <<appVars, session, op, cur, overlap>>
  <1> USE DEF channelVars
  <1>1. CASE Server
    BY <1>1
       DEF Server, AnswerRecognize, AnswerDefine, AnswerTimers, RecognitionComplete,
           StartOfInput, OtherEvent, Sets, StoresThenSets, OnMessage, serverVars
  <1>2. CASE FinishMessage \/ StreamRead \/ UNCHANGED recogVars
    BY <1>2
       DEF FinishMessage, OnMessage, StreamRead, Read, Quietly, recogVars, restVars, serverVars
  <1> QED
    BY <1>1, <1>2

LEMMA NoCallbackInRun ==
  ASSUME IInv, UpInRun, SignallingCallback PROVE ~InRun'
  <1>1. session # "up"
    BY DEF SignallingCallback, Callback, OnChannelAdd, OnTerminateDestroy,
       OnTerminateClose, IInv, Core, Terminating
  <1>2. UNCHANGED <<apc, op>>
    BY DEF SignallingCallback, Callback, OnChannelAdd, OnTerminateDestroy,
       OnTerminateClose, appVars
  <1> QED
    BY <1>1, <1>2 DEF UpInRun, InRun

LEMMA UpStep == ASSUME IInv, SentOK, UpInRun, RecogNext PROVE UpInRun'
  <1>1. CASE Before \/ Exiting
    BY <1>1, OutsideRun DEF UpInRun
  <1>2. CASE StartSend
    BY <1>2, StartSendInRun DEF UpInRun
  <1>3. CASE Start
    BY <1>3, StartInRun DEF UpInRun
  <1>4. CASE After
    BY <1>4, AfterInRun DEF UpInRun
  <1>5. CASE SignallingCallback
    BY <1>5, NoCallbackInRun DEF UpInRun
  <1>6. CASE Server \/ FinishMessage \/ StreamRead \/ UNCHANGED recogVars
    BY <1>6, ServerInRun DEF UpInRun, InRun, appVars
  <1> QED
    BY <1>1, <1>2, <1>3, <1>4, <1>5, <1>6, RecogSteps DEF Handlers

LEMMA StagesStep ==
  ASSUME IInv, SentOK, UpInRun, Stages, RecogNext
  PROVE  Stages'
  <1>1. CASE Before \/ Exiting
    BY <1>1, OutsideRun DEF Stages
  <1>2. CASE StartSend
    BY <1>2, StartSendInRun DEF Stages
  <1>3. CASE Start
    <2> SUFFICES ASSUME InRun' PROVE Stages'
      BY DEF Stages
    <2> QED
      BY <1>3, StartInRun
         DEF Stages, Waiting, InProgress, Complete, Rejected, OnlyTimers, restVars,
             dataVars, serverVars
  <1>4. CASE After
    <2> SUFFICES ASSUME InRun', ~overlap' PROVE Stages'
      BY DEF Stages
    <2>1. UNCHANGED requests \/ requests' = Append(requests, [method |-> "START-INPUT-TIMERS", id |-> 0])
      BY <1>4
         DEF After, FirstPrompt, Listen, ListenFails, PromptGoesOn, PromptFails, PromptsEnd,
             NoFrame, VoiceFrame, NullFrame, Digit, Results, AskForTimers, Send, Aside,
             Quietly, restVars, serverVars
    <2>2. OnlyTimers(requests) => OnlyTimers(requests')
      <3>1. CASE UNCHANGED requests
        BY <3>1 DEF OnlyTimers
      <3>2. CASE requests' = Append(requests, [method |-> "START-INPUT-TIMERS", id |-> 0])
        BY <3>2, TimersAppended DEF SentOK
      <3> QED
        BY <2>1, <3>1, <3>2
    <2>3. InRun /\ apc # "start" /\ UNCHANGED <<state, dataVars, rcb, active, cur, overlap>>
      BY <1>4, AfterInRun
    <2>4. InProgress \/ Complete \/ Rejected
      BY <2>3 DEF Stages, Waiting
    <2>5. OnlyTimers(requests)
      BY <2>4 DEF InProgress, Complete, Rejected
    <2>6. OnlyTimers(requests)'
      BY <2>2, <2>5 DEF OnlyTimers
    <2> QED
      BY <2>3, <2>4, <2>6 DEF Stages, InProgress, Complete, Rejected, dataVars
  <1>5. CASE Server \/ FinishMessage
    <2>1. UNCHANGED <<appVars, session, op, cur, overlap>>
      BY <1>5, ServerInRun
    <2> SUFFICES ASSUME InRun, ~overlap PROVE Stages'
      BY <2>1 DEF Stages, InRun, appVars
    <2>2. Waiting \/ InProgress \/ Complete \/ Rejected
      BY DEF Stages
    <2>3. OnlyTimers(requests) /\ requests # <<>> =>
            Head(requests).method = "START-INPUT-TIMERS" /\ OnlyTimers(Tail(requests))
      BY TimersInTurn DEF SentOK
    <2>4. Waiting => /\ Head(requests) = [method |-> "RECOGNIZE", id |-> cur]
                     /\ Head(requests).method = "RECOGNIZE" /\ Head(requests).id = cur
                     /\ Tail(requests) = <<>>
      BY DEF Waiting
    <2>5. CASE AnswerRecognize
      <3>1. Waiting
        BY <2>2, <2>3, <2>5
           DEF AnswerRecognize, Answers, InProgress, Complete, Rejected
      <3>2. requests' = <<>> /\ OnlyTimers(requests)'
        <4>1. requests' = <<>>
          BY <2>4, <2>5, <3>1 DEF AnswerRecognize, Answers
        <4>2. Len(<<>>) = 0
          BY EmptySeq
        <4> QED
          BY <4>1, <4>2 DEF OnlyTimers
      <3>3. \/ active' = <<cur>> /\ state' = "PROCESSING" /\ UNCHANGED <<rcb, cause>>
            \/ active' = <<>> /\ state' = "ERROR" /\ UNCHANGED <<rcb, cause>>
            \/ active' = <<>> /\ cause' = Failure /\ by' = cur
        BY <2>4, <2>5, <3>1
           DEF AnswerRecognize, Sets, StoresThenSets, SetResults, OnMessage, SetState,
               Waiting, dataVars
      <3> QED
        BY <2>1, <3>1, <3>2, <3>3 DEF Stages, Waiting, InProgress, Complete, Rejected
    <2>6. CASE AnswerDefine
      BY <2>2, <2>3, <2>4, <2>6
         DEF AnswerDefine, Answers, InProgress, Complete, Rejected
    <2>7. CASE AnswerTimers
      <3>1. InProgress \/ Complete \/ Rejected
        BY <2>2, <2>4, <2>7 DEF AnswerTimers, Answers
      <3>2. requests # <<>> /\ requests' = Tail(requests)
        BY <2>7 DEF AnswerTimers, Answers
      <3>3. OnlyTimers(Tail(requests))
        BY <2>3, <3>1, <3>2 DEF InProgress, Complete, Rejected
      <3>4. OnlyTimers(requests)'
        BY <3>2, <3>3 DEF OnlyTimers
      <3> QED
        BY <2>1, <2>7, <3>1, <3>4
           DEF AnswerTimers, Stages, InProgress, Complete, Rejected, channelVars
    <2>8. CASE RecognitionComplete
      <3>1. InProgress
        BY <2>2, <2>8
           DEF RecognitionComplete, Live, Waiting, Complete, Rejected
      <3>2. Head(<<cur>>) = cur /\ Tail(<<cur>>) = <<>>
        OBVIOUS
      <3>3. active' = <<>> /\ cause' \in {Success, Failure} /\ by' = cur /\ UNCHANGED requests
        BY <2>8, <3>1, <3>2
           DEF RecognitionComplete, StoresThenSets, SetResults, InProgress
      <3> QED
        BY <2>1, <3>1, <3>3 DEF Stages, InProgress, Complete, OnlyTimers
    <2>9. CASE StartOfInput
      BY <2>1, <2>2, <2>9
         DEF StartOfInput, Stages, Waiting, InProgress, Complete, Rejected, OnlyTimers,
             channelVars, serverVars, appVars
    <2>10. CASE OtherEvent
      <3>1. state' = "ERROR" /\ UNCHANGED <<rcb, cause, by, active, requests>>
        BY <2>10 DEF OtherEvent, Sets, OnMessage, SetState, dataVars, serverVars
      <3>2. InProgress \/ Complete
        BY <2>2, <2>10 DEF OtherEvent, Live, Waiting, Rejected
      <3> QED
        BY <2>1, <3>1, <3>2 DEF Stages, InProgress, Complete, OnlyTimers
    <2>11. CASE FinishMessage
      <3>1. Complete
        BY <2>2, <2>11 DEF FinishMessage, Waiting, InProgress, Rejected
      <3> QED
        BY <2>1, <2>11, <3>1
           DEF FinishMessage, Stages, Complete, OnlyTimers, dataVars, serverVars
    <2> QED
      BY <1>5, <2>5, <2>6, <2>7, <2>8, <2>9, <2>10, <2>11 DEF Server
  <1>6. CASE SignallingCallback
    BY <1>6, NoCallbackInRun DEF Stages
  <1>7. CASE StreamRead \/ UNCHANGED recogVars
    BY <1>7
       DEF StreamRead, Read, Quietly, recogVars, channelVars, restVars, dataVars, serverVars,
           appVars, Stages, InRun, Waiting, InProgress, Complete, Rejected, OnlyTimers
  <1> QED
    BY <1>1, <1>2, <1>3, <1>4, <1>5, <1>6, <1>7, RecogSteps DEF Handlers

LEMMA TimelyStep ==
  ASSUME IInv, AppOK, SentOK, UpInRun, Stages, Timely, RecogNext
  PROVE  Timely'
  <1>1. CASE Before \/ Exiting
    BY <1>1, OutsideRun DEF Timely
  <1>2. CASE StartSend
    BY <1>2, StartSendInRun DEF Timely
  <1>3. CASE Start
    <2> SUFFICES ASSUME InRun' PROVE Timely'
      BY DEF Timely
    <2> QED
      BY <1>3, StartInRun
         DEF Timely, TimersAsked, restVars, dataVars, serverVars, optionVars
  <1>4. CASE After
    <2> SUFFICES ASSUME InRun', ~overlap', policy' = "auto", ~playing' PROVE Timely'
      BY DEF Timely
    <2>1. /\ InRun /\ ~overlap /\ policy = "auto" /\ apc # "start" /\ apc' # "start"
          /\ UNCHANGED <<state, started, timers>>
      BY <1>4, AfterInRun DEF dataVars
    <2>2. CASE PromptsEnd
      <3>1. CASE state = "PROCESSING" /\ ~timers
        <4>1. refused' = TRUE
              \/ requests' = Append(requests, [method |-> "START-INPUT-TIMERS", id |-> 0])
          BY <2>1, <2>2, <3>1 DEF PromptsEnd, AskForTimers, Send
        <4>2. CASE refused' = TRUE
          BY <4>2 DEF Timely
        <4>3. CASE requests' = Append(requests, [method |-> "START-INPUT-TIMERS", id |-> 0])
          <5>1. [method |-> "START-INPUT-TIMERS", id |-> 0] \in Requests
            BY DEF Requests, Methods
          <5>2. /\ Len(requests) \in Nat /\ Len(requests') = Len(requests) + 1
                /\ requests'[Len(requests) + 1] = [method |-> "START-INPUT-TIMERS", id |-> 0]
            BY <4>3, <5>1, AppendProperties, LenProperties DEF SentOK
          <5>3. TimersAsked'
            BY <5>2 DEF TimersAsked
          <5> QED
            BY <5>3 DEF Timely
        <4> QED
          BY <4>1, <4>2, <4>3
      <3>2. CASE state # "PROCESSING" \/ timers
        BY <2>1, <3>2 DEF Timely
      <3> QED
        BY <3>1, <3>2
    <2>3. CASE PromptGoesOn
      BY <2>1, <2>3 DEF PromptGoesOn, Timely
    <2>4. CASE ~PromptsEnd /\ ~PromptGoesOn
      <3>1. UNCHANGED <<playing, requests, refused>>
        BY <1>4, <2>4, <2>1
           DEF After, FirstPrompt, Listen, ListenFails, PromptFails, NoFrame, VoiceFrame,
               NullFrame, Digit, Results, Goto, ExitWith, Aside, Quietly, optionVars,
               restVars, serverVars, InRun
      <3> QED
        BY <2>1, <3>1 DEF Timely, TimersAsked
    <2> QED
      BY <2>2, <2>3, <2>4
  <1>5. CASE Server \/ FinishMessage
    <2>1. UNCHANGED <<appVars, session, op, cur, overlap>>
      BY <1>5, ServerInRun
    <2> SUFFICES ASSUME InRun, ~overlap, policy = "auto", ~playing PROVE Timely'
      BY <2>1 DEF Timely, InRun, appVars, optionVars
    <2>2. CASE AnswerRecognize \/ AnswerDefine
      <3>1. Waiting
        BY <2>2, TimersInTurn
           DEF SentOK, AnswerRecognize, AnswerDefine, Answers, Stages, InProgress,
               Complete, Rejected
      <3>2. ~TimersAsked /\ apc = "start"
        BY <3>1 DEF Waiting, TimersAsked
      <3>3. UNCHANGED <<timers, started, refused>>
        BY <2>2 DEF AnswerRecognize, AnswerDefine, StoresThenSets, dataVars
      <3> QED
        BY <3>2, <3>3 DEF Timely
    <2>3. CASE AnswerTimers
      BY <2>3 DEF AnswerTimers, Timely
    <2>4. CASE RecognitionComplete \/ StartOfInput \/ OtherEvent \/ FinishMessage
      <3>1. UNCHANGED <<timers, refused, requests, apc>> /\ (started => started')
        BY <2>1, <2>4
           DEF RecognitionComplete, StartOfInput, OtherEvent, FinishMessage, StoresThenSets,
               dataVars, serverVars, appVars
      <3>2. state' = state \/ state' \in {"READY", "ERROR"}
        BY <2>4
           DEF RecognitionComplete, StartOfInput, OtherEvent, FinishMessage, StoresThenSets,
               Sets, OnMessage, SetState, channelVars, AppOK
      <3> QED
        BY <3>1, <3>2 DEF Timely, TimersAsked
    <2> QED
      BY <1>5, <2>2, <2>3, <2>4 DEF Server
  <1>6. CASE SignallingCallback
    BY <1>6, NoCallbackInRun DEF Timely
  <1>7. CASE StreamRead \/ UNCHANGED recogVars
    BY <1>7
       DEF StreamRead, Read, Quietly, recogVars, channelVars, restVars, dataVars, serverVars,
           appVars, optionVars, Timely, InRun, TimersAsked
  <1> QED
    BY <1>1, <1>2, <1>3, <1>4, <1>5, <1>6, <1>7, RecogSteps DEF Handlers

LEMMA OwnStep ==
  ASSUME Stages, Own, RecogNext
  PROVE  Own'
  <1> USE DEF Own, Goto, ExitWith, Aside, Quietly, At, optionVars, runVars, restVars,
        serverVars, appVars
  <1>1. CASE BadCall \/ Exec \/ CreateChannel \/ ProfileMissing \/ OpenChannel
    BY <1>1 DEF BadCall, Exec, CreateChannel, ProfileMissing, OpenChannel
  <1>2. CASE Opening \/ Opened \/ NextGrammar \/ DefineSend
    BY <1>2 DEF Opening, Opened, NextGrammar, DefineSend
  <1>3. CASE Load \/ ReportFailure \/ StartSend \/ Start \/ FirstPrompt
    BY <1>3 DEF Load, Loaded, ReportFailure, StartSend, Start, FirstPrompt
  <1>4. CASE Prompts
    <2>1. apc' = "start" \/ status' \in {"ERROR", "INTERRUPTED"}
      BY <1>4, Zenon DEF Prompts
    <2> QED
      BY <2>1
  <1>5. CASE Listen \/ ListenFails \/ PromptGoesOn \/ PromptFails \/ PromptsEnd \/ NoFrame
             \/ VoiceFrame \/ NullFrame \/ Digit
    BY <1>5
       DEF Listen, ListenFails, PromptGoesOn, PromptFails, PromptsEnd, NoFrame, VoiceFrame,
           NullFrame, Digit
  <1>6. CASE Results
    <2>1. UNCHANGED <<cur, overlap>>
      BY <1>6 DEF Results
    <2>2. ~overlap /\ cause >= 0 => by = cur
      BY <1>6
         DEF Results, Stages, InRun, Waiting, InProgress, Complete, Rejected, Unset
    <2>3. status' = "OK" => cause >= 0 /\ owner' = by
      BY <1>6 DEF Results, GetResults
    <2> QED
      BY <2>1, <2>2, <2>3
  <1>7. CASE Exiting
    BY <1>7 DEF Exiting, ExitKeeps, ExitDestroy, Destroying, HangUp
  <1>8. CASE Server \/ FinishMessage \/ StreamRead \/ UNCHANGED recogVars
    BY <1>8, ServerInRun
  <1>9. CASE SignallingCallback
    BY <1>9 DEF SignallingCallback
  <1> QED
    BY <1>1, <1>2, <1>3, <1>4, <1>5, <1>6, <1>7, <1>8, <1>9, RecogSteps
       DEF Before, After, Handlers

-----------------------------------------------------------------------------
(* The theorems.                                                           *)

RecogInv ==
  /\ AppOK /\ SentOK /\ RecogFlagsOK /\ Counted
  /\ Placed /\ Owed /\ UpInRun /\ Stages /\ Timely /\ Own

LEMMA RecogInitial == RecogInit => RecogInv
  <1> SUFFICES ASSUME RecogInit PROVE RecogInv
    OBVIOUS
  <1>1. AppOK /\ Counted /\ Placed /\ Owed /\ UpInRun /\ Stages /\ Timely /\ Own
    BY RecogAssumption
       DEF RecogAssumption, RecogInit, ChannelInit, AppOK, AppStates, Causes, NoData,
           Unset, Counted, Placed, Owed, UpInRun, Stages, Timely, Own, InRun
  <1>2. SentOK
    BY EmptySeq DEF RecogInit, SentOK
  <1>3. RecogFlagsOK
    BY Zenon DEF RecogInit, RecogFlagsOK
  <1> QED
    BY <1>1, <1>2, <1>3 DEF RecogInv

LEMMA RecogStutter == ASSUME RecogInv, UNCHANGED recogVars PROVE RecogInv'
  <1>1. AppOK' /\ SentOK' /\ Counted' /\ Placed' /\ Owed' /\ UpInRun' /\ Own'
    BY DEF RecogInv, AppOK, SentOK, Counted, Placed, Owed, UpInRun, InRun, Own, recogVars,
       channelVars, appVars, optionVars, runVars, restVars, dataVars, serverVars
  <1>2. Stages' /\ Timely'
    BY DEF RecogInv, Stages, Timely, TimersAsked, InRun, Waiting, InProgress, Complete,
       Rejected, OnlyTimers, recogVars, channelVars, appVars, optionVars, runVars,
       restVars, dataVars, serverVars
  <1>3. RecogFlagsOK'
    BY DEF RecogInv, RecogFlagsOK, recogVars, appVars, optionVars, runVars, restVars,
       dataVars, serverVars
  <1> QED
    BY <1>1, <1>2, <1>3 DEF RecogInv

LEMMA RecogAlways == RecogSpec => []RecogInv
  <1>1. IInv /\ RecogInv /\ [RecogNext]_recogVars => RecogInv'
    BY SentStep, AppStep, RecogFlagsStep, CountedStep, PlacedStep, OwedStep, UpStep,
       StagesStep, TimelyStep, OwnStep, RecogStutter DEF RecogInv
  <1> QED
    BY <1>1, RecogInitial, RecogIInv, PTL DEF RecogSpec

\* The variables of the application, the server and the channel keep their types.
THEOREM RecogTypeCorrect == RecogSpec => []RecogTypeOK
  <1>1. IInv /\ RecogInv => RecogTypeOK
    <2> SUFFICES ASSUME IInv, RecogInv PROVE RecogTypeOK
      OBVIOUS
    <2>1. ChannelTypeOK
      BY DEF IInv, Core, ChannelTypeOK
    <2>2. {plt, profile, playing, started, timers, overlap, refused} \subseteq BOOLEAN
      BY Zenon DEF RecogInv, RecogFlagsOK
    <2>3. requests \in Seq([method : Methods, id : Nat]) /\ active \in Seq(Nat)
      BY DEF RecogInv, SentOK, Requests
    <2> QED
      BY <2>1, <2>2, <2>3 DEF RecogInv, AppOK, RecogTypeOK
  <1> QED
    BY <1>1, RecogIInv, RecogAlways, PTL

\* However a dynamic run ends, and however the call ends, no channel, session,
\* request or callback is left (mrcprecog_exit, app_datastore_destroy).
THEOREM RecogLeavesNothing == RecogSpec => []NothingLeft
  <1>1. IInv /\ RecogInv => NothingLeft
    BY DEF IInv, Core, Adding, Closed, DataOK, RecogInv, Placed, Owed, NothingLeft, At, Gone
  <1> QED
    BY <1>1, RecogIInv, RecogAlways, PTL

\* The loop that reads READY finds results (recog_on_message_receive stores
\* them in a critical section before the one that sets the state).
THEOREM ReadyMeansResults == RecogSpec => []ReadyHasResults
  <1>1. RecogInv => ReadyHasResults
    BY DEF RecogInv, Stages, InRun, Waiting, InProgress, Complete, Rejected, Success,
       Failure, Unset, ReadyHasResults, Listening
  <1> QED
    BY <1>1, RecogAlways, PTL

\* A run reports the outcome of its own RECOGNIZE, for any number of earlier
\* runs on the same channel, if they left the server with nothing to do.
THEOREM RunsReportTheirOwn == RecogSpec => []OutcomeIsOwn
  <1>1. RecogInv => OutcomeIsOwn
    BY DEF RecogInv, Own, OutcomeIsOwn
  <1> QED
    BY <1>1, RecogAlways, PTL

\* The recognizer's timers are started or asked for when the prompts are over
\* (recog_channel_start_input_timers is called once, and not waited for).
THEOREM TimersAreAsked == RecogSpec => []TimersRun
  <1>1. RecogInv => TimersRun
    BY DEF RecogInv, Timely, TimersAsked, InRun, TimersRun, Listening
  <1> QED
    BY <1>1, RecogAlways, PTL

-----------------------------------------------------------------------------
(* No run is stuck: what CallEnds needs besides fairness.                  *)

\* What the recognizer has under way is that of a session that was asked; a
\* channel is in PROCESSING in the loop only while there is something.
Recognition ==
  /\ requests # <<>> \/ active # <<>> \/ rcb # "none" \/ InRun => requested
  /\ InRun /\ state = "PROCESSING" => active # <<>> \/ rcb # "none"

Runs == apc \notin {"idle", "end", "crashed"}
Looping == apc \in {"listen", "prompt", "frame"}

\* The thread has a step that takes the run on: outside the loop any, and in it
\* the next ones if the state is not PROCESSING.
RunReady ==
  /\ Runs
  /\ IF op = "idle" THEN ~Looping \/ state # "PROCESSING" ELSE WakeReady

\* A run that is not over, and has no step that takes it on, waits for the client
\* task to finish a message, for a callback the library owes, or for the end of
\* a recognition the server has in progress; the loop has no timeout.
RunIsNotStuck ==
  Runs =>
    \/ RunReady
    \/ rcb # "none" /\ requested /\ session \in {"up", "terminating"}
    \/ rcb = "none" /\ op # "idle" /\ CallbackReady
    \/ rcb = "none" /\ active # <<>> /\ requested /\ session = "up"
    \/ TerminateCanFail /\ op = "destroy_wait" /\ session = "up"

\* How many steps a run still has before it, the turns of its loop not counted, ...
StageOf(a, g, p) ==
  IF a = "create" THEN 14 + MaxPrompts + 2 * MaxGrammars
  ELSE IF a = "profile" THEN 13 + MaxPrompts + 2 * MaxGrammars
  ELSE IF a = "open" THEN 12 + MaxPrompts + 2 * MaxGrammars
  ELSE IF a = "grammar" THEN 11 + MaxPrompts + 2 * g
  ELSE IF a = "load" THEN 10 + MaxPrompts + 2 * g
  ELSE IF a = "prompts" THEN 10 + MaxPrompts
  ELSE IF a = "start" THEN 9 + p
  ELSE IF a = "first_prompt" THEN 8 + p
  ELSE IF a \in {"listen", "prompt", "frame"} THEN 7 + p
  ELSE IF a \in {"load_failed", "start_failed", "results"} THEN 6
  ELSE IF a = "exit" THEN 5
  ELSE IF a = "destroy" THEN 3
  ELSE IF a = "hangup" THEN 2 ELSE 0

Stage == StageOf(apc, grammars, prompts)

StartToGo == IF apc \in {"load", "start"} /\ op = "idle" THEN 10 ELSE 0

RunToGo == 20 * Stage + StartToGo + ToGo

\* ... how many the server and the client task, and how many the loop has once the
\* state is not PROCESSING.
ServerToGo ==
  4 * Len(requests) + 2 * Len(active) + (IF rcb # "none" THEN 1 ELSE 0)

LoopToGo ==
  IF Looping /\ state = "PROCESSING" THEN 4
  ELSE IF apc = "prompt" THEN 3
  ELSE IF apc = "frame" THEN 2
  ELSE IF apc = "listen" THEN 1 ELSE 0

Nearer ==
  \/ RunToGo' < RunToGo
  \/ RunToGo' = RunToGo /\ ServerToGo' < ServerToGo
  \/ RunToGo' = RunToGo /\ ServerToGo' = ServerToGo /\ LoopToGo' < LoopToGo

Waits ==
  /\ RunToGo' = RunToGo /\ ServerToGo' = ServerToGo /\ LoopToGo' = LoopToGo
  /\ RunReady => RunReady'

\* No step takes a run back: a message may set PROCESSING again, but the server
\* has one less to send.  The steps RunIsNotStuck names take the run on.
RunAdvances ==
  Runs =>
    /\ Nearer \/ Waits
    /\ \/ Run /\ RunReady
       \/ Caller /\ ~VoiceFrame
       \/ SignallingCallback \/ FinishMessage \/ RecognitionComplete
       => Nearer

\* The thread forgets that a request was sent only where there can be none.
LEMMA StillRequested ==
  ASSUME IInv, Before \/ StartSend \/ Start \/ After \/ Exiting \/ StreamRead
  PROVE  (requested => requested') \/ session \in Gone \cup {"adding"}
  <1> USE DEF Quietly, Aside, channelVars
  <1>1. CASE Create \/ OpenFails \/ OpenSend
    BY <1>1 DEF Create, OpenFails, OpenSend, IInv, Core, Closed, Gone
  <1>2. CASE Before
    <2>1. CASE BadCall \/ Exec \/ ProfileMissing \/ Opened \/ NextGrammar
               \/ ReportFailure \/ Prompts
      BY <2>1
         DEF BadCall, Exec, ProfileMissing, Opened, NextGrammar, ReportFailure, Prompts
    <2>2. CASE CreateChannel \/ OpenChannel \/ Opening
      BY <1>1, <2>2
         DEF CreateChannel, CreateFails, OpenChannel, Opening, OpenError, OpenReady,
             OpenDataFails, OpenTermWake
    <2>3. CASE DefineSend \/ Load
      BY <2>3
         DEF DefineSend, Load, GrammarSend, GrammarFails, GrammarNotReady, NotReady,
             GrammarByUri, GrammarWake
    <2> QED
      BY <1>2, <2>1, <2>2, <2>3 DEF Before
  <1>3. CASE StartSend \/ Start
    BY <1>3
       DEF StartSend, Start, RequestSend, RequestNotReady, NotReady, RequestFails, RequestWake
  <1>4. CASE After \/ StreamRead
    BY <1>4
       DEF After, FirstPrompt, Listen, ListenFails, PromptGoesOn, PromptFails, PromptsEnd,
           NoFrame, VoiceFrame, NullFrame, Digit, Results, StreamRead, Write, Read
  <1>5. CASE Exiting
    BY <1>5
       DEF Exiting, ExitKeeps, ExitDestroy, Destroying, HangUp, DestroyClosed, DestroySend,
           DestroyDone, Free
  <1> QED
    BY <1>2, <1>3, <1>4, <1>5

LEMMA RecognitionStep ==
  ASSUME IInv, SentOK, AppOK, Owed, UpInRun, Recognition, RecogNext
  PROVE  Recognition'
  <1>1. CASE StartSend
    BY <1>1 DEF StartSend, RequestSend, MayStart, Recognition
  <1>2. CASE DefineSend
    BY <1>2, OutsideRun DEF DefineSend, GrammarSend, Before, Recognition
  <1>3. CASE PromptsEnd
    <2>1. InRun /\ UNCHANGED <<state, requested, active, rcb>>
      BY <1>3 DEF PromptsEnd, At, InRun, channelVars
    <2> QED
      BY <2>1 DEF Recognition
  <1>4. CASE (Before \/ Exiting) /\ ~DefineSend
    <2>1. ~InRun'
      BY <1>4, OutsideRun
    <2>2. UNCHANGED <<requests, active, rcb>>
          \/ (CreateChannel /\ UNCHANGED rcb /\ requests' = <<>> /\ active' = <<>>)
      BY <1>4
         DEF Before, BadCall, Exec, CreateChannel, ProfileMissing, OpenChannel, Opening,
             Opened, NextGrammar, Load, ReportFailure, Prompts, Exiting, ExitKeeps,
             ExitDestroy, Destroying, HangUp, Quietly, Aside, restVars, serverVars
    <2>3. (requested => requested') \/ session \in Gone \cup {"adding"}
      BY <1>4, StillRequested
    <2> QED
      BY <2>1, <2>2, <2>3 DEF Recognition, Owed
  <1>5. CASE (Start \/ After \/ StreamRead \/ UNCHANGED recogVars) /\ ~PromptsEnd
    <2>1. UNCHANGED <<requests, active, rcb>>
      BY <1>5
         DEF Start, StreamRead, After, FirstPrompt, Listen, ListenFails, PromptGoesOn,
             PromptFails, NoFrame, VoiceFrame, NullFrame, Digit, Results, Quietly, Aside,
             recogVars, restVars, serverVars
    <2>2. InRun' => InRun /\ (state' = "PROCESSING" => state = "PROCESSING")
      <3>1. CASE Start
        BY <3>1, StartInRun
      <3>2. CASE After
        BY <3>2, AfterInRun
      <3>3. CASE StreamRead \/ UNCHANGED recogVars
        <4>1. UNCHANGED <<state, op, apc>>
          BY <3>3
             DEF StreamRead, Quietly, Read, recogVars, channelVars, appVars
        <4> QED
          BY <4>1 DEF InRun
      <3> QED
        BY <1>5, <3>1, <3>2, <3>3
    <2>3. (requested => requested') \/ session \in Gone \cup {"adding"}
      BY <1>5, StillRequested DEF recogVars, channelVars
    <2> QED
      BY <2>1, <2>2, <2>3 DEF Recognition, Owed, UpInRun, Gone
  <1>6. CASE Server \/ FinishMessage
    <2>1. InRun' = InRun /\ UNCHANGED requested
      BY <1>6, ServerInRun
         DEF InRun, appVars, Server, AnswerRecognize, AnswerDefine, AnswerTimers,
             RecognitionComplete, StartOfInput, OtherEvent, Sets, StoresThenSets,
             FinishMessage, OnMessage, channelVars
    <2>2. requested
      BY <1>6
         DEF Server, AnswerRecognize, AnswerDefine, AnswerTimers, RecognitionComplete,
             StartOfInput, OtherEvent, FinishMessage, OnMessage, Answers, Live, Recognition
    <2>3. CASE AnswerRecognize
      <3>1. \A i \in Nat : <<i>> # <<>> /\ Append(active, i) # <<>>
        BY AppendProperties DEF SentOK
      <3>2. Head(requests).id \in Nat
        BY <2>3, SentUpdates DEF AnswerRecognize
      <3> QED
        BY <2>1, <2>2, <2>3, <3>1, <3>2
           DEF AnswerRecognize, Answers, Sets, StoresThenSets, OnMessage, SetState,
               channelVars, Recognition
    <2>4. CASE AnswerDefine \/ AnswerTimers
      BY <2>1, <2>2, <2>4
         DEF AnswerDefine, AnswerTimers, Answers, Sets, StoresThenSets, OnMessage, SetState,
             channelVars, Recognition
    <2>5. CASE RecognitionComplete \/ StartOfInput \/ OtherEvent
      BY <2>1, <2>2, <2>5
         DEF RecognitionComplete, StartOfInput, OtherEvent, Sets, StoresThenSets, OnMessage,
             SetState, channelVars, serverVars, Recognition
    <2>6. CASE FinishMessage
      BY <2>1, <2>2, <2>6 DEF FinishMessage, OnMessage, SetState, AppOK, Recognition
    <2> QED
      BY <1>6, <2>3, <2>4, <2>5, <2>6 DEF Server
  <1>7. CASE SignallingCallback
    <2>1. ~InRun'
      BY <1>7, NoCallbackInRun
    <2>2. UNCHANGED <<rcb, requested>>
          /\ (requests' = requests \/ requests' = <<>>)
          /\ (active' = active \/ active' = <<>>)
      BY <1>7
         DEF SignallingCallback, Callback, OnChannelAdd, OnTerminateDestroy, OnTerminateClose
    <2> QED
      BY <2>1, <2>2 DEF Recognition
  <1> QED
    BY <1>1, <1>2, <1>3, <1>4, <1>5, <1>6, <1>7, RecogSteps DEF Handlers

LEMMA RecogRecognition == RecogSpec => []Recognition
  <1>1. RecogInit => Recognition
    BY DEF RecogInit, ChannelInit, Recognition, InRun
  <1>2. IInv /\ RecogInv /\ Recognition /\ [RecogNext]_recogVars => Recognition'
    <2>1. ASSUME Recognition, UNCHANGED recogVars PROVE Recognition'
      BY <2>1
         DEF Recognition, InRun, recogVars, channelVars, appVars, restVars, serverVars
    <2> QED
      BY <2>1, RecognitionStep DEF RecogInv
  <1> QED
    BY <1>1, <1>2, RecogIInv, RecogAlways, PTL DEF RecogSpec

\* A run waits for nothing that nobody owes: the loop of app_recog_exec, which has
\* no timeout, goes round only during a recognition whose end is to come.
THEOREM RecogIsNotStuck == RecogSpec => []RunIsNotStuck
  <1>1. IInv /\ RecogInv /\ Recognition /\ NoCallIsStuck => RunIsNotStuck
    <2> SUFFICES ASSUME IInv, RecogInv, Recognition, NoCallIsStuck, Runs, ~RunReady
                 PROVE  \/ rcb # "none" /\ requested /\ session \in {"up", "terminating"}
                        \/ rcb = "none" /\ op # "idle" /\ CallbackReady
                        \/ rcb = "none" /\ active # <<>> /\ requested /\ session = "up"
                        \/ TerminateCanFail /\ op = "destroy_wait" /\ session = "up"
      BY DEF RunIsNotStuck
    <2>1. rcb # "none" => requested /\ session \in {"up", "terminating"}
      BY DEF RecogInv, Recognition, Owed, IInv, Core, DataOK, SessionStates, Gone
    <2>2. CASE op # "idle"
      BY <2>1, <2>2 DEF NoCallIsStuck, RunReady
    <2>3. CASE op = "idle"
      <3>1. state = "PROCESSING" /\ InRun
        BY <2>3 DEF RunReady, Looping, InRun
      <3> QED
        BY <2>1, <3>1 DEF Recognition, RecogInv, UpInRun
    <2> QED
      BY <2>2, <2>3
  <1>2. RecogSpec => []NoCallIsStuck
    BY RecogUsesChannel, NobodyWaitsInVain DEF ChannelUsed
  <1> QED
    BY <1>1, <1>2, RecogIInv, RecogAlways, RecogRecognition, PTL

\* The stages come in the order of the code, with as many of them for a grammar and
\* for a prompt as there are steps.
LEMMA StageIsNatural ==
  ASSUME NEW a, NEW g \in 0..MaxGrammars, NEW p \in 0..MaxPrompts
  PROVE  StageOf(a, g, p) \in Nat
  BY RecogAssumption DEF RecogAssumption, StageOf

LEMMA StageOrder ==
  ASSUME NEW g \in 0..MaxGrammars, NEW p \in 0..MaxPrompts,
         NEW h \in 0..MaxGrammars, NEW q \in 0..MaxPrompts
  PROVE  /\ StageOf("profile", h, q) < StageOf("create", g, p)
         /\ StageOf("open", h, q) < StageOf("profile", g, p)
         /\ StageOf("grammar", h, q) < StageOf("open", g, p)
         /\ StageOf("load", g, q) < StageOf("grammar", g, p)
         /\ g > 0 => StageOf("grammar", g - 1, q) < StageOf("load", g, p)
         /\ StageOf("prompts", h, q) < StageOf("grammar", g, p)
         /\ StageOf("start", h, q) < StageOf("prompts", g, p)
         /\ StageOf("first_prompt", h, p) < StageOf("start", g, p)
         /\ StageOf("listen", h, p) < StageOf("first_prompt", g, p)
  <1> USE RecogAssumption DEF RecogAssumption, StageOf
  <1>1. /\ StageOf("profile", h, q) < StageOf("create", g, p)
        /\ StageOf("open", h, q) < StageOf("profile", g, p)
    OBVIOUS
  <1>2. StageOf("grammar", h, q) < StageOf("open", g, p)
    OBVIOUS
  <1>3. /\ StageOf("load", g, q) < StageOf("grammar", g, p)
        /\ g > 0 => StageOf("grammar", g - 1, q) < StageOf("load", g, p)
    OBVIOUS
  <1>4. /\ StageOf("prompts", h, q) < StageOf("grammar", g, p)
        /\ StageOf("start", h, q) < StageOf("prompts", g, p)
    OBVIOUS
  <1>5. /\ StageOf("first_prompt", h, p) < StageOf("start", g, p)
        /\ StageOf("listen", h, p) < StageOf("first_prompt", g, p)
    OBVIOUS
  <1> HIDE RecogAssumption DEF RecogAssumption, StageOf
  <1> QED
    BY <1>1, <1>2, <1>3, <1>4, <1>5

\* The last ones are left to a run that has failed, or has its results.
Early == {"create", "profile", "open", "grammar", "load", "prompts", "start",
          "first_prompt", "listen", "prompt", "frame"}
Late == {"load_failed", "start_failed", "results"}

LEMMA LastStages ==
  ASSUME NEW g \in 0..MaxGrammars, NEW p \in 0..MaxPrompts
  PROVE  /\ \A a \in Early : 6 < StageOf(a, g, p)
         /\ \A a \in Late : StageOf(a, g, p) = 6
         /\ StageOf("exit", g, p) = 5 /\ StageOf("destroy", g, p) = 3
         /\ StageOf("hangup", g, p) = 2
         /\ \A a \in {"idle", "end", "crashed"} : StageOf(a, g, p) = 0
  <1>1. ASSUME NEW a \in Early PROVE 6 < StageOf(a, g, p)
    BY RecogAssumption DEF RecogAssumption, Early, StageOf
  <1>2. ASSUME NEW a \in Late PROVE StageOf(a, g, p) = 6
    BY DEF Late, StageOf
  <1>3. /\ StageOf("exit", g, p) = 5 /\ StageOf("destroy", g, p) = 3
        /\ StageOf("hangup", g, p) = 2
    BY DEF StageOf
  <1>4. ASSUME NEW a \in {"idle", "end", "crashed"} PROVE StageOf(a, g, p) = 0
    BY DEF StageOf
  <1> QED
    BY <1>1, <1>2, <1>3, <1>4

\* A run that fails, or that is over, passes the stages it had before it.
LEMMA LateStage ==
  ASSUME AppOK, AppOK',
         \/ apc \in Early /\ apc' \in Late \cup {"exit", "idle", "end", "crashed"}
         \/ apc \in Late /\ apc' = "exit"
         \/ apc = "exit" /\ apc' \in {"destroy", "idle"}
         \/ apc \in {"destroy", "hangup"} /\ apc' \in {"idle", "end"}
  PROVE  Stage' < Stage
  <1>1. /\ grammars \in 0..MaxGrammars /\ grammars' \in 0..MaxGrammars
        /\ prompts \in 0..MaxPrompts /\ prompts' \in 0..MaxPrompts
    BY DEF AppOK
  <1>2. /\ \A a \in Early : 6 < Stage \/ apc # a
        /\ \A a \in Late : Stage = 6 \/ apc # a
        /\ apc = "exit" => Stage = 5
        /\ apc = "destroy" => Stage = 3
        /\ apc = "hangup" => Stage = 2
    BY <1>1, LastStages DEF Stage
  <1>3. /\ \A a \in Late : Stage' = 6 \/ apc' # a
        /\ apc' = "exit" => Stage' = 5
        /\ apc' = "destroy" => Stage' = 3
        /\ \A a \in {"idle", "end", "crashed"} : Stage' = 0 \/ apc' # a
    BY <1>1, LastStages DEF Stage
  <1>4. Stage \in Nat /\ Stage' \in Nat
    BY <1>1, StageIsNatural DEF Stage
  <1> QED
    BY <1>2, <1>3, <1>4

\* A step that goes to a later stage takes the run on, whatever call it begins.
LEMMA LaterStage ==
  ASSUME AppOK, AppOK', Stage' < Stage PROVE RunToGo' < RunToGo
  <1>1. ToGo \in 0..8 /\ ToGo' \in 0..8
    BY DEF ToGo
  <1>2. Stage \in Nat /\ Stage' \in Nat
    BY StageIsNatural DEF Stage, AppOK
  <1>3. StartToGo \in {0, 10} /\ StartToGo' \in {0, 10}
    BY DEF StartToGo
  <1>4. \A a, b \in Nat, c, d \in {0, 10}, e, f \in 0..8 :
          b < a => 20 * b + d + f < 20 * a + c + e
    OBVIOUS
  <1> QED
    BY <1>1, <1>2, <1>3, <1>4 DEF RunToGo

\* Within a stage a run is taken on by a call that goes on, or by one that begins
\* if it was to begin.
LEMMA SameStage ==
  ASSUME AppOK, UNCHANGED <<apc, grammars, prompts>>,
         \/ StartToGo' = StartToGo /\ ToGo' < ToGo
         \/ StartToGo' = 0 /\ StartToGo = 10
  PROVE  RunToGo' < RunToGo
  <1>1. ToGo \in 0..8 /\ ToGo' \in 0..8
    BY DEF ToGo
  <1>2. Stage \in Nat /\ Stage' = Stage
    BY StageIsNatural DEF Stage, AppOK
  <1>3. StartToGo \in {0, 10} /\ StartToGo' \in {0, 10}
    BY DEF StartToGo
  <1>4. \A a \in Nat, c, d \in {0, 10}, e, f \in 0..8 :
          (d = c /\ f < e) \/ (d = 0 /\ c = 10) => 20 * a + d + f < 20 * a + c + e
    OBVIOUS
  <1> QED
    BY <1>1, <1>2, <1>3, <1>4 DEF RunToGo

LEMMA WakeInStage ==
  ASSUME IInv, AppOK, Wake, op # "idle", UNCHANGED appVars,
         apc \in {"load", "start"} => op' # "idle"
  PROVE  RunToGo' < RunToGo
  <1>1. ToGo' < ToGo
    BY WakeAdvances
  <1>2. StartToGo' = StartToGo /\ UNCHANGED <<apc, grammars, prompts>>
    BY DEF StartToGo, appVars, optionVars
  <1> QED
    BY <1>1, <1>2, SameStage

\* The thread begins to wait for its turn, or for an answer, only once in a call.
LEMMA BeginInStage ==
  ASSUME AppOK, apc \in {"load", "start"}, op = "idle", op' # "idle", UNCHANGED appVars
  PROVE  RunToGo' < RunToGo
  <1>1. StartToGo = 10 /\ StartToGo' = 0 /\ UNCHANGED <<apc, grammars, prompts>>
    BY DEF StartToGo, appVars, optionVars
  <1> QED
    BY <1>1, SameStage

LEMMA BeforeTakesOn ==
  ASSUME IInv, AppOK, AppOK', Counted, Runs, Before
  PROVE  RunToGo' < RunToGo
  <1>1. CASE CreateChannel \/ ProfileMissing \/ OpenChannel \/ Opened \/ ReportFailure
    <2>1. \/ apc = "create" /\ apc' \in {"profile", "exit"}
          \/ apc = "profile" /\ apc' \in {"open", "exit"}
          \/ apc = "open" /\ apc' \in {"grammar", "exit"}
          \/ apc \in {"load_failed", "start_failed"} /\ apc' = "exit"
      BY <1>1
         DEF CreateChannel, ProfileMissing, OpenChannel, Opened, ReportFailure, Goto,
             ExitWith, At
    <2>2. CASE apc' # "exit"
      BY <2>1, <2>2, StageOrder, LaterStage DEF AppOK, Stage
    <2>3. CASE apc' = "exit"
      BY <2>1, <2>3, LateStage, LaterStage DEF Early, Late
    <2> QED
      BY <2>2, <2>3
  <1>2. CASE NextGrammar
    <2>1. /\ apc = "grammar" /\ grammars' = grammars
          /\ apc' \in {"prompts", "load", "load_failed", "exit", "crashed"}
      BY <1>2 DEF NextGrammar, Goto, ExitWith, At, optionVars
    <2>2. CASE apc' \in {"prompts", "load"}
      BY <2>1, <2>2, StageOrder, LaterStage DEF AppOK, Stage
    <2>3. CASE apc' \in {"load_failed", "exit", "crashed"}
      BY <2>1, <2>3, LateStage, LaterStage DEF Early, Late
    <2> QED
      BY <2>1, <2>2, <2>3
  <1>3. CASE Prompts
    <2>1. apc = "prompts" /\ apc' \in {"start", "exit"}
      BY <1>3 DEF Prompts, ExitWith, At
    <2>2. CASE apc' = "start"
      BY <2>1, <2>2, StageOrder, LaterStage DEF AppOK, Stage
    <2>3. CASE apc' = "exit"
      BY <2>1, <2>3, LateStage, LaterStage DEF Early
    <2> QED
      BY <2>1, <2>2, <2>3
  <1>4. CASE Opening
    BY <1>4, WakeInStage
       DEF Opening, Quietly, appVars, Wake, OpenReady, OpenDataFails, OpenError,
           OpenTermWake
  <1>5. CASE DefineSend
    <2>1. apc = "load" /\ op' = "grammar_wait" /\ GrammarSend /\ UNCHANGED appVars
      BY <1>5 DEF DefineSend, GrammarSend
    <2> QED
      BY <2>1, BeginInStage, WakeInStage DEF Wake
  <1>6. CASE Load
    <2>1. CASE GrammarNotReady /\ UNCHANGED appVars
      BY <1>6, <2>1, BeginInStage DEF Load, GrammarNotReady, Call
    <2>2. CASE Goto("load_failed")
      BY <1>6, <2>2, LateStage, LaterStage DEF Load, Goto, Early, Late
    <2>3. CASE Loaded
      <3>1. apc = "load" /\ apc' = "grammar" /\ grammars' = grammars - 1 /\ grammars > 0
        BY <1>6, <2>3 DEF Load, Loaded, Counted
      <3> QED
        BY <3>1, StageOrder, LaterStage DEF AppOK, Stage
    <2> QED
      BY <1>6, <2>1, <2>2, <2>3 DEF Load, Quietly
  <1> QED
    BY <1>1, <1>2, <1>3, <1>4, <1>5, <1>6 DEF Before, BadCall, Exec, Runs, At

LEMMA StartTakesOn ==
  ASSUME IInv, AppOK, AppOK', StartSend \/ Start
  PROVE  RunToGo' < RunToGo
  <1>1. CASE StartSend
    <2>1. apc = "start" /\ op' = "request_wait" /\ RequestSend /\ UNCHANGED appVars
      BY <1>1 DEF StartSend, RequestSend
    <2> QED
      BY <2>1, BeginInStage, WakeInStage DEF Wake
  <1>2. CASE Start
    <2>1. CASE RequestNotReady /\ UNCHANGED appVars
      BY <1>2, <2>1, BeginInStage DEF Start, RequestNotReady, Call
    <2>2. CASE Goto("first_prompt")
      <3>1. apc = "start" /\ apc' = "first_prompt" /\ prompts' = prompts
        BY <1>2, <2>2 DEF Start, Goto, optionVars
      <3> QED
        BY <3>1, StageOrder, LaterStage DEF AppOK, Stage
    <2>3. CASE Goto("start_failed")
      BY <1>2, <2>3, LateStage, LaterStage DEF Start, Goto, Early, Late
    <2> QED
      BY <1>2, <2>1, <2>2, <2>3 DEF Start, Quietly
  <1> QED
    BY <1>1, <1>2

LEMMA ExitingTakesOn ==
  ASSUME IInv, AppOK, AppOK', Runs, Exiting
  PROVE  RunToGo' < RunToGo
  <1>1. CASE ExitKeeps \/ ExitDestroy
    BY <1>1, LateStage, LaterStage DEF ExitKeeps, ExitDestroy, Goto, At
  <1>2. CASE Destroying
    <2>1. CASE DestroyDone /\ UNCHANGED appVars
      BY <1>2, <2>1, WakeInStage DEF Destroying, DestroyDone, Wake
    <2>2. CASE Goto(IF apc = "destroy" THEN "idle" ELSE "end")
      BY <1>2, <2>2, LateStage, LaterStage DEF Destroying, Goto
    <2> QED
      BY <1>2, <2>1, <2>2 DEF Destroying, Quietly
  <1> QED
    BY <1>1, <1>2 DEF Exiting, HangUp, Runs, At

\* The loop: a run passes a stage with each prompt, and else stays where it is.
LEMMA TurnOfLoop ==
  ASSUME AppOK, AppOK', Looping, Looping', UNCHANGED <<op, session, cb>>,
         prompts' \in {prompts, prompts - 1}
  PROVE  RunToGo' < RunToGo \/ (RunToGo' = RunToGo /\ prompts' = prompts)
  <1>1. ASSUME NEW a \in {"listen", "prompt", "frame"}, NEW g, NEW p
        PROVE  StageOf(a, g, p) = 7 + p
    BY DEF StageOf
  <1>2. Stage = 7 + prompts /\ Stage' = 7 + prompts'
    BY <1>1 DEF Looping, Stage
  <1>3. prompts \in Nat
    BY RecogAssumption DEF RecogAssumption, AppOK
  <1>4. CASE prompts' = prompts
    <2>1. StartToGo = 0 /\ StartToGo' = 0
      BY DEF StartToGo, Looping
    <2>2. ToGo' = ToGo
      BY DEF ToGo
    <2> QED
      BY <1>2, <1>4, <2>1, <2>2 DEF RunToGo
  <1>5. CASE prompts' = prompts - 1
    BY <1>2, <1>3, <1>5, LaterStage
  <1> QED
    BY <1>4, <1>5

LEMMA LoopTakesOn ==
  ASSUME IInv, AppOK, AppOK', Counted, Runs, After
  PROVE  /\ Nearer \/ Waits
         /\ (Run /\ RunReady) \/ (Caller /\ ~VoiceFrame) => Nearer
  <1>1. CASE FirstPrompt /\ apc' = "listen"
    <2>1. apc = "first_prompt" /\ prompts' = prompts
      BY <1>1 DEF FirstPrompt, Goto, ExitWith, At, optionVars
    <2> QED
      BY <1>1, <2>1, StageOrder, LaterStage DEF AppOK, Stage, Nearer
  <1>2. CASE apc \in Early /\ apc' \in {"results", "exit"}
    BY <1>2, LateStage, LaterStage DEF Late, Nearer
  <1>3. CASE Results
    BY <1>3, LateStage, LaterStage DEF Results, At, Late, Nearer
  <1>4. CASE PromptsEnd
    <2>1. Looping /\ Looping' /\ UNCHANGED <<op, session, cb>>
          /\ prompts' = prompts - 1 /\ prompts' # prompts
      BY <1>4 DEF PromptsEnd, At, Looping, channelVars
    <2> QED
      BY <2>1, TurnOfLoop DEF Nearer
  <1>5. CASE (Listen \/ PromptGoesOn \/ NoFrame \/ VoiceFrame) /\ Looping'
    <2>1. Looping /\ op = "idle" /\ UNCHANGED <<state, op, session, cb>>
      BY <1>5
         DEF Listen, PromptGoesOn, NoFrame, VoiceFrame, Aside, Quietly, Write, Call, Return,
             At, Looping, channelVars
    <2>2. prompts' \in {prompts, prompts - 1} /\ UNCHANGED <<requests, active, rcb>>
      BY <1>5
         DEF Listen, PromptGoesOn, NoFrame, VoiceFrame, Aside, Quietly, Goto, optionVars,
             restVars, serverVars
    <2>3. ASSUME Caller PROVE VoiceFrame
      <3>1. ~BadCall /\ ~Exec /\ ~HangUp
        BY <2>1 DEF BadCall, Exec, HangUp, At, Looping
      <3>2. ~ListenFails /\ ~NullFrame /\ ~PromptFails
        BY <1>5 DEF ListenFails, NullFrame, PromptFails, Goto, ExitWith, Looping
      <3>3. ~Digit
        BY <1>5 DEF Digit, Interrupts, Looping
      <3> QED
        BY <2>3, <3>1, <3>2, <3>3 DEF Caller
    <2>4. CASE RunToGo' < RunToGo
      BY <2>4 DEF Nearer
    <2>5. CASE RunToGo' = RunToGo
      <3>1. ServerToGo' = ServerToGo
        BY <2>2 DEF ServerToGo
      <3>2. CASE state = "PROCESSING"
        <4>1. LoopToGo' = LoopToGo
          BY <1>5, <2>1, <3>2 DEF LoopToGo
        <4>2. ~RunReady
          BY <2>1, <3>2 DEF RunReady
        <4> QED
          BY <2>3, <2>5, <3>1, <4>1, <4>2 DEF Waits
      <3>3. CASE state # "PROCESSING"
        <4>1. \/ apc = "prompt" /\ apc' = "frame"
              \/ apc = "frame" /\ apc' = "listen"
          BY <1>5, <3>3
             DEF Listen, PromptGoesOn, NoFrame, VoiceFrame, Goto, At, Looping
        <4>2. LoopToGo' < LoopToGo
          BY <2>1, <3>3, <4>1 DEF LoopToGo
        <4> QED
          BY <2>5, <3>1, <4>2 DEF Nearer
      <3> QED
        BY <3>2, <3>3
    <2> QED
      BY <1>5, <2>1, <2>2, <2>4, <2>5, TurnOfLoop
  <1>6. CASE FirstPrompt
    <2>1. apc = "first_prompt" /\ apc' \in {"listen", "exit"}
      BY <1>6 DEF FirstPrompt, Goto, ExitWith, At
    <2> QED
      BY <1>1, <1>2, <1>6, <2>1 DEF Early
  <1>7. CASE ListenFails \/ PromptFails \/ NullFrame \/ Digit
    <2>1. apc \in Early /\ apc' \in {"results", "exit"}
      BY <1>7
         DEF ListenFails, PromptFails, NullFrame, Digit, Interrupts, Goto, ExitWith, At, Early
    <2> QED
      BY <1>2, <2>1
  <1>8. CASE Listen \/ PromptGoesOn \/ NoFrame \/ VoiceFrame
    <2>1. apc \in Early /\ (apc' = "results" \/ Looping')
      BY <1>8 DEF Listen, PromptGoesOn, NoFrame, VoiceFrame, Goto, At, Early, Looping
    <2> QED
      BY <1>2, <1>5, <1>8, <2>1
  <1> QED
    BY <1>3, <1>4, <1>6, <1>7, <1>8 DEF After

LEMMA LibraryTakesOn ==
  ASSUME IInv, AppOK, SignallingCallback
  PROVE  RunToGo' < RunToGo
  <1>1. ToGo' < ToGo /\ op' = op /\ UNCHANGED <<apc, grammars, prompts>>
    BY CallbackAdvances DEF SignallingCallback, appVars, optionVars
  <1>2. StartToGo' = StartToGo
    BY <1>1 DEF StartToGo
  <1> QED
    BY <1>1, <1>2, SameStage

\* The server has one message less to send with each that it sends.
LEMMA ServerSends ==
  ASSUME SentOK, AppOK, Server \/ FinishMessage
  PROVE  \/ ServerToGo' < ServerToGo
         \/ (StartOfInput \/ OtherEvent) /\ UNCHANGED <<requests, active, rcb>>
  <1> DEFINE Pending == IF rcb # "none" THEN 1 ELSE 0
  <1>1. Len(requests) \in Nat /\ Len(active) \in Nat /\ Pending \in {0, 1} /\ Pending' \in {0, 1}
    BY LenProperties DEF SentOK
  <1>2. ServerToGo = 4 * Len(requests) + 2 * Len(active) + Pending
        /\ ServerToGo' = 4 * Len(requests') + 2 * Len(active') + Pending'
    BY DEF ServerToGo
  <1> HIDE DEF Pending
  <1>3. CASE AnswerRecognize \/ AnswerDefine \/ AnswerTimers
    <2>1. requests # <<>> /\ requests' = Tail(requests) /\ rcb = "none"
      BY <1>3 DEF AnswerRecognize, AnswerDefine, AnswerTimers, Answers
    <2>2. Len(requests') = Len(requests) - 1
      BY <2>1, HeadTailProperties, LenProperties DEF SentOK
    <2>3. Len(active') \in {Len(active), Len(active) + 1}
      <3>1. \/ UNCHANGED active
            \/ active = <<>> /\ active' = <<Head(requests).id>>
            \/ active' = Append(active, Head(requests).id)
        BY <1>3 DEF AnswerRecognize, AnswerDefine, AnswerTimers
      <3>2. Head(requests).id \in Nat
        BY <1>3, SentUpdates DEF AnswerRecognize, AnswerDefine, AnswerTimers
      <3>3. \A i \in Nat : Len(<<i>>) = 1 /\ Len(Append(active, i)) = Len(active) + 1
        BY AppendProperties DEF SentOK
      <3>4. Len(<<>>) = 0
        OBVIOUS
      <3>5. CASE active = <<>> /\ active' = <<Head(requests).id>>
        <4>1. Len(active') = 1 /\ Len(active) = 0
          BY <3>2, <3>3, <3>4, <3>5
        <4> QED
          BY <4>1
      <3>6. CASE active' = Append(active, Head(requests).id)
        BY <3>2, <3>3, <3>6
      <3> QED
        BY <3>1, <3>5, <3>6
    <2>4. Pending = 0
      BY <2>1 DEF Pending
    <2> QED
      BY <1>1, <1>2, <2>2, <2>3, <2>4
  <1>4. CASE RecognitionComplete
    <2>1. active # <<>> /\ active' = Tail(active) /\ rcb = "none" /\ UNCHANGED requests
      BY <1>4 DEF RecognitionComplete, Live
    <2>2. Len(active') = Len(active) - 1
      <3>1. active \in Seq(Nat)
        BY DEF SentOK
      <3> QED
        BY <2>1, <3>1, HeadTailProperties, LenProperties
    <2>3. Pending = 0
      BY <2>1 DEF Pending
    <2>4. Len(requests') = Len(requests)
      BY <2>1
    <2> QED
      BY <1>1, <1>2, <2>2, <2>3, <2>4
  <1>5. CASE FinishMessage
    <2>1. Pending = 1 /\ Pending' = 0 /\ UNCHANGED <<requests, active>>
      BY <1>5 DEF FinishMessage, serverVars, Pending
    <2> QED
      BY <1>1, <1>2, <2>1
  <1>6. CASE StartOfInput \/ OtherEvent
    BY <1>6 DEF StartOfInput, OtherEvent, Sets, serverVars
  <1> QED
    BY <1>3, <1>4, <1>5, <1>6 DEF Server

LEMMA ServerTakesOn ==
  ASSUME IInv, SentOK, AppOK, Server \/ FinishMessage
  PROVE  /\ Nearer \/ Waits
         /\ FinishMessage \/ RecognitionComplete => Nearer
  <1>1. UNCHANGED <<apc, grammars, prompts, op, session, cb>>
    BY DEF Server, AnswerRecognize, AnswerDefine, AnswerTimers, RecognitionComplete,
       StartOfInput, OtherEvent, Sets, StoresThenSets, FinishMessage, OnMessage, appVars,
       optionVars, channelVars
  <1>2. RunToGo' = RunToGo
    BY <1>1 DEF RunToGo, Stage, StartToGo, ToGo
  <1>3. CASE ServerToGo' < ServerToGo
    BY <1>2, <1>3 DEF Nearer
  <1>4. CASE (StartOfInput \/ OtherEvent) /\ UNCHANGED <<requests, active, rcb>>
    <2>1. ServerToGo' = ServerToGo
      BY <1>4 DEF ServerToGo
    <2>2. UNCHANGED state \/ (state' = "ERROR" /\ session \in {"up", "terminating"})
      BY <1>4 DEF StartOfInput, OtherEvent, Live, Sets, OnMessage, SetState, channelVars
    <2>3. LoopToGo' = LoopToGo \/ LoopToGo' < LoopToGo
      BY <1>1, <2>2 DEF LoopToGo, Looping
    <2>4. RunReady => RunReady'
      BY <1>1, <2>2 DEF RunReady, Runs, Looping, WakeReady, IInv, Core, Closed, Gone
    <2>5. ~FinishMessage
      BY <1>4 DEF FinishMessage
    <2>6. ~RecognitionComplete
      BY <1>4 DEF RecognitionComplete, Live, StoresThenSets
    <2> QED
      BY <1>2, <2>1, <2>3, <2>4, <2>5, <2>6 DEF Nearer, Waits
  <1> QED
    BY <1>3, <1>4, ServerSends

\* The measures do not go below zero, so that a run is taken on only so often.
LEMMA RecogMeasures ==
  RecogSpec => [](RunToGo \in Nat /\ ServerToGo \in Nat /\ LoopToGo \in Nat)
  <1>1. RecogInv => RunToGo \in Nat /\ ServerToGo \in Nat /\ LoopToGo \in Nat
    <2> SUFFICES ASSUME RecogInv
                 PROVE  RunToGo \in Nat /\ ServerToGo \in Nat /\ LoopToGo \in Nat
      OBVIOUS
    <2>1. Stage \in Nat
      BY StageIsNatural DEF Stage, RecogInv, AppOK
    <2>2. StartToGo \in Nat /\ ToGo \in Nat
      BY DEF StartToGo, ToGo
    <2>3. Len(requests) \in Nat /\ Len(active) \in Nat
      BY LenProperties DEF RecogInv, SentOK
    <2>4. LoopToGo \in Nat
      BY DEF LoopToGo
    <2> QED
      BY <2>1, <2>2, <2>3, <2>4 DEF RunToGo, ServerToGo
  <1> QED
    BY <1>1, RecogAlways, PTL

\* Every run of app_recog_exec comes nearer its end with each step that it waits
\* for, and nothing the server may say, or the caller, takes it back.
THEOREM RecogRunsAdvance == RecogSpec => [][RunAdvances]_recogVars
  <1>1. IInv /\ RecogInv /\ RecogInv' /\ RecogNext => RunAdvances \/ UNCHANGED recogVars
    <2> SUFFICES ASSUME IInv, RecogInv, RecogInv', RecogNext, Runs, ~UNCHANGED recogVars
                 PROVE  /\ Nearer \/ Waits
                        /\ \/ Run /\ RunReady
                           \/ Caller /\ ~VoiceFrame
                           \/ SignallingCallback \/ FinishMessage \/ RecognitionComplete
                           => Nearer
      BY DEF RunAdvances
    <2> USE DEF RecogInv
    <2>1. Before \/ StartSend \/ Start \/ Exiting \/ SignallingCallback => Nearer
      BY BeforeTakesOn, StartTakesOn, ExitingTakesOn, LibraryTakesOn DEF Nearer
    <2>2. After => /\ Nearer \/ Waits
                   /\ (Run /\ RunReady) \/ (Caller /\ ~VoiceFrame) => Nearer
      BY LoopTakesOn
    <2>3. Server \/ FinishMessage =>
            /\ Nearer \/ Waits
            /\ FinishMessage \/ RecognitionComplete => Nearer
      BY ServerTakesOn
    <2>4. StreamRead => Waits
      <3>1. StreamRead => UNCHANGED <<apc, grammars, prompts, state, session, op, cb,
                                      requests, active, rcb>>
        BY DEF StreamRead, Quietly, Read, appVars, optionVars, restVars, serverVars
      <3> QED
        BY <3>1
           DEF Waits, RunToGo, Stage, StartToGo, ToGo, ServerToGo, LoopToGo, Looping,
               RunReady, Runs, WakeReady
    <2>5. Run => Before \/ StartSend \/ Start \/ After \/ Exiting
      BY DEF Run, Before, After, Exiting
    <2>6. Caller => Before \/ After \/ Exiting
      BY DEF Caller, Before, After, Exiting
    <2>7. \/ Before \/ StartSend \/ Start \/ After \/ Exiting \/ Server \/ FinishMessage
          \/ SignallingCallback \/ StreamRead
      BY RecogSteps DEF Handlers
    <2> QED
      BY <2>1, <2>2, <2>3, <2>4, <2>5, <2>6, <2>7 DEF Server
  <1> QED
    BY <1>1, RecogIInv, RecogAlways, PTL DEF RecogSpec

-----------------------------------------------------------------------------
(* The runs on the entry.                                                  *)

EntryVars == <<EntryAt, EntryUses, EntryLasting, EntryHeld>>

\* Only a dynamic run destroys.
Dynamic == apc = "destroy" => ~plt

LEMMA RecogDynamic == RecogSpec => []Dynamic
  <1>1. RecogInit => Dynamic
    BY DEF RecogInit, Dynamic
  <1>2. Dynamic /\ [RecogNext]_recogVars => Dynamic'
    <2> SUFFICES ASSUME Dynamic, [RecogNext]_recogVars PROVE Dynamic'
      OBVIOUS
    <2> USE DEF Dynamic, Goto, ExitWith
    <2>1. CASE Before
      BY <2>1 DEF Before, BadCall, Exec, CreateChannel, ProfileMissing, OpenChannel,
         Opening, Opened, NextGrammar, DefineSend, Load, Loaded, ReportFailure, Prompts, At,
         appVars, optionVars
    <2>2. CASE StartSend \/ Start \/ StreamRead
      BY <2>2 DEF StartSend, Start, StreamRead, appVars, optionVars
    <2>3. CASE After
      BY <2>3 DEF After, FirstPrompt, Listen, ListenFails, PromptGoesOn, PromptFails,
         PromptsEnd, NoFrame, VoiceFrame, NullFrame, Digit, Results, At
    <2>4. CASE Exiting
      BY <2>4 DEF Exiting, ExitKeeps, ExitDestroy, Destroying, HangUp, At, appVars,
         optionVars
    <2>5. CASE Handlers
      BY <2>5 DEF Handlers, Server, AnswerRecognize, AnswerDefine, AnswerTimers,
         RecognitionComplete, StartOfInput, OtherEvent, FinishMessage, SignallingCallback,
         appVars, optionVars
    <2>6. CASE UNCHANGED recogVars
      BY <2>6 DEF recogVars, appVars, optionVars
    <2>7. QED
      BY <2>1, <2>2, <2>3, <2>4, <2>5, <2>6, RecogSteps
  <1>3. QED
    BY <1>1, <1>2, PTL DEF RecogSpec

LEMMA EntryStays ==
  ASSUME plt' = plt, chan' = chan,
         \/ apc' = apc
         \/ {apc, apc'} \cap {"idle", "hangup", "end", "crashed"} = {}
  PROVE  UNCHANGED EntryVars
  BY DEF EntryVars, EntryAt, EntryUses, EntryLasting, EntryHeld, OnEntry

\* Whatever neither creates nor destroys the channel, and neither begins nor ends
\* a run, is no step of the entry.
LEMMA RecogEntryStays ==
  ASSUME RecogNext,
         ~(Exec \/ CreateChannel \/ NextGrammar \/ Exiting)
  PROVE  UNCHANGED EntryVars
  <1> USE DEF Quietly, Aside, At, Goto, ExitWith, optionVars
  <1>1. CASE BadCall \/ ProfileMissing \/ Opened \/ ReportFailure \/ Prompts
    BY <1>1, EntryStays
       DEF BadCall, ProfileMissing, Opened, ReportFailure, Prompts, channelVars
  <1>2. CASE OpenChannel \/ Opening
    BY <1>2, EntryStays
       DEF OpenChannel, Opening, OpenFails, OpenSend, OpenReady, OpenDataFails,
       OpenError, OpenTermWake, appVars
  <1>3. CASE DefineSend \/ Load
    BY <1>3, EntryStays
       DEF DefineSend, Load, Loaded, GrammarSend, GrammarNotReady, NotReady, GrammarFails,
       GrammarByUri, GrammarWake, appVars
  <1>4. CASE StartSend \/ Start
    BY <1>4, EntryStays
       DEF StartSend, Start, RequestSend, RequestNotReady, NotReady, RequestFails,
       RequestWake, appVars
  <1>5. CASE After
    BY <1>5, EntryStays
       DEF After, FirstPrompt, Listen, ListenFails, PromptGoesOn, PromptFails, PromptsEnd,
       NoFrame, VoiceFrame, Write, NullFrame, Digit, Results, channelVars
  <1>6. CASE Server \/ FinishMessage
    BY <1>6, EntryStays
       DEF Server, AnswerRecognize, AnswerDefine, AnswerTimers, RecognitionComplete,
       StartOfInput, OtherEvent, FinishMessage, Sets, StoresThenSets, OnMessage, appVars,
       channelVars
  <1>7. CASE SignallingCallback \/ StreamRead \/ UNCHANGED recogVars
    BY <1>7, EntryStays
       DEF SignallingCallback, Callback, OnChannelAdd, OnTerminateDestroy,
       OnTerminateClose, StreamRead, Read, recogVars, channelVars, appVars
  <1>8. QED
    BY <1>1, <1>2, <1>3, <1>4, <1>5, <1>6, <1>7, RecogSteps DEF Before, Handlers

LEMMA RecogEntrySteps ==
  ASSUME Placed, Dynamic, AppOK, RecogFlagsOK, IInv,
         Exec \/ CreateChannel \/ NextGrammar \/ Exiting
  PROVE  [EntryRuns!Next]_EntryVars
  <1> USE DEF EntryAt, EntryUses, EntryLasting, EntryHeld, OnEntry, At, Goto, ExitWith,
        Quietly, Aside, optionVars, EntryRuns!Next
  <1>1. CASE Exec
    <2>1. EntryLasting' \in BOOLEAN
      BY <1>1, Zenon DEF Exec
    <2>2. EntryRuns!Begin
      BY <1>1, <2>1 DEF Exec, channelVars, EntryRuns!Begin
    <2>3. QED
      BY <2>2
  <1>2. CASE CreateChannel
    <2>1. CASE Create
      <3>1. EntryRuns!Create
        BY <1>2, <2>1 DEF CreateChannel, Create, CreateFails, EntryRuns!Create
      <3>2. QED
        BY <3>1
    <2>2. CASE CreateFails
      BY <1>2, <2>2, EntryStays DEF CreateChannel, Create, CreateFails
    <2>3. QED
      BY <1>2, <2>1, <2>2 DEF CreateChannel
  <1>3. CASE NextGrammar
    <2>1. CASE apc' = "crashed"
      <3>1. EntryRuns!Crash
        BY <1>3, <2>1 DEF NextGrammar, channelVars, EntryRuns!Crash
      <3>2. QED
        BY <3>1
    <2>2. CASE apc' # "crashed"
      BY <1>3, <2>2, EntryStays DEF NextGrammar, channelVars
    <2>3. QED
      BY <2>1, <2>2
  <1>4. CASE ExitKeeps
    <2>1. EntryRuns!Finish
      BY <1>4 DEF ExitKeeps, channelVars, EntryRuns!Finish
    <2>2. QED
      BY <2>1
  <1>5. CASE ExitDestroy
    <2>1. CASE DestroyClosed
      <3>1. EntryRuns!Release
        BY <1>5, <2>1
           DEF ExitDestroy, DestroyClosed, Free, Dynamic, Placed, EntryRuns!Release
      <3>2. QED
        BY <3>1
    <2>2. CASE DestroySend
      BY <1>5, <2>2, EntryStays DEF ExitDestroy, DestroySend
    <2>3. QED
      BY <1>5, <2>1, <2>2 DEF ExitDestroy
  <1>6. CASE Destroying
    <2>1. CASE DestroyDone /\ UNCHANGED appVars /\ apc = "destroy"
      <3>1. EntryRuns!Release
        BY <2>1 DEF DestroyDone, Free, appVars, Dynamic, Placed, EntryRuns!Release
      <3>2. QED
        BY <3>1
    <2>2. CASE DestroyDone /\ UNCHANGED appVars /\ apc = "hangup"
      <3>1. EntryRuns!Destroy
        BY <2>2 DEF DestroyDone, Free, appVars, Placed, EntryRuns!Destroy
      <3>2. QED
        BY <3>1
    <2>3. CASE op = "idle" /\ apc = "destroy" /\ apc' = "idle" /\ UNCHANGED channelVars
      <3>1. EntryRuns!Finish
        BY <1>6, <2>3 DEF Destroying, channelVars, Placed, EntryRuns!Finish
      <3>2. QED
        BY <3>1
    <2>4. CASE op = "idle" /\ apc = "hangup" /\ apc' = "end" /\ UNCHANGED channelVars
      <3>1. EntryRuns!Ended
        BY <1>6, <2>4 DEF Destroying, channelVars, Placed, EntryRuns!Ended
      <3>2. QED
        BY <3>1
    <2>5. QED
      BY <1>6, <2>1, <2>2, <2>3, <2>4 DEF Destroying
  <1>7. CASE HangUp
    <2>1. EntryRuns!HangUp
      <3>1. chan' \in {chan, "null"}
        BY <1>7 DEF HangUp, DestroyClosed, DestroySend, Free, channelVars
      <3>2. QED
        BY <1>7, <3>1 DEF HangUp, EntryRuns!HangUp
    <2>2. QED
      BY <2>1
  <1>8. QED
    BY <1>1, <1>2, <1>3, <1>4, <1>5, <1>6, <1>7 DEF Exiting

\* Seen from the datastore, MRCPRecog runs as RunContract says (app_recog_exec,
\* mrcprecog_exit, app_datastore_destroy).
THEOREM RecogKeepsContract == RecogSpec => RunsKept
  <1>1. RecogInit => EntryRuns!Init
    BY DEF RecogInit, ChannelInit, EntryRuns!Init, EntryAt, EntryUses, EntryLasting,
       EntryHeld, OnEntry
  <1>2. IInv /\ RecogInv /\ Dynamic /\ [RecogNext]_recogVars
        => [EntryRuns!Next]_EntryVars
    <2> SUFFICES ASSUME IInv, RecogInv, Dynamic, [RecogNext]_recogVars
                 PROVE  [EntryRuns!Next]_EntryVars
      OBVIOUS
    <2>1. CASE UNCHANGED recogVars
      BY <2>1, EntryStays DEF recogVars, channelVars, appVars, optionVars
    <2>2. CASE RecogNext
      BY <2>2, RecogEntryStays, RecogEntrySteps DEF RecogInv
    <2>3. QED
      BY <2>1, <2>2
  <1>3. QED
    BY <1>1, <1>2, RecogIInv, RecogAlways, RecogDynamic, PTL
       DEF RecogSpec, RunsKept, EntryRuns!Spec, EntryVars

\* It keeps the contracts of its channel and of its entry at once.
THEOREM RecogKeepsContracts == RecogSpec => ContractsKept
  BY RecogUsesChannel, RecogKeepsContract DEF ContractsKept
=============================================================================
