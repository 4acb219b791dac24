-------------------------- MODULE MRCPSynthProofs --------------------------
(***************************************************************************)
(* Theorems of MRCPSynth, for any number of runs of the application: it    *)
(* uses its speech channel as SpeechChannel allows, so that what is proved *)
(* of the channel holds for the application.                               *)
(***************************************************************************)
EXTENDS MRCPSynth, SpeechChannelProofs, SequenceTheorems

\* A step of the application's thread is a step of the channel, or leaves it.
LEMMA RunIsChannel == ASSUME Run PROVE [ChannelNext]_channelVars
  <1> USE DEF Quietly, ChannelNext
  <1>1. CASE CreateChannel
    BY <1>1 DEF CreateChannel, AppCall
  <1>2. CASE ProfileMissing \/ Opened \/ Content \/ PlayEnd \/ ExitKeeps
    BY <1>2 DEF ProfileMissing, Opened, Content, PlayEnd, ExitKeeps
  <1>3. CASE OpenChannel
    BY <1>3 DEF OpenChannel, AppCall
  <1>4. CASE Opening
    BY <1>4 DEF Opening, Wake
  <1>5. CASE SpeakSend
    BY <1>5 DEF SpeakSend, AppCall, Wake
  <1>6. CASE Speak
    BY <1>6 DEF Speak, AppCall, Wake
  <1>7. CASE Barging \/ Stopping
    BY <1>7 DEF Barging, Stopping, Wake
  <1>8. CASE ExitStop
    BY <1>8 DEF ExitStop, AppCall
  <1>9. CASE ExitDestroy
    BY <1>9 DEF ExitDestroy, AppCall
  <1>10. CASE Destroying
    BY <1>10 DEF Destroying, Wake
  <1>11. QED
    BY <1>1, <1>2, <1>3, <1>4, <1>5, <1>6, <1>7, <1>8, <1>9, <1>10 DEF Run

\* So is one of the caller, ...
LEMMA CallerIsChannel == ASSUME Caller PROVE [ChannelNext]_channelVars
  <1>1. CASE BadCall \/ Exec \/ PlayHangup
    BY <1>1 DEF BadCall, Exec, PlayHangup
  <1>2. CASE PlayDigit
    BY <1>2 DEF PlayDigit, Quietly, ChannelNext, AppCall
  <1>3. CASE HangUp
    BY <1>3 DEF HangUp, ChannelNext, AppCall
  <1>4. QED
    BY <1>1, <1>2, <1>3 DEF Caller

\* ... and whatever the server sends is a message of the channel's.
LEMMA ServerIsChannel == ASSUME Server PROVE [ChannelNext]_channelVars
  <1>1. \E s \in {"READY", "PROCESSING", "ERROR"} : OnMessage(s)
    BY DEF Server, AnswerSpeak, AnswerStop, SpeakComplete, OtherEvent, Message
  <1>2. QED
    BY <1>1 DEF ChannelNext

\* The application, its caller and the server use the channel in no way that
\* SpeechChannel does not allow: SynthSpec implements ChannelSpec.
THEOREM SynthUsesChannel == SynthSpec => ChannelUsed
  <1>1. SynthInit => ChannelInit
    BY DEF SynthInit
  <1>2. [SynthNext]_synthVars => [ChannelNext]_channelVars
    <2> SUFFICES ASSUME [SynthNext]_synthVars PROVE [ChannelNext]_channelVars
      OBVIOUS
    <2>1. CASE Run
      BY <2>1, RunIsChannel
    <2>2. CASE Caller
      BY <2>2, CallerIsChannel
    <2>3. CASE Server
      BY <2>3, ServerIsChannel
    <2>4. CASE SignallingCallback
      BY <2>4 DEF SignallingCallback, ChannelNext
    <2>5. CASE Over \/ UNCHANGED synthVars
      BY <2>5 DEF Over, synthVars
    <2>6. QED
      BY <2>1, <2>2, <2>3, <2>4, <2>5 DEF SynthNext
  <1>3. QED
    BY <1>1, <1>2, PTL DEF SynthSpec, ChannelUsed, ChannelSpec

\* However often the application runs, and however each run ends, its channel
\* is released only when the session is gone (speech_channel_destroy).
THEOREM SynthReleaseIsSafe == SynthSpec => []FreedIsGone
  BY SynthUsesChannel, ReleaseIsSafe DEF ChannelUsed

\* Nor does it use a session's handle after on_session_terminate destroyed the
\* session, unless open gave up waiting for that callback.
THEOREM SynthHandleIsSafe == SynthSpec => []HandleSafe
  BY SynthUsesChannel, HandleUseIsSafe DEF ChannelUsed

LEMMA SynthIInv == SynthSpec => []IInv
  BY SynthUsesChannel, AlwaysIInv DEF ChannelUsed

-----------------------------------------------------------------------------
(* The application around the channel.                                     *)

Requests == [id : Nat \ {0}, method : Methods]

\* The steps that send nothing, and leave what the server has to do.
Silently ==
  \/ BadCall \/ Exec \/ ProfileMissing \/ OpenChannel \/ Opening \/ Opened
  \/ Content \/ Speak \/ PlayHangup \/ Barging \/ PlayEnd \/ ExitKeeps
  \/ Stopping \/ ExitDestroy \/ Destroying \/ HangUp

LEMMA SynthSteps ==
  SynthNext => \/ Silently \/ CreateChannel \/ SpeakSend \/ PlayDigit \/ ExitStop
               \/ Server \/ SignallingCallback \/ UNCHANGED synthVars
  BY DEF SynthNext, Run, Caller, Over, Silently

LEMMA SilentlyIsSilent == Silently => UNCHANGED serverVars
  BY DEF Silently, BadCall, Exec, ProfileMissing, OpenChannel, Opening, Opened, Content,
     Speak, PlayHangup, Barging, PlayEnd, ExitKeeps, Stopping, ExitDestroy, Destroying,
     HangUp, Quietly

\* The application's data.
AppOK ==
  /\ apc \in AppStates /\ calls \in 0..MaxCalls
  /\ status \in {"OK", "ERROR", "INTERRUPTED"}

ServerOK ==
  /\ requests \in Seq(Requests)
  /\ speaking \in Nat /\ cur \in Nat /\ sent \in Nat

SynthFlagsOK ==
  /\ plt \in BOOLEAN /\ sbs \in BOOLEAN /\ digits \in BOOLEAN /\ profile \in BOOLEAN
  /\ overlap \in BOOLEAN /\ failed \in BOOLEAN

LEMMA Sending ==
  ASSUME ServerOK, NEW m \in Methods, Send(m)
  PROVE  requests' \in Seq(Requests) /\ sent' \in Nat
  <1>1. [id |-> sent + 1, method |-> m] \in Requests
    BY DEF ServerOK, Requests
  <1>2. Append(requests, [id |-> sent + 1, method |-> m]) \in Seq(Requests)
    BY <1>1, AppendProperties DEF ServerOK
  <1> QED
    BY <1>2 DEF Send, ServerOK

LEMMA Answering ==
  ASSUME ServerOK, NEW M, Answers(M)
  PROVE  requests' \in Seq(Requests) /\ Head(requests).id \in Nat \ {0}
  <1>1. requests \in Seq(Requests) /\ requests # <<>> /\ requests' = Tail(requests)
    BY DEF ServerOK, Answers
  <1>2. Tail(requests) \in Seq(Requests) /\ Head(requests) \in Requests
    BY <1>1, HeadTailProperties
  <1> QED
    BY <1>1, <1>2 DEF Requests

LEMMA AppStep == ASSUME AppOK, SynthNext PROVE AppOK'
  <1> USE CallsAssumption DEF CallsAssumption, AppOK, AppStates
  <1>1. CASE Silently
    BY <1>1
       DEF Silently, BadCall, Exec, ProfileMissing, OpenChannel, Opening, Opened, Content,
           Speak, PlayHangup, Barging, PlayEnd, ExitKeeps, Stopping, ExitDestroy,
           Destroying, HangUp, Goto, ExitWith, appVars, At
  <1>2. CASE CreateChannel \/ SpeakSend \/ PlayDigit \/ ExitStop
    BY <1>2
       DEF CreateChannel, SpeakSend, PlayDigit, ExitStop, Goto, ExitWith, appVars, At
  <1>3. CASE Server \/ SignallingCallback \/ UNCHANGED synthVars
    BY <1>3
       DEF Server, AnswerSpeak, AnswerStop, SpeakComplete, OtherEvent, Message,
           SignallingCallback, appVars, synthVars
  <1> QED
    BY <1>1, <1>2, <1>3, SynthSteps

LEMMA ServerStep == ASSUME ServerOK, SynthNext PROVE ServerOK'
  <1>0. "SPEAK" \in Methods /\ "STOP" \in Methods /\ "BARGE-IN-OCCURRED" \in Methods
    BY DEF Methods
  <1>1. CASE Silently \/ UNCHANGED synthVars
    BY <1>1, SilentlyIsSilent DEF ServerOK, serverVars, synthVars
  <1>2. CASE CreateChannel
    <2>1. <<>> \in Seq(Requests)
      BY EmptySeq
    <2>2. requests' = <<>> \/ requests' = requests
      BY <1>2 DEF CreateChannel, Quietly, serverVars
    <2>3. requests' \in Seq(Requests)
      BY <2>1, <2>2, Zenon DEF ServerOK
    <2> QED
      BY <1>2, <2>3 DEF CreateChannel, Quietly, ServerOK, serverVars
  <1>3. CASE SpeakSend
    BY <1>0, <1>3, Sending DEF SpeakSend, ServerOK
  <1>4. CASE PlayDigit \/ ExitStop
    BY <1>0, <1>4, Sending DEF PlayDigit, ExitStop, Quietly, ServerOK, serverVars
  <1>5. CASE AnswerSpeak \/ AnswerStop
    BY <1>5, Answering DEF AnswerSpeak, AnswerStop, Message, ServerOK
  <1>6. CASE SpeakComplete \/ OtherEvent
    BY <1>6 DEF SpeakComplete, OtherEvent, Message, ServerOK
  <1>7. CASE SignallingCallback
    <2>1. <<>> \in Seq(Requests)
      BY EmptySeq
    <2>2. requests' = <<>> \/ requests' = requests
      BY <1>7 DEF SignallingCallback
    <2>3. requests' \in Seq(Requests)
      BY <2>1, <2>2, Zenon DEF ServerOK
    <2> QED
      BY <1>7, <2>3 DEF SignallingCallback, ServerOK
  <1> QED
    BY <1>1, <1>2, <1>3, <1>4, <1>5, <1>6, <1>7, SynthSteps DEF Server

LEMMA SynthFlagsStep == ASSUME SynthFlagsOK, SynthNext PROVE SynthFlagsOK'
  <1>1. CASE Silently
    <2>1. UNCHANGED <<overlap, failed>>
      BY <1>1, SilentlyIsSilent DEF serverVars
    <2> QED
      BY <1>1, <2>1, Zenon
         DEF SynthFlagsOK, Silently, BadCall, Exec, ProfileMissing, OpenChannel, Opening,
             Opened, Content, Speak, PlayHangup, Barging, PlayEnd, ExitKeeps, Stopping,
             ExitDestroy, Destroying, HangUp, Goto, ExitWith, appVars
  <1>2. CASE CreateChannel \/ PlayDigit \/ ExitStop
    BY <1>2, Zenon
       DEF SynthFlagsOK, CreateChannel, PlayDigit, ExitStop, Quietly, Goto, ExitWith,
           serverVars
  <1>3. CASE SpeakSend
    <2>1. (requests # <<>> \/ speaking # 0) \in BOOLEAN
      BY Zenon
    <2> QED
      BY <1>3, <2>1, Zenon DEF SynthFlagsOK, SpeakSend, appVars
  <1>4. CASE Server
    <2>1. \E s : Message(s)
      BY <1>4 DEF Server, AnswerSpeak, AnswerStop, SpeakComplete, OtherEvent
    <2>2. \A s : (failed \/ s = "ERROR") \in BOOLEAN
      BY Zenon
    <2> QED
      BY <2>1, <2>2, Zenon DEF SynthFlagsOK, Message, appVars
  <1>5. CASE SignallingCallback \/ UNCHANGED synthVars
    BY <1>5, Zenon DEF SynthFlagsOK, SignallingCallback, appVars, synthVars, serverVars
  <1> QED
    BY <1>1, <1>2, <1>3, <1>4, <1>5, SynthSteps

-----------------------------------------------------------------------------
(* The application and its channel.                                        *)

\* Where the application is, of the channel's calls and of the channel.
Placed ==
  /\ op # "idle" =>
       /\ apc \in {"open", "speak", "barge", "stop", "destroy", "hangup"}
       /\ apc = "open" => op \in {"open_wait", "open_term_wait"}
       /\ apc = "speak" => op \in {"ready_wait", "request_wait"}
       /\ apc \in {"barge", "stop"} => op = "stop_wait"
       /\ apc \in {"destroy", "hangup"} => op = "destroy_wait"
  /\ apc \in {"profile", "open", "content", "speak", "play", "barge", "stop", "crashed"} =>
       chan # "null"
  /\ apc \in {"destroy", "hangup"} => (chan = "null" <=> op = "idle")
  /\ apc = "end" \/ (apc = "idle" /\ ~plt) => chan = "null"

\* Requests are owed by a session that is there.
Owed == session \in Gone \cup {"adding"} => requests = <<>>

\* A channel without a profile was never opened; only a second run finds one
\* where a profile is needed.
Unopened ==
  /\ chan # "null" /\ ~profile => session = "none"
  /\ apc = "profile" => ~profile
  /\ apc = "open" => profile
  /\ apc \notin {"idle", "hangup", "end"} \/ chan # "null" => calls > 0
  /\ apc = "content" /\ ~profile => calls > 1
  /\ apc = "crashed" => calls > 1 /\ ~profile

\* A channel with a request under way, or ready for one, has its session.
LEMMA SessionUp ==
  ASSUME IInv, state \in {"READY", "PROCESSING"}, op \in Ops \ {"destroy_wait", "open_term_wait"}
  PROVE  session = "up"
  BY DEF IInv, Core, DataOK, Adding, Closed, Terminating, Ending, Failed, SessionStates, Gone

LEMMA PlacedStep ==
  ASSUME IInv, AppOK, Placed, SynthNext
  PROVE  Placed'
  <1> USE DEF Placed, Goto, ExitWith, Quietly, At, Return
  <1>1. CASE BadCall \/ Exec \/ ProfileMissing \/ Opened \/ Content \/ PlayHangup \/ PlayEnd \/ ExitKeeps
    BY <1>1 DEF BadCall, Exec, ProfileMissing, Opened, Content, PlayHangup, PlayEnd,
       ExitKeeps, channelVars
  <1>2. CASE CreateChannel
    BY <1>2 DEF CreateChannel, Create, CreateFails
  <1>3. CASE OpenChannel
    BY <1>3 DEF OpenChannel, OpenFails, OpenSend
  <1>4. CASE Opening
    BY <1>4 DEF Opening, OpenReady, OpenError, OpenTermWake, appVars
  <1>5. CASE SpeakSend
    BY <1>5 DEF SpeakSend, RequestSend, appVars
  <1>6. CASE Speak
    BY <1>6 DEF Speak, RequestNotReady, NotReady, RequestFails, RequestWake, MayStart,
       Call, appVars
  <1>7. CASE PlayDigit
    BY <1>7 DEF PlayDigit, StopNothing, StopFails, ForceError, StopSend
  <1>8. CASE Barging \/ Stopping
    BY <1>8 DEF Barging, Stopping, StopDone, StopTimeout, ForceError, appVars, channelVars
  <1>9. CASE ExitStop
    BY <1>9 DEF ExitStop, StopNothing, StopFails, ForceError, StopSend
  <1>10. CASE ExitDestroy
    BY <1>10 DEF ExitDestroy, DestroyClosed, DestroySend, Free, Call
  <1>11. CASE Destroying
    BY <1>11 DEF Destroying, DestroyDone, Free, appVars, channelVars
  <1>12. CASE HangUp
    BY <1>12 DEF HangUp, DestroyClosed, DestroySend, Free, channelVars, Call
  <1>13. CASE Server \/ SignallingCallback
    BY <1>13
       DEF Server, AnswerSpeak, AnswerStop, SpeakComplete, OtherEvent, Message, OnMessage,
           SignallingCallback, Callback, OnChannelAdd, OnTerminateDestroy, OnTerminateClose,
           appVars
  <1>14. CASE UNCHANGED synthVars
    BY <1>14 DEF synthVars, channelVars, appVars
  <1> QED
    BY <1>1, <1>2, <1>3, <1>4, <1>5, <1>6, <1>7, <1>8, <1>9, <1>10, <1>11, <1>12,
       <1>13, <1>14, SynthSteps DEF Silently

\* What a step of the application's does to the session, if it sends nothing.
LEMMA SilentSession ==
  ASSUME IInv, Silently \/ UNCHANGED synthVars
  PROVE  session' \in Gone \cup {"adding"} => session \in Gone \cup {"adding"}
  <1> USE TerminateAssumption
      DEF TerminateAssumption, IInv, Core, DataOK, Closed, Gone, SessionStates
  <1>1. CASE UNCHANGED channelVars
    BY <1>1 DEF channelVars
  <1>2. CASE OpenFails \/ OpenSend
    BY <1>2 DEF OpenFails, OpenSend
  <1>3. CASE DestroySend \/ OpenError
    BY <1>3 DEF DestroySend, OpenError, Terminate
  <1>4. CASE RequestFails
    BY <1>4 DEF RequestFails, UseSession
  <1>5. CASE UNCHANGED session
    BY <1>5
  <1> QED
    BY <1>1, <1>2, <1>3, <1>4, <1>5
       DEF Silently, BadCall, Exec, ProfileMissing, OpenChannel, Opening, Opened,
           Content, Speak, PlayHangup, Barging, PlayEnd, ExitKeeps, Stopping,
           ExitDestroy, Destroying, HangUp, Quietly, OpenReady, OpenTermWake,
           RequestNotReady, NotReady, RequestWake, StopDone, StopTimeout, DestroyClosed,
           DestroyDone, synthVars

LEMMA OwedStep ==
  ASSUME IInv, Owed, SynthNext
  PROVE  Owed'
  <1>1. CASE Silently \/ UNCHANGED synthVars
    <2>1. UNCHANGED requests
      BY <1>1, SilentlyIsSilent DEF serverVars, synthVars
    <2> QED
      BY <1>1, <2>1, SilentSession DEF Owed
  <1>2. CASE CreateChannel
    BY <1>2 DEF CreateChannel, CreateFails, Quietly, serverVars, Owed
  <1>3. CASE SpeakSend
    <2>1. session = "up"
      BY <1>3, SessionUp DEF SpeakSend, RequestSend, MayStart, Call, Ops
    <2> QED
      BY <1>3, <2>1 DEF SpeakSend, RequestSend, UseSession, Owed, Gone
  <1>4. CASE PlayDigit \/ ExitStop
    <2>1. CASE UNCHANGED <<session, serverVars>>
      BY <2>1 DEF Owed, serverVars
    <2>2. CASE StopSend \/ StopFails
      <3>1. session = "up"
        BY <2>2, SessionUp DEF StopSend, StopFails, Call, Ops
      <3> QED
        BY <2>2, <3>1 DEF StopSend, StopFails, UseSession, Owed, Gone
    <2> QED
      BY <1>4, <2>1, <2>2 DEF PlayDigit, ExitStop, Quietly, StopNothing
  <1>5. CASE Server
    <2>1. UNCHANGED session /\ session \notin Gone \cup {"adding"}
      BY <1>5
         DEF Server, AnswerSpeak, AnswerStop, SpeakComplete, OtherEvent, Message, OnMessage, Gone
    <2> QED
      BY <2>1 DEF Owed
  <1>6. CASE SignallingCallback
    BY <1>6
       DEF SignallingCallback, Callback, OnChannelAdd, OnTerminateDestroy,
           OnTerminateClose, Owed, IInv, Core, Terminating, Gone
  <1> QED
    BY <1>1, <1>2, <1>3, <1>4, <1>5, <1>6, SynthSteps

LEMMA UnopenedStep ==
  ASSUME IInv, AppOK, SynthFlagsOK, Placed, Unopened, SynthNext
  PROVE  Unopened'
  <1> USE CallsAssumption DEF CallsAssumption, Unopened, Placed, AppOK, Goto, ExitWith,
          Quietly, At
  <1>1. CASE BadCall \/ Exec \/ ProfileMissing \/ Opened \/ Content \/ PlayHangup \/ PlayEnd \/ ExitKeeps
    <2>1. CASE BadCall
      BY <2>1 DEF BadCall, channelVars
    <2>2. CASE Exec
      BY <2>2 DEF Exec, channelVars
    <2>3. CASE Content
      BY <2>3 DEF Content, channelVars
    <2>4. CASE Opened
      <3>1. apc = "open" /\ profile
        BY <2>4 DEF Opened
      <3> QED
        BY <2>4, <3>1 DEF Opened, channelVars
    <2>5. CASE ProfileMissing \/ PlayHangup \/ PlayEnd \/ ExitKeeps
      BY <2>5 DEF ProfileMissing, PlayHangup, PlayEnd, ExitKeeps, channelVars
    <2> QED
      BY <1>1, <2>1, <2>2, <2>3, <2>4, <2>5
  <1>2. CASE CreateChannel
    BY <1>2 DEF CreateChannel, Create, CreateFails
  <1>3. CASE OpenChannel
    BY <1>3 DEF OpenChannel
  <1>4. ASSUME session = "none"
        PROVE  state = "CLOSED" /\ cb = "none"
    BY <1>4 DEF IInv, Core, Closed, Gone
  <1>5. CASE Opening
    BY <1>4, <1>5 DEF Opening, OpenReady, OpenError, OpenTermWake, appVars, IInv, Core, Failed, Adding
  <1>6. CASE SpeakSend
    BY <1>4, <1>6 DEF SpeakSend, RequestSend, MayStart, appVars
  <1>7. CASE Speak
    BY <1>4, <1>7 DEF Speak, RequestNotReady, NotReady, RequestFails, RequestWake, MayStart,
       UseSession, appVars
  <1>8. CASE PlayDigit \/ ExitStop
    BY <1>4, <1>8 DEF PlayDigit, ExitStop, StopNothing, StopFails, StopSend
  <1>9. CASE Barging \/ Stopping
    BY <1>9 DEF Barging, Stopping, StopDone, StopTimeout, appVars, channelVars
  <1>10. CASE ExitDestroy
    BY <1>4, <1>10 DEF ExitDestroy, DestroyClosed, DestroySend, Free
  <1>11. CASE Destroying
    BY <1>11 DEF Destroying, DestroyDone, Free, appVars, channelVars
  <1>12. CASE HangUp
    BY <1>4, <1>12 DEF HangUp, DestroyClosed, DestroySend, Free, channelVars
  <1>13. CASE Server \/ SignallingCallback
    <2>1. \/ UNCHANGED <<appVars, chan>> /\ session # "none"
          \/ UNCHANGED <<appVars, chan, session>>
      BY <1>13, <1>4
         DEF Server, AnswerSpeak, AnswerStop, SpeakComplete, OtherEvent, Message,
             OnMessage, SignallingCallback, Callback, OnChannelAdd, OnTerminateDestroy,
             OnTerminateClose
    <2> QED
      BY <2>1 DEF appVars
  <1>14. CASE UNCHANGED synthVars
    BY <1>14 DEF synthVars, channelVars, appVars
  <1> QED
    BY <1>1, <1>2, <1>3, <1>5, <1>6, <1>7, <1>8, <1>9, <1>10, <1>11, <1>12,
       <1>13, <1>14, SynthSteps DEF Silently

-----------------------------------------------------------------------------
(* The state and the speech.                                               *)

\* From SPEAK to the end of the loop, if the server owed nothing and reported no
\* error: SPEAK is all it has been asked, and the state tells how far it is.
Tracks ==
  (apc = "play" \/ (apc = "speak" /\ op = "request_wait")) /\ ~overlap /\ ~failed =>
    /\ cur > 0
    /\ \/ /\ requests = <<[id |-> cur, method |-> "SPEAK"]>> /\ speaking = 0
          /\ state = "READY" /\ apc = "speak"
       \/ requests = <<>> /\ speaking = cur /\ state = "PROCESSING"
       \/ requests = <<>> /\ speaking = 0 /\ state = "READY"

LEMMA TracksStep ==
  ASSUME IInv, AppOK, ServerOK, Placed, Tracks, SynthNext
  PROVE  Tracks'
  <1>1. ASSUME ~(apc' = "play" \/ (apc' = "speak" /\ op' = "request_wait")) PROVE Tracks'
    BY <1>1 DEF Tracks
  <1>2. CASE Silently
    <2>1. UNCHANGED serverVars
      BY <1>2, SilentlyIsSilent
    <2>2. CASE Speak
      <3>1. apc' = "play" => /\ op = "request_wait" /\ apc = "speak"
                             /\ state = "PROCESSING" /\ UNCHANGED state
        BY <2>2 DEF Speak, RequestNotReady, NotReady, RequestFails, RequestWake, Return,
           Quietly, ExitWith, appVars
      <3>2. op' # "request_wait"
        BY <2>2 DEF Speak, RequestNotReady, NotReady, RequestFails, RequestWake, Return,
           Quietly
      <3> QED
        BY <1>1, <2>1, <3>1, <3>2 DEF Tracks, serverVars
    <2>3. CASE Content
      BY <1>1, <2>3, Zenon DEF Content, Goto, ExitWith, At, channelVars
    <2>4. CASE BadCall \/ Exec \/ ProfileMissing \/ OpenChannel \/ Opening \/ Opened
               \/ PlayHangup \/ PlayEnd \/ ExitKeeps
      BY <1>1, <2>4
         DEF BadCall, Exec, ProfileMissing, OpenChannel, Opening, Opened, PlayHangup,
             PlayEnd, ExitKeeps, Goto, ExitWith, At, appVars
    <2>5. CASE Barging \/ Stopping \/ ExitDestroy \/ Destroying \/ HangUp
      BY <1>1, <2>5
         DEF Barging, Stopping, ExitDestroy, Destroying, HangUp, Goto, At, appVars
    <2> QED
      BY <1>2, <2>2, <2>3, <2>4, <2>5 DEF Silently
  <1>3. CASE CreateChannel \/ PlayDigit \/ ExitStop
    BY <1>1, <1>3 DEF CreateChannel, PlayDigit, ExitStop, Goto, ExitWith
  <1>4. CASE SpeakSend
    <2>1. ~overlap' => requests = <<>> /\ speaking' = 0
      BY <1>4 DEF SpeakSend
    <2>2. Append(<<>>, [id |-> sent + 1, method |-> "SPEAK"])
            = <<[id |-> sent + 1, method |-> "SPEAK"]>>
      OBVIOUS
    <2>3. cur' = sent + 1 /\ sent \in Nat
          /\ requests' = Append(requests, [id |-> sent + 1, method |-> "SPEAK"])
          /\ state' = "READY" /\ apc' = "speak"
      BY <1>4 DEF SpeakSend, Send, RequestSend, MayStart, appVars, ServerOK
    <2> QED
      BY <2>1, <2>2, <2>3 DEF Tracks
  <1>5. CASE Server
    <2>1. UNCHANGED <<appVars, op, cur, overlap>> /\ (failed => failed')
      BY <1>5
         DEF Server, AnswerSpeak, AnswerStop, SpeakComplete, OtherEvent, Message, OnMessage
    <2>2. \A m : \A h \in {[id |-> cur, method |-> "SPEAK"]} :
            /\ Head(<<h>>).id = cur /\ Head(<<h>>).method = "SPEAK" /\ Tail(<<h>>) = <<>>
      OBVIOUS
    <2>3. \A s : Message(s) => state' = s /\ (s = "ERROR" => failed')
      BY DEF Message, OnMessage, SetState
    <2>4. CASE AnswerSpeak
      BY <2>1, <2>2, <2>3, <2>4 DEF AnswerSpeak, Answers, Tracks, appVars
    <2>5. CASE AnswerStop
      BY <2>1, <2>2, <2>3, <2>5 DEF AnswerStop, Answers, Tracks, appVars
    <2>6. CASE SpeakComplete \/ OtherEvent
      BY <2>1, <2>3, <2>6 DEF SpeakComplete, OtherEvent, Tracks, appVars
    <2> QED
      BY <1>5, <2>4, <2>5, <2>6 DEF Server
  <1>6. CASE SignallingCallback
    <2>1. UNCHANGED <<appVars, op, cur, overlap, failed>>
          /\ session \in {"adding", "terminating", "destroyed", "corrupt"}
      BY <1>6
         DEF SignallingCallback, Callback, OnChannelAdd, OnTerminateDestroy,
             OnTerminateClose, IInv, Core, Terminating
    <2>2. op \in {"idle", "request_wait"} => state \notin {"READY", "PROCESSING"}
      BY <2>1, SessionUp DEF Ops
    <2>3. apc = "play" => op = "idle"
      BY DEF Placed, IInv, Core, DataOK
    <2> QED
      BY <2>1, <2>2, <2>3 DEF Tracks, appVars
  <1>7. CASE UNCHANGED synthVars
    BY <1>7 DEF Tracks, synthVars, channelVars, appVars, serverVars
  <1> QED
    BY <1>2, <1>3, <1>4, <1>5, <1>6, <1>7, SynthSteps

-----------------------------------------------------------------------------
(* The theorems.                                                           *)

SynthInv ==
  AppOK /\ ServerOK /\ SynthFlagsOK /\ Placed /\ Owed /\ Unopened /\ Tracks

LEMMA SynthInitial == SynthInit => SynthInv
  <1> SUFFICES ASSUME SynthInit PROVE SynthInv
    OBVIOUS
  <1>1. AppOK /\ Placed /\ Owed /\ Unopened /\ Tracks
    BY CallsAssumption
       DEF CallsAssumption, SynthInit, ChannelInit, AppOK, AppStates, Placed, Owed,
           Unopened, Tracks
  <1>2. ServerOK
    BY EmptySeq DEF SynthInit, ServerOK
  <1>3. SynthFlagsOK
    BY Zenon DEF SynthInit, SynthFlagsOK
  <1> QED
    BY <1>1, <1>2, <1>3 DEF SynthInv

LEMMA SynthStutter == ASSUME SynthInv, UNCHANGED synthVars PROVE SynthInv'
  <1>1. AppOK' /\ ServerOK' /\ Placed' /\ Owed' /\ Unopened' /\ Tracks'
    BY DEF SynthInv, AppOK, ServerOK, Placed, Owed, Unopened, Tracks, synthVars,
       channelVars, appVars, serverVars
  <1>2. SynthFlagsOK'
    BY DEF SynthInv, SynthFlagsOK, synthVars, appVars, serverVars
  <1> QED
    BY <1>1, <1>2 DEF SynthInv

LEMMA SynthAlways == SynthSpec => []SynthInv
  <1>1. IInv /\ SynthInv /\ [SynthNext]_synthVars => SynthInv'
    BY AppStep, ServerStep, SynthFlagsStep, PlacedStep, OwedStep, UnopenedStep,
       TracksStep, SynthStutter DEF SynthInv
  <1> QED
    BY <1>1, SynthInitial, SynthIInv, PTL DEF SynthSpec

\* The variables of the application, the server and the channel keep their types.
THEOREM SynthTypeCorrect == SynthSpec => []SynthTypeOK
  <1>1. IInv /\ SynthInv => SynthTypeOK
    <2> SUFFICES ASSUME IInv, SynthInv PROVE SynthTypeOK
      OBVIOUS
    <2>1. ChannelTypeOK
      BY DEF IInv, Core, ChannelTypeOK
    <2>2. {plt, sbs, digits, profile, overlap, failed} \subseteq BOOLEAN
      BY Zenon DEF SynthInv, SynthFlagsOK
    <2>3. requests \in Seq(Requests) /\ Requests \subseteq [id : Nat, method : Methods]
      BY DEF SynthInv, ServerOK, Requests
    <2> QED
      BY <2>1, <2>2, <2>3, SeqMonotonic DEF SynthInv, AppOK, ServerOK, SynthTypeOK
  <1> QED
    BY <1>1, SynthIInv, SynthAlways, PTL

\* However a dynamic run ends, and however the call ends, no channel, session,
\* request or callback is left (mrcpsynth_exit, app_datastore_destroy).
THEOREM SynthLeavesNothing == SynthSpec => []NothingLeft
  <1>1. IInv /\ SynthInv => NothingLeft
    BY DEF IInv, Core, Adding, Closed, DataOK, SynthInv, Placed, Owed, NothingLeft, At, Gone
  <1> QED
    BY <1>1, SynthIInv, SynthAlways, PTL

\* The missing profile is met only by a later run, on a channel that was never
\* opened (app_synth_exec finds the channel and skips the profile's lookup).
THEOREM SynthCrashNeedsReuse == SynthSpec => []CrashNeedsReuse
  <1>1. SynthInv => CrashNeedsReuse
    BY DEF SynthInv, Placed, Unopened, CrashNeedsReuse
  <1> QED
    BY <1>1, SynthAlways, PTL

\* Whoever polls the state learns of the speech in progress
\* (the loop of app_synth_exec and synth_on_message_receive).
THEOREM StateTracks == SynthSpec => []StateTracksSpeech
  <1>1. SynthInv => StateTracksSpeech
    BY DEF SynthInv, ServerOK, Tracks, StateTracksSpeech, At
  <1> QED
    BY <1>1, SynthAlways, PTL

-----------------------------------------------------------------------------
(* No run is stuck: what CallEnds needs besides fairness.                  *)

\* A speech in progress is that of a session that is up and was asked to speak;
\* a channel whose session is up is in PROCESSING only during a speech.
Speech ==
  /\ session \in Gone \cup {"adding"} => speaking = 0
  /\ speaking # 0 => requested
  /\ state = "PROCESSING" /\ session = "up" => speaking # 0

Runs == apc \notin {"idle", "end", "crashed"}

\* The guards of the steps of the application's thread.
RunReady ==
  /\ Runs
  /\ IF op = "idle" THEN apc # "play" \/ state # "PROCESSING" ELSE WakeReady

\* A run that has nothing to do waits for a callback the library owes or for the
\* end of a speech the server has in progress; its loop has no timeout.
RunIsNotStuck ==
  Runs =>
    \/ RunReady
    \/ op # "idle" /\ CallbackReady
    \/ op = "idle" /\ speaking # 0 /\ requested /\ session = "up"
    \/ TerminateCanFail /\ op = "destroy_wait" /\ session = "up"

Stage ==
  CASE apc = "create" -> 12 [] apc = "profile" -> 11 [] apc = "open" -> 10
    [] apc = "content" -> 9 [] apc = "speak" -> 8 [] apc = "play" -> 7
    [] apc = "barge" -> 6 [] apc = "exit" -> 5 [] apc = "stop" -> 4
    [] apc = "destroy" -> 3 [] apc = "hangup" -> 2 [] OTHER -> 0

\* How many steps a run still has before it, and how many the server.
SpeakToGo == IF apc = "speak" /\ op = "idle" THEN 10 ELSE 0

RunToGo == 20 * Stage + SpeakToGo + ToGo

ServerToGo == 2 * Len(requests) + (IF speaking # 0 THEN 1 ELSE 0)

\* No step takes a run back.  Those of its thread, of its caller and of the library
\* take it on; those of the server leave it where it is, and take the server on, or
\* else leave the thread a step it had: a speech that ends, and whatever else the
\* server may say, cannot keep a run in its loop for ever.
RunAdvances ==
  Runs =>
    /\ Run \/ Caller \/ SignallingCallback => RunToGo' < RunToGo
    /\ Server =>
         /\ RunToGo' = RunToGo
         /\ \/ ServerToGo' < ServerToGo
            \/ ServerToGo' = ServerToGo /\ (RunReady => RunReady')
    /\ SpeakComplete => ServerToGo' < ServerToGo

\* What the steps that send nothing do to the channel, as far as Speech goes.
LEMMA SilentSpeech ==
  ASSUME IInv, Silently, Speech
  PROVE  /\ session' \in Gone \cup {"adding"} => session \in Gone \cup {"adding"}
         /\ speaking # 0 => requested'
         /\ state' = "PROCESSING" /\ session' = "up" => state = "PROCESSING" /\ session = "up"
  <1> USE TerminateAssumption
      DEF TerminateAssumption, IInv, Core, DataOK, Closed, Gone, SessionStates, Speech
  <1>1. CASE UNCHANGED <<state, session, requested>>
    BY <1>1
  <1>2. CASE OpenFails \/ OpenSend
    BY <1>2 DEF OpenFails, OpenSend
  <1>3. CASE DestroySend \/ OpenError
    BY <1>3 DEF DestroySend, OpenError, Terminate
  <1>4. CASE RequestFails
    BY <1>4 DEF RequestFails, UseSession
  <1>5. CASE StopTimeout
    BY <1>5 DEF StopTimeout, ForceError
  <1> QED
    BY <1>1, <1>2, <1>3, <1>4, <1>5
       DEF Silently, BadCall, Exec, ProfileMissing, OpenChannel, Opening, Opened,
           Content, Speak, PlayHangup, Barging, PlayEnd, ExitKeeps, Stopping,
           ExitDestroy, Destroying, HangUp, Quietly, OpenReady, OpenTermWake,
           RequestNotReady, NotReady, RequestWake, StopDone, DestroyClosed,
           DestroyDone, Free, channelVars

LEMMA SpeechStep ==
  ASSUME IInv, ServerOK, Speech, SynthNext
  PROVE  Speech'
  <1>1. CASE Silently
    <2>1. UNCHANGED speaking
      BY <1>1, SilentlyIsSilent DEF serverVars
    <2> QED
      BY <1>1, <2>1, SilentSpeech DEF Speech
  <1>2. CASE CreateChannel
    BY <1>2
       DEF CreateChannel, Create, CreateFails, Quietly, serverVars, Speech, IInv, Core,
           Closed, Gone
  <1>3. CASE SpeakSend
    <2>1. session = "up" /\ state = "READY"
      BY <1>3, SessionUp DEF SpeakSend, RequestSend, MayStart, Call, Ops
    <2> QED
      BY <1>3, <2>1 DEF SpeakSend, RequestSend, UseSession, Speech, Gone
  <1>4. CASE PlayDigit \/ ExitStop
    <2>1. CASE UNCHANGED <<state, session, requested, speaking>>
      BY <2>1 DEF Speech
    <2>2. CASE UNCHANGED speaking /\ (StopSend \/ StopFails)
      <3>1. session = "up"
        BY <2>2, SessionUp DEF StopSend, StopFails, Call, Ops
      <3> QED
        BY <2>2, <3>1 DEF StopSend, StopFails, ForceError, UseSession, Speech, Gone
    <2> QED
      BY <1>4, <2>1, <2>2 DEF PlayDigit, ExitStop, Quietly, StopNothing, serverVars
  <1>5. CASE Server
    <2>1. UNCHANGED <<session, requested>> /\ requested /\ session \notin Gone \cup {"adding"}
      BY <1>5
         DEF Server, AnswerSpeak, AnswerStop, SpeakComplete, OtherEvent, Message,
             OnMessage, Gone
    <2>2. CASE AnswerSpeak
      <3>1. Head(requests).id # 0
        BY <2>2, Answering DEF AnswerSpeak
      <3> QED
        BY <2>1, <2>2, <3>1
           DEF AnswerSpeak, Message, OnMessage, SetState, Speech
    <2>3. CASE AnswerStop \/ SpeakComplete \/ OtherEvent
      BY <2>1, <2>3
         DEF AnswerStop, SpeakComplete, OtherEvent, Message, OnMessage, SetState, Speech
    <2> QED
      BY <1>5, <2>2, <2>3 DEF Server
  <1>6. CASE SignallingCallback
    BY <1>6
       DEF SignallingCallback, Callback, OnChannelAdd, OnTerminateDestroy,
           OnTerminateClose, SetState, Speech, IInv, Core, Adding, Terminating, Gone
  <1>7. CASE UNCHANGED synthVars
    BY <1>7 DEF Speech, synthVars, channelVars, serverVars
  <1> QED
    BY <1>1, <1>2, <1>3, <1>4, <1>5, <1>6, <1>7, SynthSteps

LEMMA SynthSpeech == SynthSpec => []Speech
  <1>1. SynthInit => Speech
    BY DEF SynthInit, ChannelInit, Speech
  <1>2. IInv /\ SynthInv /\ Speech /\ [SynthNext]_synthVars => Speech'
    <2>1. ASSUME Speech, UNCHANGED synthVars PROVE Speech'
      BY <2>1 DEF Speech, synthVars, channelVars, serverVars
    <2> QED
      BY <2>1, SpeechStep DEF SynthInv
  <1> QED
    BY <1>1, <1>2, SynthIInv, SynthAlways, PTL DEF SynthSpec

\* A run waits for nothing that nobody owes: the loop of app_synth_exec, which has
\* no timeout, polls only during a speech of the server's, whose end is to come.
THEOREM SynthIsNotStuck == SynthSpec => []RunIsNotStuck
  <1>1. IInv /\ SynthInv /\ Speech /\ NoCallIsStuck => RunIsNotStuck
    <2> SUFFICES ASSUME IInv, SynthInv, Speech, NoCallIsStuck, Runs, ~RunReady
                 PROVE  \/ op # "idle" /\ CallbackReady
                        \/ op = "idle" /\ speaking # 0 /\ requested /\ session = "up"
                        \/ TerminateCanFail /\ op = "destroy_wait" /\ session = "up"
      BY DEF RunIsNotStuck
    <2>1. CASE op # "idle"
      BY <2>1 DEF NoCallIsStuck, RunReady
    <2>2. CASE op = "idle"
      <3>1. state = "PROCESSING"
        BY <2>2 DEF RunReady
      <3>2. session = "up"
        BY <2>2, <3>1, SessionUp DEF Ops
      <3> QED
        BY <2>2, <3>1, <3>2 DEF Speech
    <2> QED
      BY <2>1, <2>2
  <1>2. SynthSpec => []NoCallIsStuck
    BY SynthUsesChannel, NobodyWaitsInVain DEF ChannelUsed
  <1> QED
    BY <1>1, <1>2, SynthIInv, SynthAlways, SynthSpeech, PTL

\* The stages come in the order of the code.
LEMMA StageIsNatural == Stage \in Nat
  BY DEF Stage

\* A step that goes to a later stage takes the run on, whatever call it begins.
LEMMA LaterStage ==
  ASSUME IInv, IInv', Stage' < Stage PROVE RunToGo' < RunToGo
  <1>1. ToGo \in 0..8 /\ ToGo' \in 0..8
    BY DEF ToGo
  <1>2. Stage \in Nat /\ Stage' \in Nat
    BY DEF Stage
  <1>3. SpeakToGo \in {0, 10} /\ SpeakToGo' \in {0, 10}
    BY DEF SpeakToGo
  <1>4. \A a, b \in Nat, c, d \in {0, 10}, e, f \in 0..8 :
          b < a => 20 * b + d + f < 20 * a + c + e
    OBVIOUS
  <1> QED
    BY <1>1, <1>2, <1>3, <1>4 DEF RunToGo

\* Within a stage a run is taken on by a call that goes on, or by one that begins
\* if it was to begin.
LEMMA SameStage ==
  ASSUME apc' = apc,
         \/ SpeakToGo' = SpeakToGo /\ ToGo' < ToGo
         \/ SpeakToGo' = 0 /\ SpeakToGo = 10
  PROVE  RunToGo' < RunToGo
  <1>1. ToGo \in 0..8 /\ ToGo' \in 0..8
    BY DEF ToGo
  <1>2. Stage \in Nat /\ Stage' = Stage
    BY DEF Stage
  <1>3. SpeakToGo \in {0, 10} /\ SpeakToGo' \in {0, 10}
    BY DEF SpeakToGo
  <1>4. \A a \in Nat, c, d \in {0, 10}, e, f \in 0..8 :
          (d = c /\ f < e) \/ (d = 0 /\ c = 10) => 20 * a + d + f < 20 * a + c + e
    OBVIOUS
  <1> QED
    BY <1>1, <1>2, <1>3, <1>4 DEF RunToGo

LEMMA WakeInStage ==
  ASSUME IInv, Wake, op # "idle", apc' = apc, apc = "speak" => op' # "idle"
  PROVE  RunToGo' < RunToGo
  <1>1. ToGo' < ToGo
    BY WakeAdvances
  <1>2. SpeakToGo' = SpeakToGo
    BY DEF SpeakToGo
  <1> QED
    BY <1>1, <1>2, SameStage

\* synth_channel_speak begins a wait only once it has its turn.
LEMMA SpeakInStage ==
  ASSUME apc = "speak", apc' = "speak", op = "idle", op' # "idle"
  PROVE  RunToGo' < RunToGo
  <1>1. SpeakToGo = 10 /\ SpeakToGo' = 0
    BY DEF SpeakToGo
  <1> QED
    BY <1>1, SameStage

LEMMA RunTakesOn ==
  ASSUME IInv, IInv', AppOK, Placed, Runs, Run
  PROVE  RunToGo' < RunToGo
  <1> USE DEF Goto, ExitWith, Quietly, At
  <1>1. CASE CreateChannel \/ ProfileMissing \/ OpenChannel \/ Opened
    BY <1>1, LaterStage DEF CreateChannel, ProfileMissing, OpenChannel, Opened, Stage
  <1>2. CASE Content \/ PlayEnd \/ ExitKeeps \/ ExitStop \/ ExitDestroy
    BY <1>2, LaterStage DEF Content, PlayEnd, ExitKeeps, ExitStop, ExitDestroy, Stage
  <1>3. CASE Opening
    BY <1>3, WakeInStage DEF Opening, appVars, Wake, OpenReady, OpenError, OpenTermWake
  <1>4. CASE SpeakSend
    <2>1. apc = "speak" /\ apc' = "speak" /\ op' = "request_wait" /\ RequestSend
      BY <1>4 DEF SpeakSend, RequestSend, appVars
    <2> QED
      BY <2>1, SpeakInStage, WakeInStage DEF Wake
  <1>5. CASE Speak
    <2>1. CASE RequestNotReady /\ UNCHANGED appVars
      BY <1>5, <2>1, SpeakInStage DEF Speak, RequestNotReady, Call, appVars
    <2>2. CASE apc' \in {"play", "exit"}
      BY <1>5, <2>2, LaterStage DEF Speak, Stage
    <2> QED
      BY <1>5, <2>1, <2>2 DEF Speak
  <1>6. CASE Barging \/ Stopping
    <2>1. CASE (StopDone \/ StopTimeout) /\ UNCHANGED appVars
      BY <1>6, <2>1, WakeInStage DEF Barging, Stopping, StopDone, StopTimeout, appVars, Wake
    <2>2. CASE apc = "barge" /\ apc' = "exit"
      BY <2>2, LaterStage DEF Stage
    <2> QED
      BY <1>6, <2>1, <2>2 DEF Barging, Stopping
  <1>7. CASE Destroying
    <2>1. CASE DestroyDone /\ UNCHANGED appVars
      BY <1>7, <2>1, WakeInStage DEF Destroying, DestroyDone, appVars, Wake
    <2>2. CASE apc' \in {"idle", "end"}
      BY <1>7, <2>2, LaterStage DEF Destroying, Stage
    <2> QED
      BY <1>7, <2>1, <2>2 DEF Destroying
  <1> QED
    BY <1>1, <1>2, <1>3, <1>4, <1>5, <1>6, <1>7 DEF Run

LEMMA CallerTakesOn ==
  ASSUME IInv, IInv', Runs, Caller
  PROVE  RunToGo' < RunToGo
  <1>1. CASE PlayHangup \/ PlayDigit
    BY <1>1, LaterStage DEF PlayHangup, PlayDigit, ExitWith, At, Stage
  <1> QED
    BY <1>1 DEF Caller, Runs, BadCall, Exec, HangUp, At

LEMMA LibraryTakesOn ==
  ASSUME IInv, SignallingCallback
  PROVE  RunToGo' < RunToGo
  <1>1. ToGo' < ToGo /\ op' = op /\ apc' = apc
    BY CallbackAdvances DEF SignallingCallback, appVars
  <1>2. SpeakToGo' = SpeakToGo
    BY <1>1 DEF SpeakToGo
  <1> QED
    BY <1>1, <1>2, SameStage

LEMMA ServerTakesOn ==
  ASSUME IInv, ServerOK, Server
  PROVE  /\ RunToGo' = RunToGo
         /\ \/ ServerToGo' < ServerToGo
            \/ ~SpeakComplete /\ ServerToGo' = ServerToGo /\ (RunReady => RunReady')
  <1>1. UNCHANGED <<apc, op, session, cb>>
    BY DEF Server, AnswerSpeak, AnswerStop, SpeakComplete, OtherEvent, Message,
       OnMessage, appVars
  <1>2. RunToGo' = RunToGo
    BY <1>1 DEF RunToGo, Stage, SpeakToGo, ToGo
  <1>3. CASE AnswerSpeak \/ AnswerStop
    <2>1. Len(requests') = Len(requests) - 1 /\ Len(requests) \in Nat
      <3>1. requests \in Seq(Requests) /\ requests # <<>> /\ requests' = Tail(requests)
        BY <1>3 DEF ServerOK, AnswerSpeak, AnswerStop, Answers
      <3> QED
        BY <3>1, HeadTailProperties, LenProperties
    <2>2. speaking = 0 \/ speaking' \in {0, speaking}
      BY <1>3 DEF AnswerSpeak, AnswerStop
    <2> QED
      BY <1>2, <2>1, <2>2 DEF ServerToGo
  <1>4. CASE SpeakComplete
    <2>1. UNCHANGED requests /\ speaking # 0 /\ speaking' = 0
      BY <1>4 DEF SpeakComplete
    <2>2. Len(requests) \in Nat
      BY LenProperties DEF ServerOK
    <2> QED
      BY <1>2, <2>1, <2>2 DEF ServerToGo
  <1>5. CASE OtherEvent
    <2>1. UNCHANGED <<requests, speaking>> /\ speaking' # 0 /\ state' = "ERROR"
          /\ session \in {"up", "terminating"}
      BY <1>5 DEF OtherEvent, Message, OnMessage, SetState
    <2>2. ~SpeakComplete
      BY <2>1 DEF SpeakComplete
    <2>3. RunReady => RunReady'
      BY <1>1, <2>1 DEF RunReady, Runs, WakeReady, IInv, Core, Closed, Gone
    <2> QED
      BY <1>2, <2>1, <2>2, <2>3 DEF ServerToGo
  <1> QED
    BY <1>3, <1>4, <1>5 DEF Server

\* The measures do not go below zero, so that a run is taken on only so often.
LEMMA SynthMeasures == SynthSpec => [](RunToGo \in Nat /\ ServerToGo \in Nat)
  <1>1. SynthInv => RunToGo \in Nat /\ ServerToGo \in Nat
    <2> SUFFICES ASSUME SynthInv PROVE RunToGo \in Nat /\ ServerToGo \in Nat
      OBVIOUS
    <2>1. Len(requests) \in Nat
      BY LenProperties DEF SynthInv, ServerOK
    <2>2. SpeakToGo \in Nat /\ ToGo \in Nat
      BY DEF SpeakToGo, ToGo
    <2> QED
      BY <2>1, <2>2, StageIsNatural DEF RunToGo, ServerToGo
  <1> QED
    BY <1>1, SynthAlways, PTL

\* Every run of app_synth_exec comes nearer its end with each step of its own, of
\* its caller's and of the library's, and the server cannot hold it up.
THEOREM SynthRunsAdvance == SynthSpec => [][RunAdvances]_synthVars
  <1>1. IInv /\ IInv' /\ SynthInv /\ SynthNext => RunAdvances
    <2> SUFFICES ASSUME IInv, IInv', SynthInv, SynthNext, Runs PROVE
                   /\ Run \/ Caller \/ SignallingCallback => RunToGo' < RunToGo
                   /\ Server =>
                        /\ RunToGo' = RunToGo
                        /\ \/ ServerToGo' < ServerToGo
                           \/ ServerToGo' = ServerToGo /\ (RunReady => RunReady')
                   /\ SpeakComplete => ServerToGo' < ServerToGo
      BY DEF RunAdvances
    <2>1. Run \/ Caller \/ SignallingCallback => RunToGo' < RunToGo
      BY RunTakesOn, CallerTakesOn, LibraryTakesOn DEF SynthInv
    <2> QED
      BY <2>1, ServerTakesOn DEF SynthInv, Server
  <1> QED
    BY <1>1, SynthIInv, SynthAlways, PTL DEF SynthSpec

-----------------------------------------------------------------------------
(* The runs on the entry.                                                  *)

EntryVars == <<EntryAt, EntryUses, EntryLasting, EntryHeld>>

\* Only a dynamic run stops and destroys.
Dynamic == apc \in {"stop", "destroy"} => ~plt

LEMMA SynthDynamic == SynthSpec => []Dynamic
  <1>1. SynthInit => Dynamic
    BY DEF SynthInit, Dynamic
  <1>2. Dynamic /\ [SynthNext]_synthVars => Dynamic'
    <2> SUFFICES ASSUME Dynamic, [SynthNext]_synthVars PROVE Dynamic'
      OBVIOUS
    <2> USE DEF Dynamic, Goto, ExitWith
    <2>1. CASE Silently
      BY <2>1 DEF Silently, BadCall, Exec, ProfileMissing, OpenChannel, Opening, Opened,
         Content, Speak, PlayHangup, Barging, PlayEnd, ExitKeeps, Stopping,
         ExitDestroy, Destroying, HangUp, At, appVars
    <2>2. CASE CreateChannel \/ SpeakSend \/ PlayDigit \/ ExitStop
      BY <2>2 DEF CreateChannel, SpeakSend, PlayDigit, ExitStop, appVars
    <2>3. CASE Server \/ SignallingCallback \/ UNCHANGED synthVars
      BY <2>3 DEF Server, AnswerSpeak, AnswerStop, SpeakComplete, OtherEvent, Message,
         SignallingCallback, appVars, synthVars
    <2>4. QED
      BY <2>1, <2>2, <2>3, SynthSteps
  <1>3. QED
    BY <1>1, <1>2, PTL DEF SynthSpec

LEMMA EntryStays ==
  ASSUME plt' = plt, chan' = chan,
         \/ apc' = apc
         \/ {apc, apc'} \cap {"idle", "hangup", "end", "crashed"} = {}
  PROVE  UNCHANGED EntryVars
  BY DEF EntryVars, EntryAt, EntryUses, EntryLasting, EntryHeld, OnEntry

\* Whatever neither creates nor destroys the channel, and neither begins nor ends
\* a run, is no step of the entry.
LEMMA SynthEntryStays ==
  ASSUME SynthNext,
         ~(Exec \/ CreateChannel \/ Content \/ ExitKeeps \/ ExitDestroy
           \/ Destroying \/ HangUp)
  PROVE  UNCHANGED EntryVars
  <1>1. CASE BadCall \/ ProfileMissing \/ Opened \/ PlayHangup \/ PlayEnd
    BY <1>1, EntryStays
       DEF BadCall, ProfileMissing, Opened, PlayHangup, PlayEnd, At, Goto, ExitWith,
       channelVars
  <1>2. CASE OpenChannel \/ Opening
    BY <1>2, EntryStays
       DEF OpenChannel, Opening, OpenFails, OpenSend, OpenReady, OpenError, OpenTermWake,
       Quietly, At, appVars
  <1>3. CASE SpeakSend \/ Speak
    BY <1>3, EntryStays
       DEF SpeakSend, Speak, RequestSend, RequestNotReady, NotReady, RequestFails,
       RequestWake, Quietly, ExitWith, appVars
  <1>4. CASE PlayDigit \/ ExitStop \/ Barging \/ Stopping
    BY <1>4, EntryStays
       DEF PlayDigit, ExitStop, Barging, Stopping, StopNothing, StopFails, ForceError,
       StopSend, StopDone, StopTimeout, Quietly, At, Goto, appVars, channelVars
  <1>5. CASE Server
    BY <1>5, EntryStays
       DEF Server, AnswerSpeak, AnswerStop, SpeakComplete, OtherEvent, Message, OnMessage,
       appVars
  <1>6. CASE SignallingCallback \/ UNCHANGED synthVars
    BY <1>6, EntryStays
       DEF SignallingCallback, Callback, OnChannelAdd, OnTerminateDestroy,
       OnTerminateClose, synthVars, channelVars, appVars
  <1>7. QED
    BY <1>1, <1>2, <1>3, <1>4, <1>5, <1>6, SynthSteps DEF Silently

LEMMA SynthEntrySteps ==
  ASSUME IInv, AppOK, SynthFlagsOK, Placed, Dynamic,
         Exec \/ CreateChannel \/ Content \/ ExitKeeps \/ ExitDestroy
           \/ Destroying \/ HangUp
  PROVE  [EntryRuns!Next]_EntryVars
  <1> USE DEF EntryAt, EntryUses, EntryLasting, EntryHeld, OnEntry, At, Goto, ExitWith,
        EntryRuns!Next
  <1>1. CASE Exec
    <2>1. EntryLasting' \in BOOLEAN
      BY <1>1, Zenon DEF Exec
    <2>2. EntryRuns!Begin
      BY <1>1, <2>1 DEF Exec, channelVars, EntryRuns!Begin
    <2>3. QED
      BY <2>2
  <1>2. CASE CreateChannel
    <2>1. CASE Create
      <3>1. EntryRuns!Create
        BY <1>2, <2>1 DEF CreateChannel, Create, CreateFails, Quietly, EntryRuns!Create
      <3>2. QED
        BY <3>1
    <2>2. CASE CreateFails
      BY <1>2, <2>2, EntryStays DEF CreateChannel, Create, CreateFails, Quietly
    <2>3. QED
      BY <1>2, <2>1, <2>2 DEF CreateChannel, Quietly
  <1>3. CASE Content
    <2>1. CASE apc' = "crashed"
      <3>1. EntryRuns!Crash
        BY <1>3, <2>1 DEF Content, channelVars, EntryRuns!Crash
      <3>2. QED
        BY <3>1
    <2>2. CASE apc' # "crashed"
      BY <1>3, <2>2, EntryStays DEF Content, channelVars
    <2>3. QED
      BY <2>1, <2>2
  <1>4. CASE ExitKeeps
    <2>1. EntryRuns!Finish
      BY <1>4 DEF ExitKeeps, channelVars, EntryRuns!Finish
    <2>2. QED
      BY <2>1
  <1>5. CASE ExitDestroy
    <2>1. CASE DestroyClosed
      <3>1. EntryRuns!Release
        BY <1>5, <2>1
           DEF ExitDestroy, DestroyClosed, Free, Quietly, Dynamic, Placed, EntryRuns!Release
      <3>2. QED
        BY <3>1
    <2>2. CASE DestroySend
      BY <1>5, <2>2, EntryStays DEF ExitDestroy, DestroySend, Quietly
    <2>3. QED
      BY <1>5, <2>1, <2>2 DEF ExitDestroy, Quietly
  <1>6. CASE Destroying
    <2>1. CASE DestroyDone /\ UNCHANGED appVars /\ apc = "destroy"
      <3>1. EntryRuns!Release
        BY <2>1 DEF DestroyDone, Free, appVars, Dynamic, Placed, EntryRuns!Release
      <3>2. QED
        BY <3>1
    <2>2. CASE DestroyDone /\ UNCHANGED appVars /\ apc = "hangup"
      <3>1. EntryRuns!Destroy
        BY <2>2 DEF DestroyDone, Free, appVars, Placed, EntryRuns!Destroy
      <3>2. QED
        BY <3>1
    <2>3. CASE op = "idle" /\ apc = "destroy" /\ apc' = "idle" /\ UNCHANGED channelVars
      <3>1. EntryRuns!Finish
        BY <2>3 DEF channelVars, Placed, EntryRuns!Finish
      <3>2. QED
        BY <3>1
    <2>4. CASE op = "idle" /\ apc = "hangup" /\ apc' = "end" /\ UNCHANGED channelVars
      <3>1. EntryRuns!Ended
        BY <2>4 DEF channelVars, Placed, EntryRuns!Ended
      <3>2. QED
        BY <3>1
    <2>5. QED
      BY <1>6, <2>1, <2>2, <2>3, <2>4 DEF Destroying, Quietly
  <1>7. CASE HangUp
    <2>1. EntryRuns!HangUp
      <3>1. chan' \in {chan, "null"}
        BY <1>7 DEF HangUp, DestroyClosed, DestroySend, Free, channelVars
      <3>2. QED
        BY <1>7, <3>1 DEF HangUp, EntryRuns!HangUp
    <2>2. QED
      BY <2>1
  <1>8. QED
    BY <1>1, <1>2, <1>3, <1>4, <1>5, <1>6, <1>7

\* Seen from the datastore, MRCPSynth runs as RunContract says (app_synth_exec,
\* mrcpsynth_exit, app_datastore_destroy).
THEOREM SynthKeepsContract == SynthSpec => RunsKept
  <1>1. SynthInit => EntryRuns!Init
    BY DEF SynthInit, ChannelInit, EntryRuns!Init, EntryAt, EntryUses, EntryLasting,
       EntryHeld, OnEntry
  <1>2. IInv /\ SynthInv /\ Dynamic /\ [SynthNext]_synthVars => [EntryRuns!Next]_EntryVars
    <2> SUFFICES ASSUME IInv, SynthInv, Dynamic, [SynthNext]_synthVars
                 PROVE  [EntryRuns!Next]_EntryVars
      OBVIOUS
    <2>1. CASE UNCHANGED synthVars
      BY <2>1, EntryStays DEF synthVars, channelVars, appVars
    <2>2. CASE SynthNext
      BY <2>2, SynthEntryStays, SynthEntrySteps DEF SynthInv
    <2>3. QED
      BY <2>1, <2>2
  <1>3. QED
    BY <1>1, <1>2, SynthIInv, SynthAlways, SynthDynamic, PTL
       DEF SynthSpec, RunsKept, EntryRuns!Spec, EntryVars
=============================================================================
