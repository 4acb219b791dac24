# A TLA+ model of asterisk-unimrcp

TLA+ modules, TLC configurations and TLAPS proofs for the two Asterisk modules of
this repository: `app_unimrcp.so`, whose dialplan applications MRCPSynth(),
MRCPRecog() and SynthAndRecog() speak and recognize over MRCP, and
`res_speech_unimrcp.so`, a speech engine behind Asterisk's generic speech
recognition API. Both drive the UniMRCP client library, which is external.

## 1. The system

### Components

| Component | Source (under `src/`) | State | Operations |
|---|---|---|---|
| Speech channel | `app-unimrcp/speech_channel.c`, `.h` | `state` (CLOSED, READY, PROCESSING, ERROR), mutex and condition variable, the UniMRCP session and channel, the audio queue | create, open, stop, barge-in, write, read, set_state, destroy; and, in the applications, the callbacks on_channel_add, on_session_terminate, on_message_receive |
| Audio queue | `app-unimrcp/audio_queue.c` | a flat byte buffer, bytes in use, bytes a reader waits for; own mutex and condition variable | write, read (blocking or not), clear |
| MRCPSynth | `app-unimrcp/app_mrcpsynth.c` | the run of one call: options, status; the session entry it keeps | exec, exit, the synthesizer's message handler |
| MRCPRecog | `app-unimrcp/app_mrcprecog.c` | as above, plus `recognizer_data_t`: grammars, cause and result, start of input, timers | exec, exit, the recognizer's message handler, the stream callbacks |
| SynthAndRecog | `app-unimrcp/app_synthandrecog.c` | a recognizer channel and, when a text is due, a synthesizer channel; the list of prompts | exec, exit, prompt_play, barge-in, both handlers |
| Datastore | `app-unimrcp/app_datastore.c`, `.h` | the session entries of one caller, kept on the Asterisk channel until hangup: lifetime, channels, formats, last result | get, session_add, destroy; dialplan functions over the last result |
| Speech API resource | `res-speech-unimrcp/res_speech_unimrcp.c` | `uni_speech_t`: the request waited for, its response, the last event, `is_inprogress`; `ast_speech.state` | the engine's functions (create, destroy, load, unload, start, get ...), and the callbacks |
| Module life cycle | `app-unimrcp/app_unimrcp.c` | the client stack, the table of applications, what Asterisk was given | load_module, unload_module |
| Framework | `app-unimrcp/ast_unimrcp_framework.c` | globals, profiles, the configuration | globals_init and _destroy, load_mrcp_config, client_create |

`PROJECT.json` lists them with what is modelled of each.

### How they interact

Three kinds of threads meet in a channel.

* The **Asterisk channel thread** runs the dialplan. An application is a sequence
  of calls on its speech channel: it creates and opens one, sends requests with
  `mrcp_application_message_send`, and blocks in `apr_thread_cond_timedwait` inside
  a call. The wait releases the channel's mutex and ends by a signal, by the
  timeout or spuriously.
* The **UniMRCP client task** runs the callbacks: answers to channel-add and
  terminate, responses and events of the server. It changes `state` through
  `speech_channel_set_state`, which takes the mutex, clears the audio queue when a
  request ends, and signals the condition variable.
* The **media thread** reads the audio queue (recognition) or writes to it
  (synthesis), and meets the application's thread only there.

An application finds its channel in a session entry of the **datastore**. With a
dynamic session (`plt=0`) it destroys the channel at the end of the run; with a
persistent one (`plt=1`) it leaves it to the next run, and the hangup destroys it.
The speech API resource has an object, a mutex and one condition variable of its
own, and the same client task.

### What is hard

* A message is not matched with a request. Every handler sets the channel's state
  by the *kind* of the message, so an answer whose request timed out, or a
  completion that crosses a STOP, acts on the request that came after it.
* A wait is mostly one timed wait after which the state is looked at. Where it is
  a loop (open, destroy), it must be left, and for open it may not be.
* `on_session_terminate` destroys the session first, without the mutex, and sets
  CLOSED afterwards; `stop` and barge-in that time out assign ERROR without
  `set_state`; the recognizer's handler stores results and sets READY in two
  critical sections; the speech API's handler sets three fields with no lock at all.
* A persistent session carries a channel in whatever state the run before left it,
  never opened, in ERROR, with requests unanswered, to the next run.
* SynthAndRecog stops a text by a STOP it does not wait for, while the same client
  task serves its other channel.
* The three applications share the entries of a caller. Each destroys the channels it
  knows, and each takes what it finds in the entry for its own.
* A load of the module is a dozen steps that may fail, over static pointers that
  outlive a load that failed; Asterisk may let callers in until the unload's last step.
* Every function has many early returns, and each must reach the clean-up.

`PROJECT.json` lists the hazards at their lines with the properties that watch them.

### What makes each component correct

* Channel: it is freed only when the session is gone and no callback is to come
  (`FreedIsGone`); a destroyed session is not used (`HandleSafe`); old audio is never
  sent with a new request (`NoAudioOutsideRequest`, `StartsEmpty`); calls return.
* Queue: it is a FIFO of bytes, and no wakeup is lost.
* Applications: the polled state says what the server is doing, the outcome
  reported is the run's own, nothing is left behind, every run ends.
* SynthAndRecog, besides: one text at a time, and none over the caller's input; the
  recognizer's timers run once the prompts are over; both channels are released.
* Datastore: a channel lives exactly as long as an entry holds it, and the functions
  read the result of the last recognizer that was not refused at its arguments,
  whoever shared the entry.
* Module: what Asterisk can call is complete, and a module that is out left nothing.
* Speech object: no callback after it is freed; the answer, the result and the
  in-progress flag are those of its own last request.

## 2. The modules

| Module | Models | Notes |
|---|---|---|
| `SpeechChannel` | one channel and its session, under any calls in any order | the core; two applications extend it |
| `ChannelLifecycle` | abstract: absent, closed, opening, live, closing | `SpeechChannel` implements it (mapping `phase`) |
| `ChannelContract` | abstract: a channel exists, and its state | `SpeechChannel` implements it, and so does each channel of `SynthAndRecog` |
| `RunContract` | abstract: the runs on one session entry, and the channels it holds | the three applications implement it for the entry they are given (`RunsKept`), `AppDatastore` for each of its entries |
| `AudioQueue` | the buffer, the blocked reader | |
| `ByteFifo` | abstract: a sequence of bytes, the last chunk read | `AudioQueue` implements it (mapping `content`) |
| `MRCPSynth` | the application, its channel, the server | its actions are conjunctions of a `SpeechChannel` action and what the application and the server add |
| `MRCPRecog` | the same for the recognizer | |
| `SynthAndRecog` | the application, two channels, two servers | of a channel it has what `ChannelContract` says |
| `UniSpeech` | one speech API object, Asterisk's thread, the client task, the server | |
| `AppDatastore` | the entries of one caller and the runs that share them | of a run it has what the run does to its entry |
| `AppModule` | load and unload, composed with a caller of `AppDatastore` | implements `AppDatastore` (`CallerImplemented`) |
| `MC*` | instances for TLC | |
| `*Proofs` | theorems of the module of that name (`AppModuleProofs`: of `AppDatastore` too) | |

How they compose: `MRCPSynth` and `MRCPRecog` run on the channel of `SpeechChannel` itself,
each of their steps being one of its steps (`ChannelUsed`, proved for both).
`SynthAndRecog` has two channels and takes their calls whole; that its two channels
still behave as channels is `ChannelsKept`, and that a real channel keeps the same
contract is a part of `LifecycleImplemented`. `AppDatastore` is about the entries,
between and across runs, and knows of a run only what the run does to its entry;
`RunContract` is where the two meet. It says that runs on an entry come one after
another, create only the channels of their kind, give them back only if they are
dynamic and then all of them, and that the hangup leaves none. An application keeps
it (`RunsKept`; with what it does to its channels, `ContractsKept`), and the datastore
keeps it for each entry. `AppModule` is about the code being there.

### Correspondence

*Granularity.* A critical section, from taking the mutex (or waking with it) to the
next wait or release, is one action. What a callback does outside the mutex is an
action of its own (`OnTerminateDestroy`, then `OnTerminateClose`). In `UniSpeech`,
where the client task sets the fields with no lock, each of its assignments, and the
test before them, is an action. `op`, `apc`
and `pc` say where a thread is inside a call; their values are named for the wait or
the step of the code.

*`SpeechChannel`.* `state` is `schannel->state`; `chan` whether the memory is allocated;
`session` the UniMRCP session as the channel's calls and callbacks see it (`"corrupt"`
if it is used after it was destroyed); `queue` the number of frames queued; `cb` the
client task between the two halves of `on_session_terminate`. `RequestSend` and the
actions near it are the send-and-wait that `synth_channel_speak`,
`recog_channel_start` and `recog_channel_load_grammar` have in common. `stale` and
`expired` are history: they record that stop, or open, gave up a wait. Only a
recognizer's channel has data that open may fail to allocate (`OpenDataFails`); a
persistent channel is then READY without any, and `recog_channel_start` gives it up
(`cause = NoData` in MRCPRecog, `results = "none"` in SynthAndRecog).

*`MRCPSynth`, `MRCPRecog`.* `apc` goes through `app_synth_exec` or `app_recog_exec`.
Every action is one of `SpeechChannel` (or none of its state) and the
application's part. `requests` is what the server has not answered; a response or
event is produced and dispatched in one step. `speaking`, `active` are what the
server does. Options are chosen where the code first looks at them. The caller may
hang up, press digits, or stay on; a prompt may end, go on or fail.

*`SynthAndRecog`.* `apc` goes through `app_synthandrecog_exec`; `synthandrecog_prompt_play`
is called from three places, and `turn` says where it returns to. `chan`, `state` and
`requests` have a value for each channel. `speech_channel_open` and `_destroy` are single
steps with their result; a wait for READY or for an answer ends at any time, and the
state it then finds decides. `next` is the client task between
`recog_channel_set_results` and `speech_channel_set_state`, which take the mutex one after
the other; as there is one client task, the other channel's messages wait meanwhile.
The server of the synthesizer has at most one SPEAK in progress, the recognizer's may
queue RECOGNIZEs (`active`). `crashed` is the run that reads the profile of a channel
that never got one.

*`AppDatastore`, `AppModule`.* `sessions` has for each entry the fields of `app_session_t`
that outlive a run: `plt`, the two channels, whether `nreadformat` and `nwriteformat` are
known, and the run `nlsml_result` is of. `live` and `outcome` are history: the channels
that exist, and the result of the last recognizer's run that got past its argument
checks: one refused there (`ExecFails`) leaves the answer of RECOG_INPUT() as it was,
and `ReadsLastRun` does not count it. `mpc` goes through `load_module` and
`unload_module`; `linked` are the static pointers `mrcpsynth`, `mrcprecog` and
`synthandrecog`, `hash` is `globals.apps`. Every step of a load may fail as its function
can. The caller finds only what is registered; a run that was in the module when
Asterisk began to take it out meets what is left (`CallMeetsUnload`).

*`AudioQueue`.* `data`, `used` and `waiting` are the buffer, `buffer->used` and
`queue->waiting`; the reader's wait ends by `signalled`, or by the timeout.

*`UniSpeech`.* `object` is the `uni_speech_t`; `is_inprogress`, `mrcp_event`,
`mrcp_request`, `mrcp_response`, `sm_request`, `sm_response` are its fields, and
`state` is `speech_base->state`. A message is the number of the request it belongs to,
which the code does not look at. Each of `Stop`, `Start`, `DefineGrammar`,
`SetProperties` and `Preload` ends in `Ask`, the request up to its wait, or in
`AskFails`, when the message cannot be made or sent; `RequestWake` and `After` are what
follows. The client task handles `RECOGNITION-COMPLETE` in four steps, for it holds no lock:
`RecognitionComplete`, `CheckState`, `StoreEvent` and `Completed`.

## 3. The runs

Properties in parentheses are liveness, action or refinement properties.

| Run | Specification and bounds | What it shows |
|---|---|---|
| `channel` | `ChannelFairSpec`, two frames, terminate may be refused | `FreedIsGone`, `HandleSafe`, `NoAudioOutsideRequest` (`StartsEmpty`, `LifecycleImplemented`, `CallsReturn`) |
| `queue` | `Spec`, four bytes of two values, chunks of up to three | `NoLostWakeup` (`FifoImplemented`) |
| `synth` | `SynthFairSpec`, three runs by one caller | `StateTracksSpeech`, `NothingLeft`, `CrashNeedsReuse` (`CallEnds`) |
| `recog` | `RecogFairSpec`, two runs, up to two grammars and two prompts each | `ReadyHasResults`, `OutcomeIsOwn`, `TimersRun`, `NothingLeft` (`ContractsKept`, `CallEnds`) |
| `synth_recog` | `SarFairSpec`, two runs, up to two prompts each | `BargeInSilences`, `TimersFollowPrompts`, `BothReleased` (`PromptsOneByOne`, `ContractsKept`, `RunEnds`) |
| `app_module` | `Spec`, two loads, three runs of three applications on two entries | `RegisteredIsServed`, `LoadIsAllOrNothing`, `ReadsLastRun`, `ChannelsOwned` |
| `speech_api` | `FairSpec`, four MRCP requests in the object's life | `FreedIsQuiet`, `ResultIsOwn`, `InProgressIsTrue` (`AnswerIsOwn`, `CallsReturn`) |

Each of these also checks the module's type invariant. That MRCPSynth keeps `RunContract`
(`RunsKept`) is proved and not run: it is the same mapping as that of MRCPRecog, over
fewer steps. That the datastore does is proved only: TLC cannot check a formula of an
instance with a parameter (`EntryRuns(e)`).

*Why the bounds are enough.* The channel's state space is finite but for the queue,
of which only "empty", "some" and "full" matter: two frames. A buffer of four bytes
with chunks of three can be filled, overfilled, read short and moved down with an
overlap; two values tell bytes apart. Two runs of an application let a request of
the first be answered in the second; the third synthesizer run lets a channel
that a run left broken meet one that finds it and one after that. Two grammars
and two prompts have a first, a last and a failure between them, and for
SynthAndRecog a file after a text and a text after a file. Four requests
are enough for a RECOGNIZE, a STOP and a second RECOGNIZE with a SET-PARAMS or a
DEFINE-GRAMMAR before or between them, so that an answer or a completion of the
first recognition can meet the second. Two loads let one that failed, or was
undone, meet another; three runs on two entries let an entry that two applications
left something in meet a third, with a run on the other entry between. The
safety properties of `recog` were also checked with three runs of one grammar and
one prompt, which is where the condition of `ReadyHasResults` was found. All the
safety properties are proved without bounds (section 4).

Five more runs each refute one statement of the documentation or of a comment:

| Run | Property | What the code does |
|---|---|---|
| `channel_open` | `OpenGivesUp` | `speech_channel_open` waits for as long as the state is CLOSED: its branch for a timeout is dead, and an unanswered channel-add blocks it for ever |
| `recog_cause` | `CauseIsReported` | the data cleared by open reads as "cause 000 is already set", so the cause of a refused grammar is not stored |
| `speech_api_race` | `StartedIsInProgress` | a completion handled between the answer to RECOGNIZE and the end of `uni_recog_start` is dropped, and the object stays in progress |
| `synth_recog_left` | `LeftIsDestroyed` | a text left playing when the result came "will be destroyed anyway" only in a dynamic run: a persistent one leaves it speaking |
| `datastore_format` | `FormatsKnown` | the write format is determined only if there is no recognizer channel: on the entry of a persistent MRCPRecog it is NULL, and used |

### Other disagreements met while modelling

The models do as the code does; no run is spent on these.

* `app_mrcprecog.c:1519`: `strcmp(i, "any")` is not 0 for any list of keys, so a digit
  that is not in option `i` interrupts the recognition as well.
* `app_mrcprecog.c:1424`: a hangup that `ast_waitfor` reports leaves the status OK, there
  are no results, and the run ends with ERROR instead of INTERRUPTED (:126).
* `app_mrcpsynth.c:705`: an error during the synthesis, or a SPEECH-MARKER (:288), ends the
  run with SYNTHSTATUS OK, against :94.
* `app_mrcpsynth.c:601`: a persistent run whose open failed leaves its channel in the entry;
  later runs find it, never open it, and speak on it, or read the profile it never
  got (`CrashNeedsReuse` says that only such a run can).
* `app_mrcprecog.c:777`: the answer to a DEFINE-GRAMMAR that was given up two runs ago sets
  READY while a RECOGNIZE is pending, which the loop takes for its end: there are no results.
* `app_unimrcp.c:197`: when the client does not start, the three static pointers stay set,
  and a load that is tried again registers no application (`declined`).
* `app_unimrcp.c:234`: a load that could not register everything returns an error with all
  the rest alive: the client, the globals, and what was registered.
* `ast_unimrcp_framework.c:632`: a client that was created is not destroyed when a later
  step of `mod_unimrcp_client_create` fails; :699 compares an unsigned count with 0.
* The numbers given to RECOG_INSTANCE(), with one number only, choose the instance and
  not the alternative (`app_datastore.c:337`); options nif and rnl stay in a shared entry.

### Conditions in the properties

Handlers do not look at request-ids, so some properties hold only while the code
has not given up an answer. Each condition is a history variable set where the
code gives up, each was found necessary (without it TLC has a counterexample), and
each marks a weakness of the code:

* `stale`, `expired` (channel): stop timed out and forced ERROR; open timed out
  waiting for the session it terminated.
* `overlap`, `failed` (synthesizer), `overlap` (recognizer): the request was sent
  while the server still owed an answer or a completion; an error was reported.
* `noisy`, `overlap`, `refused` (SynthAndRecog): the synthesizer owed something when the
  run began, reported an error or could not be told to stop; RECOGNIZE was sent while
  the recognizer owed something; START-INPUT-TIMERS failed.
* `declined` (module): a load was declined after the applications were linked.
* `gaveUp`, `refused`, `raced` (speech API): a wait or a terminate ended
  unanswered; a STOP was refused; a completion was handled inside start.

### Fairness

* The thread that runs an application or an engine function is scheduled, and no
  wait exceeds its timeout: weak fairness of `Wake`, or of `Run`.
* The library answers each channel-add and terminate it accepted: weak fairness of
  the callbacks. `speech_channel_destroy` loops until it does, so the code relies
  on it; `channel_open` shows what happens without it.
* The server completes a speech or a recognition it began. The application loops
  rely on it: they have no timeout of their own. No answer to a request is assumed.
* In `SarFairSpec` a session that was asked to end does (`Terminated`), and the client
  task finishes a message it began (`FinishMessage`).
* `UniSpeech` assumes the thread only. Neither server nor library need ever answer.

No caller need ever hang up, and no run of an application need ever be begun.
`CallsReturn` of the channel excepts a destroy whose terminate the library refused
(it then waits for ever: `CHECK_DEADLOCK FALSE` in that run); `CallsReturn` of the
speech object excepts a get over a result with an interpretation that has no input or
instance, where the code's loop does not advance. `app_module` has only safety properties, and its
caller and its loads come to an end (`CHECK_DEADLOCK FALSE`). Deadlock is checked in the
others.

## 4. What is proved

For every value of the constants, with `tlapm`:

* `SpeechChannelProofs`: `TypeCorrect`, `ReleaseIsSafe` (FreedIsGone), `HandleUseIsSafe`
  (HandleSafe), `AudioStaysInRequest`, `RequestStartsEmpty`, and `LifecycleRefined`: the
  channel implements `ChannelLifecycle` and `ChannelContract` (`ContractRefined`); then
  `CallsAdvance` and `NobodyWaitsInVain`, on how its calls end.
* `AudioQueueProofs`: `QueueTypeCorrect`, `WakeupsAreKept`, and `QueueIsFifo`: the buffer
  implements `ByteFifo`.
* `MRCPSynthProofs`, `MRCPRecogProofs`: `SynthUsesChannel`, `RecogUsesChannel`: each
  behaviour of an application is one of its channel. With it the channel's theorems
  carry over (`SynthReleaseIsSafe`, `SynthHandleIsSafe`, `RecogReleaseIsSafe`,
  `RecogStartsEmpty`). Then the applications' own: `SynthTypeCorrect`, `SynthLeavesNothing`
  (NothingLeft), `SynthCrashNeedsReuse`, `StateTracks` (StateTracksSpeech); `RecogTypeCorrect`,
  `RecogLeavesNothing`, `ReadyMeansResults` (ReadyHasResults), `RunsReportTheirOwn`
  (OutcomeIsOwn), `TimersAreAsked` (TimersRun). On how runs end: `SynthIsNotStuck` and
  `SynthRunsAdvance`, `RecogIsNotStuck` and `RecogRunsAdvance`. On the entry:
  `SynthKeepsContract`, `RecogKeepsContract` (RunsKept), `RecogKeepsContracts` (ContractsKept).
* `SynthAndRecogProofs`: `SarTypeCorrect`, `BothAreReleased`, `CallerIsNotTalkedOver`
  (BargeInSilences), `OnePromptAtATime`, `TimersFollow`; `SarIsNotStuck`, `SarRunsAdvance`;
  `BothChannelsKept`, the refinement of `ChannelContract` by each of the two channels,
  `SarKeepsContract`, that of `RunContract`, and both together, `SarKeepsAllContracts`.
* `AppModuleProofs`: `LastRunIsRead`, `ChannelsAreOwned`, and `EntriesKeepContract`, the
  refinement of `RunContract` by every entry, of the datastore alone;
  `CallerImplemented`, that the module's caller takes only its steps, so that what
  holds of the datastore holds through every load and unload (`ModuleReadsLastRun`,
  `ModuleOwnsChannels`); and `ModTypeCorrect`, `CallsAreServed` (RegisteredIsServed),
  `LoadsAreComplete` (LoadIsAllOrNothing).
* `UniSpeechProofs`: `UniTypeCorrect`, `FreedObjectIsQuiet` (FreedIsQuiet), `AnswersAreOwn`
  (AnswerIsOwn), `ResultsAreOwn` (ResultIsOwn) and `InProgressIsKnown` (InProgressIsTrue):
  all of the safety properties of the speech object; then `NobodyWaitsInVain` and
  `CallsAdvance`.

*Assumptions.* Only those named in the modules: capacities, chunk sizes and bounds are
positive naturals, `TerminateCanFail` is Boolean, "none" names no entry.

*The argument for the channel.* "CLOSED with nobody opening means that the session
is gone" is what destroy relies on, and is not inductive alone: it needs to know who
can be where. The invariant `IInv` conjoins: a session waits for channel-add exactly
while open waits (`Adding`); CLOSED means gone or opening (`Closed`); a session just
destroyed is not CLOSED yet (`Terminating`); only open's error path and destroy
terminate, and only the first can return early (`Ending`); a channel whose open
failed that way stays in ERROR, for no request was sent on it, until it is CLOSED
(`Failed`). `AudioInv` adds the queue. One lemma each covers the application's calls,
the waits that end, and the other threads; the refinement follows from the
invariant step by step.

*The queue.* `NoLostWakeup` needs that `waiting` equals what the blocked reader wants;
the refinement is a lemma about `Take` and one about `Store` over the prefix in use.

*The speech object.* That an answer is the own one rests on counting: as long as no
wait gave up, there is one request unanswered exactly while the thread waits
(`OneSignalling`, `OneRequest`), so the handler that takes any response can only meet
that one. `OneRecognition` builds on it: the server works on the last RECOGNIZE or on
none, the event being handled is of that one, and `is_inprogress` tells which,
but for the steps between the answer to a RECOGNIZE or STOP and the end of its
function (`Granted`), where the code's fields lag behind the server.

*MRCPSynth.* `SynthInv` adds to `IInv`: where the run is and what its channel is doing fit
(`Placed`); a session that is gone owes nothing (`Owed`); only a run that failed leaves a
channel unopened (`Unopened`); and, while no request overlapped and no error came,
`Tracks`: the synthesizer is silent, asked to speak, speaking, or asked to stop, with the
channel's state to match.

*MRCPRecog.* The results and READY come in two steps, and nothing in the handler names the
request. `RecogInv` follows the RECOGNIZE of the run: as long as it met a recognizer
that owed nothing, it is unanswered, in progress, complete with its results stored
and READY to come, or rejected (`Stages`), and besides it only START-INPUT-TIMERS are
pending. `Timely` does the same for the timers, `Own` for the owner of the results.

*SynthAndRecog.* `SarInv`: a channel that is not there owes nothing and is CLOSED
(`ChanInv`); the synthesizer is silent, speaks the current text, will speak it, or will
stop (`Voice`); once the prompts are over the timers run, were asked for, or input came
(`Timed`). Each lemma takes one group of actions, those of one channel leaving the
other's part alone.

*Datastore and module.* `DsInv`: a run has an entry, and every channel that exists is in one
(`Entered` with the two properties). The module's own invariant is what each
stage has made (`Stages`) and that a pointer is set exactly for what the table holds,
unless a load was declined (`Linked`); no step of the caller touches it.

*What an entry sees.* `RunContract` is refined step by step: each action of an application
is one of its steps or leaves the four mapped variables (`EntryAt`, `EntryUses`,
`EntryLasting`, `EntryHeld`) alone, which the lemma `EntryStays` says once for all the
steps inside a run. What is not plain is that a channel is given back in the middle of
a run only by a dynamic one (`Dynamic`, an invariant of its own: the places where `stop`
and destroy are called are reached only without `plt`), and that the end of a dynamic
run finds none left (the argument of `NothingLeft`). The datastore's proof is for an
arbitrary entry: the steps of a run on another entry are stutters of this one, and
the clean-up of the caller's channel, one step there, is the hangup of every entry. A run may crash only where the applications can.

*That nobody waits in vain.* No theorem says that a call ends, but two say what that
rests on besides fairness. One is an invariant: whoever waits without a timeout waits
for something that is owed, and says for what: a callback of the library, the rest of a
message the client task is in, the end of a speech or a recognition the server has in
progress (`NobodyWaitsInVain`, `*IsNotStuck`). It needs that a state of PROCESSING in a
loop is that of a request the server did accept and is still to complete (`Speech`,
`Recognition`, `Attended`), and, for the queue-less waits of the channel, that no wakeup is
lost (`Agreed`). The other is an action property: a measure over the natural numbers,
lexicographic where a run has a loop, that no step of anybody raises, that each step
awaited by the first lowers, and, if it stays, a thread that could go on still can
(`CallsAdvance`, `*RunsAdvance`). So with the fairness of section 3 every call and
every run ends, for every value of the constants. The measure of the applications is
the stage of the run first, then what the server still has to say, then the place in
the loop: a message that sets PROCESSING again may send the loop round once more,
but the server has one message less. The exceptions are stated in the theorems: a
destroy whose terminate the library refused waits for nothing owed; `open` is owed its
answer to channel-add by the library alone; the frames of a caller who goes on
speaking (`VoiceFrame`) turn MRCPRecog's loop without bringing its end nearer, as do
the frames and prompts that go on in SynthAndRecog's; and the loop of `uni_recog_get`
(`"spin"`) is outside both.

*Only model-checked.* Liveness itself (`CallsReturn`, `CallEnds`, `RunEnds`): from the two
theorems above to it, what is missing is fairness and ENABLED, which are out of the
prover's reach. And the five runs that end in a violation. Every safety and every
refinement property of a passing run is proved.

## 5. What is abstracted, and what is not modelled

* Texts: option strings, headers, grammars, NLSML. What the code decides by them (a
  grammar that cannot be classified, a missing profile) is a choice.
* Time: any timed wait may end at once. Spurious wakeups are the same step where the
  code does not tell them apart.
* The server: requests are answered in order, with success or failure, or never.
  A SPEAK that is queued behind another one is not modelled as PENDING.
* The blocking read of the queue has no caller today; it is modelled because the
  queue offers it. STOP is in `SpeechChannel`; MRCPRecog never sends it.
* `on_terminate_event` only logs. The START-OF-INPUT flags of the speech object, its
  media buffer and its table of active grammars decide nothing modelled here.
* In `SynthAndRecog` the queues, and open and destroy step by step, are left to
  `SpeechChannel`; digits are only passed on to the recognizer there. Its loop over
  the grammars is taken once: what more than one can do is in `MRCPRecog`, which
  counts them.
* In `AppDatastore` what a run does with its channels between creating and destroying
  them is left to the three applications' modules.
* A second Asterisk channel shares with the first only the module and its counters;
  every model has one caller.

### Not modelled

* `speech_channel_ast_write`, `speech_channel_set_params`, the helpers that classify
  prompts and grammars, the reference lists in their bounded buffers
  (`res_speech_unimrcp.c:633`), and what the dialplan functions take out of an NLSML
  document: they turn text into text. That they fail is a choice of the step that
  calls them; no state depends on which text they made.
* The parameters of `mrcp.conf` and the profiles built from them: tables of strings,
  filled once by a load. That a load fails over them is modelled.
* The DTMF generator, which `on_session_terminate` destroys with no lock
  (`app_mrcprecog.c:227`): whether the media thread may still be in it is decided by
  the library, which is not in this repository.
* The load and unload of the speech engine (`res_speech_unimrcp.c:1349-1522`): one thread
  runs them from end to end and nothing calls in before the engine is registered, last.
  Read, not checked: when the media formats cannot be allocated (:1481) the client,
  started before, is destroyed without being shut down. `reload` does nothing.
* The compatibility macros, the build, and the sample configuration have no behaviour.

## 6. How the project was built

In the order of importance for the system: the channel, the queue, MRCPSynth, MRCPRecog
and the speech object with their first theorems; then SynthAndRecog over the contract
of a channel, the datastore, the module around it, and the proofs of every safety
property; then the theorems on waiting, and the contract where the applications and
the datastore meet. Left to do: an abstract specification of the speech object as the
dialplan's SpeechStart() and SpeechBackground() see it. What was planned and left out is the classification of prompts and grammars as
pure operators: it splits strings, which a model of control has no use for.

## 7. Running it

    tlc -workers 2 -config MCSpeechChannel.cfg MCSpeechChannel
    tlapm SpeechChannelProofs.tla

Each run names its module and configuration in `PROJECT.json`. The largest,
`app_module`, has 4.2 million distinct states; the others have at most about a million.
Each takes between seconds and a few minutes, and so do the proofs of a module.
