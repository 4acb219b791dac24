---------------------------- MODULE AppDatastore ----------------------------
(***************************************************************************)
(* What outlives a run of an application: the datastore of one Asterisk    *)
(* channel (app-unimrcp/app_datastore.c), whose entries hold the speech    *)
(* channels, the audio formats and the last recognition result, and are    *)
(* shared by the three applications.  The dialplan runs one application    *)
(* after another, each on the entry its option dse names, persistent or    *)
(* dynamic as it says; between runs it may ask the functions RECOG_INPUT() *)
(* and the like for the result.                                            *)
(*                                                                         *)
(* What a run does with its channels in between is the matter of MRCPSynth,*)
(* MRCPRecog and SynthAndRecog; here it creates, keeps and destroys them.  *)
(***************************************************************************)
EXTENDS Naturals

CONSTANTS
  Entries,  \* names of datastore entries, the default one included
  MaxRuns   \* bound: runs of the applications by one caller

ASSUME RunsAssumption == MaxRuns \in Nat \ {0}
ASSUME EntriesAssumption == "none" \notin Entries

Apps == {"MRCPSynth", "MRCPRecog", "SynthAndRecog"}
Recognizers == {"MRCPRecog", "SynthAndRecog"}
Kinds == {"synth", "recog"}

VARIABLES
  store,     \* the Asterisk channel has its datastore
  sessions,  \* datastore->session_table: a record for each entry
  last,      \* datastore->last_recog_entry, "none" if there is none
  app,       \* the application that runs, else "none"
  entry,     \* its entry
  apc,       \* where it is
  runs,      \* how many runs there were
  live,      \* history: the speech channels that exist
  outcome,   \* history: the result of the last run of a recognizer that Exec began
  blind      \* history: a run set, or passed on, a format it never determined

dsVars == <<store, sessions, last, app, entry, apc, runs, live, outcome, blind>>

\* 0 stands for no result, and else a run for the result it had.
Results == 0..MaxRuns

\* lifetime, the two speech channels, the formats nreadformat and nwriteformat,
\* and nlsml_result.
Session ==
  [plt : BOOLEAN, synth : BOOLEAN, recog : BOOLEAN,
   nread : BOOLEAN, nwrite : BOOLEAN, nlsml : Results]

\* An entry that was never added is like one just added.
NewSession ==
  [plt |-> FALSE, synth |-> FALSE, recog |-> FALSE,
   nread |-> FALSE, nwrite |-> FALSE, nlsml |-> 0]

RunStates == {"idle", "channel", "formats", "play", "exit", "end", "crashed"}

DsDataOK ==
  /\ sessions \in [Entries -> Session]
  /\ last \in Entries \cup {"none"}
  /\ app \in Apps \cup {"none"}
  /\ entry \in Entries \cup {"none"}
  /\ apc \in RunStates /\ runs \in 0..MaxRuns
  /\ live \subseteq Entries \X Kinds
  /\ outcome \in Results

DsFlagsOK == store \in BOOLEAN /\ blind \in BOOLEAN

DsTypeOK == DsDataOK /\ DsFlagsOK

DsInit ==
  /\ store = FALSE /\ sessions = [e \in Entries |-> NewSession]
  /\ last = "none" /\ app = "none" /\ entry = "none"
  /\ apc = "idle" /\ runs = 0 /\ live = {} /\ outcome = 0 /\ blind = FALSE

-----------------------------------------------------------------------------
(* One run.                                                                *)

\* An argument is missing, or the datastore cannot be allocated: the run is refused
\* before it has an entry, and the result of an earlier one stays readable.
ExecFails ==
  /\ apc = "idle" /\ runs < MaxRuns
  /\ runs' = runs + 1
  /\ UNCHANGED <<store, sessions, last, app, entry, apc, live, outcome, blind>>

\* Entry e becomes s.
Becomes(e, s) == sessions' = [sessions EXCEPT ![e] = s]

\* Mutant of Exec: the entry keeps the result of an earlier run.
ExecKeepsResult(a, e) ==
  /\ apc = "idle" /\ runs < MaxRuns
  /\ runs' = runs + 1 /\ app' = a /\ entry' = e /\ apc' = "channel"
  /\ store' = TRUE
  /\ \E p \in BOOLEAN : Becomes(e, [sessions[e] EXCEPT !.plt = p])
  /\ IF a \in Recognizers THEN last' = e /\ outcome' = 0
                          ELSE UNCHANGED <<last, outcome>>
  /\ UNCHANGED <<live, blind>>

\* Mutant of Exec: last_recog_entry gets the application's name, not the entry's.
ExecNamesApp(a, e) ==
  /\ apc = "idle" /\ runs < MaxRuns
  /\ runs' = runs + 1 /\ app' = a /\ entry' = e /\ apc' = "channel"
  /\ store' = TRUE
  /\ \E p \in BOOLEAN :
       IF a \in Recognizers
       THEN /\ Becomes(e, [sessions[e] EXCEPT !.plt = p, !.nlsml = 0])
            /\ last' = a /\ outcome' = 0
       ELSE /\ Becomes(e, [sessions[e] EXCEPT !.plt = p])
            /\ UNCHANGED <<last, outcome>>
  /\ UNCHANGED <<live, blind>>

\* app_datastore_get, app_datastore_session_add, and the fields set by exec: a
\* recognizer becomes the last one and forgets the entry's result.
Exec(a, e) ==
  /\ apc = "idle" /\ runs < MaxRuns
  /\ runs' = runs + 1 /\ app' = a /\ entry' = e /\ apc' = "channel"
  /\ store' = TRUE
  /\ \E p \in BOOLEAN :
       IF a \in Recognizers
       THEN /\ Becomes(e, [sessions[e] EXCEPT !.plt = p, !.nlsml = 0])
            /\ last' = e /\ outcome' = 0
       ELSE /\ Becomes(e, [sessions[e] EXCEPT !.plt = p])
            /\ UNCHANGED <<last, outcome>>
  /\ UNCHANGED <<live, blind>>

\* The speech channel an application looks for in its entry.
Own(a) == IF a = "MRCPSynth" THEN "synth" ELSE "recog"

Holds(k) == IF k = "synth" THEN sessions[entry].synth ELSE sessions[entry].recog

Goto(a) == apc' = a /\ UNCHANGED <<store, last, app, entry, runs, outcome>>

\* The entry has the channel, of a persistent run.
ReuseChannel ==
  /\ apc = "channel" /\ Holds(Own(app))
  /\ Goto("formats")
  /\ UNCHANGED <<sessions, live, blind>>

\* The formats the entry has once its own channel is looked for in vain.
Determined ==
  [sessions[entry] EXCEPT !.nread = @ \/ app \in Recognizers,
                          !.nwrite = @ \/ app # "MRCPRecog"]

\* The formats are determined and the channel is created; it is in the entry
\* even if there is no profile for it or it cannot be opened.
CreateChannel ==
  /\ apc = "channel" /\ ~Holds(Own(app))
  /\ \/ /\ Becomes(entry, IF app = "MRCPSynth"
                          THEN [Determined EXCEPT !.synth = TRUE]
                          ELSE [Determined EXCEPT !.recog = TRUE])
        /\ live' = live \cup {<<entry, Own(app)>>}
        /\ Goto("formats") \/ Goto("exit")
     \/ /\ Becomes(entry, Determined)
        /\ Goto("exit") /\ UNCHANGED live
  /\ UNCHANGED blind

\* ast_set_read_format_path, ast_set_write_format_path: what they make of a
\* format that is NULL is not known.
SetFormats ==
  /\ apc = "formats"
  /\ LET null == \/ app \in Recognizers /\ ~sessions[entry].nread
                 \/ app # "MRCPRecog" /\ ~sessions[entry].nwrite
     IN  /\ blind' = (blind \/ null)
         /\ Goto("play") \/ (null /\ Goto("crashed"))
  /\ UNCHANGED <<sessions, live>>

\* synthandrecog_prompt_play with a text: the channel takes the format from the
\* entry, and speech_channel_create reads it.
PlayText ==
  /\ apc = "play" /\ app = "SynthAndRecog" /\ ~sessions[entry].synth
  /\ blind' = (blind \/ ~sessions[entry].nwrite)
  /\ \/ /\ Becomes(entry, [sessions[entry] EXCEPT !.synth = TRUE])
        /\ live' = live \cup {<<entry, "synth">>}
        /\ Goto("play") \/ Goto("exit")
     \/ Goto("exit") /\ UNCHANGED <<sessions, live>>
     \/ ~sessions[entry].nwrite /\ Goto("crashed") /\ UNCHANGED <<sessions, live>>

\* With an audio file: a dynamic run destroys the synthesizer's channel.
PlayFile ==
  /\ apc = "play" /\ app = "SynthAndRecog"
  /\ sessions[entry].synth /\ ~sessions[entry].plt
  /\ Becomes(entry, [sessions[entry] EXCEPT !.synth = FALSE])
  /\ live' = live \ {<<entry, "synth">>}
  /\ Goto("play") /\ UNCHANGED blind

\* The run is over, with a result (nlsml_result_parse) or without one.
Finish ==
  /\ apc = "play"
  /\ \/ UNCHANGED <<sessions, outcome>>
     \/ /\ app \in Recognizers
        /\ Becomes(entry, [sessions[entry] EXCEPT !.nlsml = runs])
        /\ outcome' = runs
  /\ apc' = "exit"
  /\ UNCHANGED <<store, last, app, entry, runs, live, blind>>

Over == apc' = "idle" /\ app' = "none" /\ entry' = "none"

ExitKeeps ==
  /\ apc = "exit" /\ sessions[entry].plt
  /\ Over /\ UNCHANGED <<store, sessions, last, runs, live, outcome, blind>>

\* MRCPSynth destroys the synthesizer's channel, MRCPRecog the recognizer's,
\* SynthAndRecog both; what the other application left stays in the entry.
ExitDestroys ==
  /\ apc = "exit" /\ ~sessions[entry].plt
  /\ Becomes(entry, [sessions[entry] EXCEPT !.synth = @ /\ app = "MRCPRecog",
                                            !.recog = @ /\ app = "MRCPSynth"])
  /\ live' = live \ ({entry} \X
               (CASE app = "MRCPSynth" -> {"synth"}
                  [] app = "MRCPRecog" -> {"recog"}
                  [] OTHER -> Kinds))
  /\ Over /\ UNCHANGED <<store, last, runs, outcome, blind>>

-----------------------------------------------------------------------------
(* The end of the Asterisk channel, and the functions.                     *)

\* The speech channels the entries hold.
Owned == {c \in Entries \X Kinds :
            IF c[2] = "synth" THEN sessions[c[1]].synth ELSE sessions[c[1]].recog}

\* Mutant of HangUp: of each entry only the synthesizer's channel is destroyed.
HangUpHalf ==
  /\ apc = "idle" /\ apc' = "end"
  /\ store' = FALSE /\ sessions' = [e \in Entries |-> NewSession]
  /\ live' = live \ (Entries \X {"synth"}) /\ last' = "none" /\ outcome' = 0
  /\ UNCHANGED <<app, entry, runs, blind>>

\* app_datastore_destroy: whatever the lifetime, every channel is destroyed.
HangUp ==
  /\ apc = "idle" /\ apc' = "end"
  /\ store' = FALSE /\ sessions' = [e \in Entries |-> NewSession]
  /\ live' = live \ Owned
  /\ last' = "none" /\ outcome' = 0
  /\ UNCHANGED <<app, entry, runs, blind>>

\* The module is gone, and the run or the hangup meets what was of it.
Crash ==
  /\ apc \notin {"end", "crashed"} /\ apc' = "crashed"
  /\ UNCHANGED <<store, sessions, last, app, entry, runs, live, outcome, blind>>

\* The result RECOG_INPUT(), RECOG_INSTANCE() and the others take their answer
\* from; 0 if they find no session, or it has no result.
Reply == IF store /\ last # "none" THEN sessions[last].nlsml ELSE 0

\* The steps that create a speech channel, for the object of the application,
\* and the others.
NeedsObject ==
  \/ apc = "channel" /\ ~Holds(Own(app))
  \/ apc = "play" /\ app = "SynthAndRecog" /\ ~sessions[entry].synth

Creates == CreateChannel \/ PlayText

GoesOn ==
  \/ ReuseChannel \/ SetFormats \/ PlayFile \/ Finish
  \/ ExitKeeps \/ ExitDestroys

DsNext ==
  \/ ExecFails \/ (\E a \in Apps, e \in Entries : Exec(a, e))
  \/ Creates \/ GoesOn \/ HangUp \/ Crash

DsSpec == DsInit /\ [][DsNext]_dsVars

-----------------------------------------------------------------------------
(* What the datastore promises.                                            *)

\* Whatever runs on whichever entries there were, the functions answer from the
\* last run of a recognizer that got past its argument checks: never from an
\* earlier one, if it had no result.  A run refused at those checks (ExecFails)
\* does not count: it leaves the answer as it was.
ReadsLastRun == Reply = outcome

\* Whichever applications shared an entry, with whatever lifetimes, a speech
\* channel exists exactly as long as the entry holds it, so that the hangup
\* leaves none.
ChannelsOwned == live = Owned

\* nwriteformat: "new write format used for synthesis" (app_datastore.h:58):
\* a run uses no format that was not determined.
FormatsKnown == ~blind

\* The runs, and the hangup, as each entry has them.
UsedBy(a) ==
  CASE a = "MRCPSynth" -> {"synth"} [] a = "MRCPRecog" -> {"recog"} [] OTHER -> Kinds

EntryAt(e) ==
  IF apc \in {"end", "crashed"} THEN apc ELSE IF entry = e THEN "run" ELSE "idle"

EntryUses(e) == IF entry = e THEN UsedBy(app) ELSE {}

EntryLasting(e) == entry = e /\ sessions[e].plt

EntryHeld(e) ==
  {k \in Kinds : IF k = "synth" THEN sessions[e].synth ELSE sessions[e].recog}

EntryRuns(e) ==
  INSTANCE RunContract WITH
    Uses <- {{"synth"}, {"recog"}, Kinds}, at <- EntryAt(e), uses <- EntryUses(e),
    lasting <- EntryLasting(e), held <- EntryHeld(e)
=============================================================================
