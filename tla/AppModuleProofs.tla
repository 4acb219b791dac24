-------------------------- MODULE AppModuleProofs --------------------------
(***************************************************************************)
(* What is proved of AppDatastore and AppModule.  The datastore's theorems *)
(* are about DsSpec, a caller alone; AppModule implements it, so that they *)
(* hold while the module is loaded and unloaded.                           *)
(***************************************************************************)
EXTENDS AppModule, TLAPS

USE RunsAssumption, LoadsAssumption, EntriesAssumption
    DEF RunsAssumption, LoadsAssumption, EntriesAssumption

Running == apc \in {"channel", "formats", "play", "exit"}

\* Whoever runs has an entry of a datastore, and a recognizer's is the last.
Entered ==
  /\ Running => store /\ entry \in Entries /\ app \in Apps
  /\ Running /\ app \in Recognizers => last = entry
  /\ ~store => last = "none"

-----------------------------------------------------------------------------
(* Sessions.                                                               *)

\* What each update of an entry makes of it.
LEMMA SessionUpdates ==
  ASSUME NEW s \in Session, NEW b \in BOOLEAN, NEW c \in BOOLEAN, NEW n \in Results
  PROVE  /\ [s EXCEPT !.plt = b] \in Session
         /\ [s EXCEPT !.plt = b, !.nlsml = n] \in Session
         /\ [s EXCEPT !.synth = b] \in Session
         /\ [s EXCEPT !.recog = b] \in Session
         /\ [s EXCEPT !.nlsml = n] \in Session
         /\ [s EXCEPT !.nread = b, !.nwrite = c] \in Session
         /\ [s EXCEPT !.synth = b, !.recog = c] \in Session
  BY DEF Session

LEMMA NewSessionTyped == NewSession \in Session
  BY DEF NewSession, Session, Results

LEMMA SessionsUpdated ==
  ASSUME NEW f \in [Entries -> Session], NEW e \in Entries, NEW s \in Session
  PROVE  /\ [f EXCEPT ![e] = s] \in [Entries -> Session]
         /\ [f EXCEPT ![e] = s][e] = s
         /\ \A d \in Entries \ {e} : [f EXCEPT ![e] = s][d] = f[d]
  OBVIOUS

LEMMA SameChannels ==
  ASSUME NEW A, NEW B, A \subseteq Entries \X Kinds, B \subseteq Entries \X Kinds,
         \A d \in Entries, k \in Kinds : <<d, k>> \in A <=> <<d, k>> \in B
  PROVE  A = B
  OBVIOUS

\* What the update of an entry does to the channels the entries hold.
LEMMA OwnedUpdated ==
  ASSUME sessions \in [Entries -> Session], NEW e \in Entries, NEW s \in Session,
         Becomes(e, s)
  PROVE  /\ s.synth = sessions[e].synth /\ s.recog = sessions[e].recog =>
              Owned' = Owned
         /\ s.synth = TRUE /\ s.recog = sessions[e].recog =>
              Owned' = Owned \cup {<<e, "synth">>}
         /\ s.synth = sessions[e].synth /\ s.recog = TRUE =>
              Owned' = Owned \cup {<<e, "recog">>}
         /\ s.synth = FALSE /\ s.recog = sessions[e].recog =>
              Owned' = Owned \ {<<e, "synth">>}
         /\ s.synth = sessions[e].synth /\ s.recog = FALSE =>
              Owned' = Owned \ {<<e, "recog">>}
         /\ s.synth = FALSE /\ s.recog = FALSE =>
              Owned' = Owned \ ({e} \X Kinds)
  <1>1. /\ sessions' = [sessions EXCEPT ![e] = s]
        /\ sessions'[e] = s
        /\ \A d \in Entries \ {e} : sessions'[d] = sessions[d]
    BY SessionsUpdated DEF Becomes
  <1> DEFINE Held(f, d, k) == IF k = "synth" THEN f[d].synth ELSE f[d].recog
  <1>2. \A d \in Entries, k \in Kinds :
          /\ <<d, k>> \in Owned <=> Held(sessions, d, k)
          /\ <<d, k>> \in Owned' <=> Held(sessions', d, k)
    BY DEF Owned
  <1>3. Owned \subseteq Entries \X Kinds /\ Owned' \subseteq Entries \X Kinds
    BY DEF Owned
  <1>4. \A d \in Entries \ {e}, k \in Kinds : <<d, k>> \in Owned' <=> <<d, k>> \in Owned
    BY <1>1, <1>2
  <1>5. /\ <<e, "synth">> \in Owned' <=> s.synth
        /\ <<e, "recog">> \in Owned' <=> s.recog
        /\ <<e, "synth">> \in Owned <=> sessions[e].synth
        /\ <<e, "recog">> \in Owned <=> sessions[e].recog
    BY <1>1, <1>2 DEF Kinds
  <1> HIDE DEF Held
  <1>6. ASSUME s.synth = sessions[e].synth, s.recog = sessions[e].recog
        PROVE  Owned' = Owned
    <2>1. \A d \in Entries, k \in Kinds :
            <<d, k>> \in Owned' <=> <<d, k>> \in Owned
      BY <1>6, <1>4, <1>5 DEF Kinds
    <2>2. Owned \subseteq Entries \X Kinds
      BY <1>3 DEF Kinds
    <2> QED
      BY <2>1, <2>2, <1>3, SameChannels
  <1>7. ASSUME s.synth = TRUE, s.recog = sessions[e].recog
        PROVE  Owned' = (Owned \cup {<<e, "synth">>})
    <2>1. \A d \in Entries, k \in Kinds :
            <<d, k>> \in Owned' <=> <<d, k>> \in (Owned \cup {<<e, "synth">>})
      BY <1>7, <1>4, <1>5 DEF Kinds
    <2>2. (Owned \cup {<<e, "synth">>}) \subseteq Entries \X Kinds
      BY <1>3 DEF Kinds
    <2> QED
      BY <2>1, <2>2, <1>3, SameChannels
  <1>8. ASSUME s.synth = sessions[e].synth, s.recog = TRUE
        PROVE  Owned' = (Owned \cup {<<e, "recog">>})
    <2>1. \A d \in Entries, k \in Kinds :
            <<d, k>> \in Owned' <=> <<d, k>> \in (Owned \cup {<<e, "recog">>})
      BY <1>8, <1>4, <1>5 DEF Kinds
    <2>2. (Owned \cup {<<e, "recog">>}) \subseteq Entries \X Kinds
      BY <1>3 DEF Kinds
    <2> QED
      BY <2>1, <2>2, <1>3, SameChannels
  <1>9. ASSUME s.synth = FALSE, s.recog = sessions[e].recog
        PROVE  Owned' = (Owned \ {<<e, "synth">>})
    <2>1. \A d \in Entries, k \in Kinds :
            <<d, k>> \in Owned' <=> <<d, k>> \in (Owned \ {<<e, "synth">>})
      BY <1>9, <1>4, <1>5 DEF Kinds
    <2>2. (Owned \ {<<e, "synth">>}) \subseteq Entries \X Kinds
      BY <1>3 DEF Kinds
    <2> QED
      BY <2>1, <2>2, <1>3, SameChannels
  <1>10. ASSUME s.synth = sessions[e].synth, s.recog = FALSE
        PROVE  Owned' = (Owned \ {<<e, "recog">>})
    <2>1. \A d \in Entries, k \in Kinds :
            <<d, k>> \in Owned' <=> <<d, k>> \in (Owned \ {<<e, "recog">>})
      BY <1>10, <1>4, <1>5 DEF Kinds
    <2>2. (Owned \ {<<e, "recog">>}) \subseteq Entries \X Kinds
      BY <1>3 DEF Kinds
    <2> QED
      BY <2>1, <2>2, <1>3, SameChannels
  <1>11. ASSUME s.synth = FALSE, s.recog = FALSE
        PROVE  Owned' = (Owned \ ({e} \X Kinds))
    <2>1. \A d \in Entries, k \in Kinds :
            <<d, k>> \in Owned' <=> <<d, k>> \in (Owned \ ({e} \X Kinds))
      BY <1>11, <1>4, <1>5 DEF Kinds
    <2>2. (Owned \ ({e} \X Kinds)) \subseteq Entries \X Kinds
      BY <1>3 DEF Kinds
    <2> QED
      BY <2>1, <2>2, <1>3, SameChannels
  <1> QED
    BY <1>6, <1>7, <1>8, <1>9, <1>10, <1>11, Zenon

LEMMA ReplyKept ==
  ASSUME sessions \in [Entries -> Session], NEW e \in Entries, NEW s \in Session,
         Becomes(e, s), s.nlsml = sessions[e].nlsml,
         store' = store, last' = last, last \in Entries \cup {"none"}
  PROVE  Reply' = Reply
  <1>1. \A d \in Entries : sessions'[d].nlsml = sessions[d].nlsml
    BY SessionsUpdated DEF Becomes
  <1> QED
    BY <1>1 DEF Reply

-----------------------------------------------------------------------------
(* The datastore: its invariant.                                           *)

DsInv == DsTypeOK /\ Entered /\ ReadsLastRun /\ ChannelsOwned

LEMMA DsInitial == DsInit => DsInv
  <1> SUFFICES ASSUME DsInit PROVE DsInv
    OBVIOUS
  <1>1. DsDataOK /\ Entered
    BY NewSessionTyped DEF DsInit, DsDataOK, Entered, Running, RunStates, Results
  <1>4. DsFlagsOK
    BY Zenon DEF DsInit, DsFlagsOK
  <1>2. ReadsLastRun
    BY DEF DsInit, ReadsLastRun, Reply
  <1>3. ChannelsOwned
    BY DEF DsInit, ChannelsOwned, Owned, NewSession, Kinds
  <1> QED
    BY <1>1, <1>2, <1>3, <1>4 DEF DsInv, DsTypeOK

\* A step that leaves the entries and the result alone.
LEMMA NothingStored ==
  ASSUME DsInv, UNCHANGED <<store, sessions, last, live, outcome>>
  PROVE  ReadsLastRun' /\ ChannelsOwned'
  BY DEF DsInv, ReadsLastRun, ChannelsOwned, Reply, Owned

\* A step of the run's that changes its entry, but not the result in it.
LEMMA EntryChanged ==
  ASSUME DsInv, Running, UNCHANGED <<store, last, outcome>>,
         NEW s \in Session, Becomes(entry, s), s.nlsml = sessions[entry].nlsml
  PROVE  sessions' \in [Entries -> Session] /\ ReadsLastRun'
  <1>1. entry \in Entries /\ sessions \in [Entries -> Session]
        /\ last \in Entries \cup {"none"}
    BY DEF DsInv, DsTypeOK, DsDataOK, Entered
  <1>2. sessions' \in [Entries -> Session]
    BY <1>1, SessionsUpdated DEF Becomes
  <1>3. Reply' = Reply
    BY <1>1, ReplyKept
  <1> QED
    BY <1>2, <1>3 DEF DsInv, ReadsLastRun

LEMMA ExecKeeps ==
  ASSUME DsInv, NEW a \in Apps, NEW e \in Entries, Exec(a, e)
  PROVE  DsInv'
  <1>0. /\ sessions \in [Entries -> Session] /\ sessions[e] \in Session
        /\ last \in Entries \cup {"none"} /\ 0 \in Results
    BY DEF DsInv, DsTypeOK, DsDataOK, Results
  <1>1. PICK p \in BOOLEAN :
          \/ /\ a \in Recognizers
             /\ Becomes(e, [sessions[e] EXCEPT !.plt = p, !.nlsml = 0])
             /\ last' = e /\ outcome' = 0
          \/ /\ a \notin Recognizers
             /\ Becomes(e, [sessions[e] EXCEPT !.plt = p])
             /\ UNCHANGED <<last, outcome>>
    BY DEF Exec
  <1>2. PICK s \in Session :
          /\ Becomes(e, s)
          /\ s.synth = sessions[e].synth /\ s.recog = sessions[e].recog
          /\ \/ a \in Recognizers /\ s.nlsml = 0 /\ last' = e /\ outcome' = 0
             \/ /\ a \notin Recognizers /\ s.nlsml = sessions[e].nlsml
                /\ UNCHANGED <<last, outcome>>
    <2>1. CASE a \in Recognizers
      <3> DEFINE t == [sessions[e] EXCEPT !.plt = p, !.nlsml = 0]
      <3>1. t \in Session
        BY <1>0, SessionUpdates, Zenon
      <3>2. /\ t.synth = sessions[e].synth /\ t.recog = sessions[e].recog
            /\ t.nlsml = 0
        BY <1>0 DEF Session
      <3>3. Becomes(e, t)
        BY <1>1, <2>1
      <3> HIDE DEF t
      <3> QED
        BY <1>1, <2>1, <3>1, <3>2, <3>3
    <2>2. CASE a \notin Recognizers
      <3> DEFINE t == [sessions[e] EXCEPT !.plt = p]
      <3>1. t \in Session
        BY <1>0, SessionUpdates, Zenon
      <3>2. /\ t.synth = sessions[e].synth /\ t.recog = sessions[e].recog
            /\ t.nlsml = sessions[e].nlsml
        BY <1>0 DEF Session
      <3>3. Becomes(e, t)
        BY <1>1, <2>2
      <3> HIDE DEF t
      <3> QED
        BY <1>1, <2>2, <3>1, <3>2, <3>3
    <2> QED
      BY <2>1, <2>2
  <1>3. sessions' \in [Entries -> Session]
    BY <1>0, <1>2, SessionsUpdated DEF Becomes
  <1>4. DsTypeOK'
    BY <1>2, <1>3 DEF Exec, DsInv, DsTypeOK, DsDataOK, DsFlagsOK, RunStates, Results
  <1>5. Entered'
    BY <1>2 DEF Exec, DsInv, Entered, Running
  <1>6. ChannelsOwned'
    BY <1>0, <1>2, OwnedUpdated DEF Exec, DsInv, ChannelsOwned
  <1>7. ReadsLastRun'
    <2>1. CASE a \in Recognizers
      BY <1>0, <1>2, <2>1, SessionsUpdated DEF ReadsLastRun, Reply, Becomes, Exec
    <2>2. CASE a \notin Recognizers
      <3>1. \A d \in Entries : sessions'[d].nlsml = sessions[d].nlsml
        BY <1>0, <1>2, <2>2, SessionsUpdated DEF Becomes
      <3> QED
        BY <1>0, <1>2, <2>2, <3>1 DEF DsInv, Entered, ReadsLastRun, Reply, Exec
    <2> QED
      BY <2>1, <2>2
  <1> QED
    BY <1>4, <1>5, <1>6, <1>7 DEF DsInv

\* What a run knows of its entry.
LEMMA InRun ==
  ASSUME DsInv, Running
  PROVE  /\ sessions \in [Entries -> Session] /\ entry \in Entries
         /\ sessions[entry] \in Session
         /\ app \in Apps /\ store /\ runs \in Results
         /\ app \in Recognizers => last = entry
  BY DEF DsInv, DsTypeOK, DsDataOK, Entered, Results

LEMMA DeterminedTyped ==
  ASSUME DsInv, Running
  PROVE  /\ Determined \in Session
         /\ Determined.synth = sessions[entry].synth
         /\ Determined.recog = sessions[entry].recog
         /\ Determined.nlsml = sessions[entry].nlsml
  <1> DEFINE b == sessions[entry].nread \/ app \in Recognizers
             c == sessions[entry].nwrite \/ app # "MRCPRecog"
             t == [sessions[entry] EXCEPT !.nread = b, !.nwrite = c]
  <1>1. b \in BOOLEAN /\ c \in BOOLEAN
    BY InRun DEF Session
  <1>2. Determined = t
    BY DEF Determined
  <1> HIDE DEF b, c
  <1>3. t \in Session
    BY <1>1, InRun, SessionUpdates, Zenon DEF Results
  <1>4. /\ t.synth = sessions[entry].synth /\ t.recog = sessions[entry].recog
        /\ t.nlsml = sessions[entry].nlsml
    BY <1>1, InRun DEF Session
  <1> QED
    BY <1>2, <1>3, <1>4

LEMMA CreateKeeps ==
  ASSUME DsInv, CreateChannel
  PROVE  DsInv'
  <1>0. Running
    BY DEF CreateChannel, Running
  <1> DEFINE k == Own(app)
             s == IF app = "MRCPSynth" THEN [Determined EXCEPT !.synth = TRUE]
                                       ELSE [Determined EXCEPT !.recog = TRUE]
  <1>1. /\ s \in Session /\ s.nlsml = sessions[entry].nlsml
        /\ app = "MRCPSynth" => s.synth = TRUE /\ s.recog = sessions[entry].recog
        /\ app # "MRCPSynth" => s.synth = sessions[entry].synth /\ s.recog = TRUE
    BY <1>0, DeterminedTyped DEF Session
  <1>2. \/ Becomes(entry, s) /\ live' = live \cup {<<entry, k>>}
        \/ Becomes(entry, Determined) /\ UNCHANGED live
    BY DEF CreateChannel
  <1>3. /\ UNCHANGED <<store, last, app, entry, runs, outcome, blind>>
        /\ apc' \in {"formats", "exit"}
    BY DEF CreateChannel, Goto
  <1> HIDE DEF s
  <1>4. sessions' \in [Entries -> Session] /\ ReadsLastRun'
    BY <1>0, <1>1, <1>2, <1>3, EntryChanged, DeterminedTyped
  <1>5. ChannelsOwned'
    <2>1. CASE Becomes(entry, s) /\ live' = live \cup {<<entry, k>>}
      BY <2>1, <1>0, <1>1, InRun, OwnedUpdated DEF DsInv, ChannelsOwned, Own
    <2>2. CASE Becomes(entry, Determined) /\ UNCHANGED live
      BY <2>2, <1>0, DeterminedTyped, InRun, OwnedUpdated DEF DsInv, ChannelsOwned
    <2> QED
      BY <1>2, <2>1, <2>2
  <1>6. live' \subseteq Entries \X Kinds
    BY <1>0, <1>2, InRun DEF DsInv, DsTypeOK, DsDataOK, Own, Kinds
  <1>7. DsTypeOK' /\ Entered'
    BY <1>0, <1>3, <1>4, <1>6
       DEF DsInv, DsTypeOK, DsDataOK, DsFlagsOK, Entered, Running, RunStates
  <1> QED
    BY <1>4, <1>5, <1>7 DEF DsInv

\* PlayText and PlayFile: the synthesizer's channel of the entry appears or goes.
LEMMA PlayKeeps ==
  ASSUME DsInv, PlayText \/ PlayFile
  PROVE  DsInv'
  <1>0. Running
    BY DEF PlayText, PlayFile, Running
  <1> DEFINE on == [sessions[entry] EXCEPT !.synth = TRUE]
             off == [sessions[entry] EXCEPT !.synth = FALSE]
  <1>1. /\ on \in Session /\ off \in Session
        /\ on.nlsml = sessions[entry].nlsml /\ off.nlsml = sessions[entry].nlsml
        /\ on.synth = TRUE /\ on.recog = sessions[entry].recog
        /\ off.synth = FALSE /\ off.recog = sessions[entry].recog
    BY <1>0, InRun DEF Session
  <1>2. \/ Becomes(entry, on) /\ live' = live \cup {<<entry, "synth">>}
        \/ Becomes(entry, off) /\ live' = live \ {<<entry, "synth">>}
        \/ UNCHANGED <<sessions, live>>
    BY DEF PlayText, PlayFile
  <1>3. /\ UNCHANGED <<store, last, app, entry, runs, outcome>>
        /\ apc' \in {"play", "exit", "crashed"}
    BY DEF PlayText, PlayFile, Goto
  <1>4. blind' \in BOOLEAN
    BY <1>0, InRun, Zenon DEF PlayText, PlayFile, DsInv, DsTypeOK, DsFlagsOK
  <1> HIDE DEF on, off
  <1>5. sessions' \in [Entries -> Session] /\ ReadsLastRun' /\ ChannelsOwned'
    <2>1. CASE Becomes(entry, on) /\ live' = live \cup {<<entry, "synth">>}
      BY <2>1, <1>0, <1>1, <1>3, InRun, EntryChanged, OwnedUpdated DEF DsInv, ChannelsOwned
    <2>2. CASE Becomes(entry, off) /\ live' = live \ {<<entry, "synth">>}
      BY <2>2, <1>0, <1>1, <1>3, InRun, EntryChanged, OwnedUpdated DEF DsInv, ChannelsOwned
    <2>3. CASE UNCHANGED <<sessions, live>>
      BY <2>3, <1>3, NothingStored DEF DsInv, DsTypeOK, DsDataOK
    <2> QED
      BY <1>2, <2>1, <2>2, <2>3
  <1>6. live' \subseteq Entries \X Kinds
    BY <1>0, <1>2, InRun DEF DsInv, DsTypeOK, DsDataOK, Kinds
  <1>7. DsTypeOK' /\ Entered'
    BY <1>0, <1>3, <1>4, <1>5, <1>6
       DEF DsInv, DsTypeOK, DsDataOK, DsFlagsOK, Entered, Running, RunStates
  <1> QED
    BY <1>5, <1>7 DEF DsInv

\* The result stored is that of the run, in the entry the functions look at.
LEMMA FinishKeeps ==
  ASSUME DsInv, Finish
  PROVE  DsInv'
  <1>0. Running
    BY DEF Finish, Running
  <1>1. /\ UNCHANGED <<store, last, app, entry, runs, live, blind>> /\ apc' = "exit"
        /\ \/ UNCHANGED <<sessions, outcome>>
           \/ /\ app \in Recognizers /\ outcome' = runs
              /\ Becomes(entry, [sessions[entry] EXCEPT !.nlsml = runs])
    BY DEF Finish
  <1>2. CASE UNCHANGED <<sessions, outcome>>
    BY <1>0, <1>1, <1>2, NothingStored
       DEF DsInv, DsTypeOK, DsDataOK, DsFlagsOK, Entered, Running, RunStates
  <1>3. CASE /\ app \in Recognizers /\ outcome' = runs
             /\ Becomes(entry, [sessions[entry] EXCEPT !.nlsml = runs])
    <2> DEFINE s == [sessions[entry] EXCEPT !.nlsml = runs]
    <2>1. s \in Session
      BY <1>0, InRun, SessionUpdates, Zenon
    <2>2. /\ s.synth = sessions[entry].synth /\ s.recog = sessions[entry].recog
          /\ s.nlsml = runs
      BY <1>0, InRun DEF Session
    <2>3. Becomes(entry, s)
      BY <1>3
    <2> HIDE DEF s
    <2>4. sessions' \in [Entries -> Session] /\ sessions'[entry] = s
      BY <1>0, <2>1, <2>3, InRun, SessionsUpdated DEF Becomes
    <2>5. ReadsLastRun'
      BY <1>0, <1>1, <1>3, <2>2, <2>4, InRun DEF ReadsLastRun, Reply
    <2>6. ChannelsOwned'
      BY <1>0, <1>1, <2>1, <2>2, <2>3, InRun, OwnedUpdated DEF DsInv, ChannelsOwned
    <2>7. DsTypeOK' /\ Entered'
      BY <1>0, <1>1, <1>3, <2>4, InRun
         DEF DsInv, DsTypeOK, DsDataOK, DsFlagsOK, Entered, Running, RunStates
    <2> QED
      BY <2>5, <2>6, <2>7 DEF DsInv
  <1> QED
    BY <1>1, <1>2, <1>3

LEMMA DestroyKeeps ==
  ASSUME DsInv, ExitDestroys
  PROVE  DsInv'
  <1>0. Running
    BY DEF ExitDestroys, Running
  <1> DEFINE s == [sessions[entry] EXCEPT
                     !.synth = sessions[entry].synth /\ app = "MRCPRecog",
                     !.recog = sessions[entry].recog /\ app = "MRCPSynth"]
  <1>1. Becomes(entry, s)
    BY DEF ExitDestroys
  <1>2. /\ s \in Session /\ s.nlsml = sessions[entry].nlsml
        /\ s.synth = (sessions[entry].synth /\ app = "MRCPRecog")
        /\ s.recog = (sessions[entry].recog /\ app = "MRCPSynth")
        /\ sessions[entry].synth \in BOOLEAN /\ sessions[entry].recog \in BOOLEAN
    BY <1>0, InRun DEF Session
  <1>3. /\ UNCHANGED <<store, last, runs, outcome, blind>>
        /\ apc' = "idle" /\ app' = "none" /\ entry' = "none"
    BY DEF ExitDestroys, Over
  <1> HIDE DEF s
  <1>4. sessions' \in [Entries -> Session] /\ ReadsLastRun'
    BY <1>0, <1>1, <1>2, <1>3, EntryChanged
  <1>5. ChannelsOwned'
    <2>1. CASE app = "MRCPSynth"
      <3>1. live' = live \ {<<entry, "synth">>}
        BY <2>1 DEF ExitDestroys
      <3>2. s.synth = FALSE /\ s.recog = sessions[entry].recog
        BY <1>2, <2>1
      <3> QED
        BY <3>1, <3>2, <1>0, <1>1, <1>2, InRun, OwnedUpdated DEF DsInv, ChannelsOwned
    <2>2. CASE app = "MRCPRecog"
      <3>1. live' = live \ {<<entry, "recog">>}
        BY <2>2 DEF ExitDestroys
      <3>2. s.synth = sessions[entry].synth /\ s.recog = FALSE
        BY <1>2, <2>2
      <3> QED
        BY <3>1, <3>2, <1>0, <1>1, <1>2, InRun, OwnedUpdated DEF DsInv, ChannelsOwned
    <2>3. CASE app = "SynthAndRecog"
      <3>1. live' = live \ ({entry} \X Kinds)
        BY <2>3 DEF ExitDestroys
      <3>2. s.synth = FALSE /\ s.recog = FALSE
        BY <1>2, <2>3
      <3> QED
        BY <3>1, <3>2, <1>0, <1>1, <1>2, InRun, OwnedUpdated DEF DsInv, ChannelsOwned
    <2> QED
      BY <2>1, <2>2, <2>3, <1>0, InRun DEF Apps
  <1>6. DsTypeOK' /\ Entered'
    BY <1>0, <1>3, <1>4
       DEF DsInv, DsTypeOK, DsDataOK, DsFlagsOK, Entered, Running, RunStates,
           ExitDestroys
  <1> QED
    BY <1>4, <1>5, <1>6 DEF DsInv

LEMMA HangUpKeeps ==
  ASSUME DsInv, HangUp
  PROVE  DsInv'
  <1>1. DsDataOK' /\ Entered'
    BY NewSessionTyped
       DEF HangUp, DsInv, DsTypeOK, DsDataOK, Entered, Running, RunStates, Results
  <1>2. DsFlagsOK'
    BY Zenon DEF HangUp, DsInv, DsTypeOK, DsFlagsOK
  <1>3. ReadsLastRun'
    BY DEF HangUp, ReadsLastRun, Reply
  <1>4. Owned' = {}
    BY DEF HangUp, Owned, NewSession, Kinds
  <1>5. ChannelsOwned'
    BY <1>4 DEF HangUp, DsInv, ChannelsOwned
  <1> QED
    BY <1>1, <1>2, <1>3, <1>5 DEF DsInv, DsTypeOK

\* The steps that store nothing.
LEMMA OthersKeep ==
  ASSUME DsInv, ExecFails \/ ReuseChannel \/ SetFormats \/ ExitKeeps \/ Crash
  PROVE  DsInv'
  <1>1. UNCHANGED <<store, sessions, last, live, outcome>>
    BY DEF ExecFails, ReuseChannel, SetFormats, ExitKeeps, Crash, Goto
  <1>2. ReadsLastRun' /\ ChannelsOwned'
    BY <1>1, NothingStored
  <1>3. DsDataOK' /\ Entered'
    BY <1>1 DEF DsInv, DsTypeOK, DsDataOK, Entered, Running, RunStates,
       ExecFails, ReuseChannel, SetFormats, ExitKeeps, Crash, Goto, Over
  <1>4. DsFlagsOK'
    BY Zenon DEF DsInv, DsTypeOK, DsFlagsOK, ExecFails, ReuseChannel, SetFormats,
       ExitKeeps, Crash, Goto
  <1> QED
    BY <1>2, <1>3, <1>4 DEF DsInv, DsTypeOK

LEMMA DsStep == DsInv /\ [DsNext]_dsVars => DsInv'
  <1> SUFFICES ASSUME DsInv, [DsNext]_dsVars PROVE DsInv'
    OBVIOUS
  <1>1. CASE \E a \in Apps, e \in Entries : Exec(a, e)
    BY <1>1, ExecKeeps
  <1>2. CASE Creates \/ GoesOn
    BY <1>2, CreateKeeps, PlayKeeps, FinishKeeps, DestroyKeeps, OthersKeep
       DEF Creates, GoesOn
  <1>3. CASE ExecFails \/ Crash
    BY <1>3, OthersKeep
  <1>4. CASE HangUp
    BY <1>4, HangUpKeeps
  <1>5. CASE UNCHANGED dsVars
    BY <1>5 DEF dsVars, DsInv, DsTypeOK, DsDataOK, DsFlagsOK, Entered, Running,
       ReadsLastRun, Reply, ChannelsOwned, Owned
  <1> QED
    BY <1>1, <1>2, <1>3, <1>4, <1>5 DEF DsNext

\* The invariant of the datastore (app_datastore.c, and what the applications do
\* with their entries).
THEOREM DsInvariant == DsSpec => []DsInv
  BY DsInitial, DsStep, PTL DEF DsSpec

\* The functions RECOG_INPUT() and the others answer from the last run of a
\* recognizer that got past its argument checks (app_datastore_session_find),
\* whatever the entries are.
THEOREM LastRunIsRead == DsSpec => []ReadsLastRun
  <1>1. DsInv => ReadsLastRun
    BY DEF DsInv
  <1> QED
    BY <1>1, DsInvariant, PTL

\* A speech channel exists as long as an entry holds it (app_session_destroy and
\* the exits of the applications), for any number of runs and entries.
THEOREM ChannelsAreOwned == DsSpec => []ChannelsOwned
  <1>1. DsInv => ChannelsOwned
    BY DEF DsInv
  <1> QED
    BY <1>1, DsInvariant, PTL

-----------------------------------------------------------------------------
(* The runs on each entry.                                                 *)

EntryVars(e) == <<EntryAt(e), EntryUses(e), EntryLasting(e), EntryHeld(e)>>

\* Between runs no entry is in use.
Idle == apc = "idle" => entry = "none"

LEMMA DsIdle == DsSpec => []Idle
  <1>1. DsInit => Idle
    BY DEF DsInit, Idle
  <1>2. Idle /\ [DsNext]_dsVars => Idle'
    BY DEF Idle, DsNext, dsVars, ExecFails, Exec, Creates, CreateChannel, PlayText, GoesOn,
       ReuseChannel, SetFormats, PlayFile, Finish, ExitKeeps, ExitDestroys, Over, HangUp,
       Crash, Goto
  <1> QED
    BY <1>1, <1>2, PTL DEF DsSpec

\* An update of one entry is none of another's.
LEMMA EntryUpdated ==
  ASSUME sessions \in [Entries -> Session], NEW d \in Entries, NEW s \in Session,
         Becomes(d, s), NEW e \in Entries
  PROVE  /\ e # d => EntryHeld(e)' = EntryHeld(e) /\ sessions'[e] = sessions[e]
         /\ e = d => /\ EntryHeld(e)' =
                          {k \in Kinds : IF k = "synth" THEN s.synth ELSE s.recog}
                     /\ sessions'[e].plt = s.plt
  BY SessionsUpdated DEF Becomes, EntryHeld

\* A run that goes on with its entry as it was is no step of any entry.
LEMMA EntryStays ==
  ASSUME NEW e \in Entries, entry' = entry, app' = app,
         EntryHeld(e)' = EntryHeld(e), sessions'[e].plt = sessions[e].plt,
         apc \notin {"end", "crashed"}, apc' \notin {"end", "crashed"}
  PROVE  UNCHANGED EntryVars(e)
  BY DEF EntryVars, EntryAt, EntryUses, EntryLasting

\* A run that changes its entry into s keeps the lifetime and creates, or destroys,
\* channels of its own.
LEMMA RunOnEntry ==
  ASSUME DsInv, Running, NEW e \in Entries, NEW s \in Session, Becomes(entry, s),
         s.plt = sessions[entry].plt, entry' = entry, app' = app,
         apc' \notin {"end", "crashed"},
         \/ s.synth = sessions[entry].synth /\ s.recog = sessions[entry].recog
         \/ /\ "synth" \in UsedBy(app) /\ s.recog = sessions[entry].recog
            /\ \/ s.synth /\ ~sessions[entry].synth
               \/ ~s.synth /\ sessions[entry].synth /\ ~s.plt
         \/ /\ "recog" \in UsedBy(app) /\ s.synth = sessions[entry].synth
            /\ s.recog /\ ~sessions[entry].recog
  PROVE  [EntryRuns(e)!Next]_(EntryVars(e))
  <1>0. /\ sessions \in [Entries -> Session] /\ entry \in Entries
        /\ apc \notin {"end", "crashed"}
    BY InRun DEF Running
  <1>1. CASE e # entry
    BY <1>0, <1>1, EntryUpdated, EntryStays
  <1>2. CASE e = entry
    <2>1. /\ EntryHeld(e)' = {k \in Kinds : IF k = "synth" THEN s.synth ELSE s.recog}
          /\ sessions'[e].plt = sessions[e].plt
      BY <1>0, <1>2, EntryUpdated
    <2>2. CASE s.synth = sessions[entry].synth /\ s.recog = sessions[entry].recog
      BY <1>0, <1>2, <2>1, <2>2, EntryStays DEF EntryHeld
    <2>3. /\ EntryAt(e) = "run" /\ EntryAt(e)' = "run"
          /\ EntryUses(e) = UsedBy(app)
          /\ UNCHANGED <<EntryUses(e), EntryLasting(e)>>
          /\ EntryLasting(e) => s.plt
      BY <1>0, <1>2, <2>1 DEF EntryAt, EntryUses, EntryLasting
    <2>4. CASE ~(s.synth = sessions[entry].synth /\ s.recog = sessions[entry].recog)
      <3>1. PICK k \in UsedBy(app) :
              \/ k \notin EntryHeld(e) /\ EntryHeld(e)' = EntryHeld(e) \cup {k}
              \/ k \in EntryHeld(e) /\ EntryHeld(e)' = EntryHeld(e) \ {k} /\ ~s.plt
        BY <1>2, <2>1, <2>4 DEF EntryHeld, Kinds
      <3>2. EntryRuns(e)!Create \/ EntryRuns(e)!Release
        BY <2>3, <3>1 DEF EntryRuns!Create, EntryRuns!Release
      <3> QED
        BY <3>2 DEF EntryRuns!Next
    <2> QED
      BY <2>2, <2>4
  <1> QED
    BY <1>1, <1>2

LEMMA ExecOnEntry ==
  ASSUME DsInv, Idle, NEW a \in Apps, NEW d \in Entries, Exec(a, d), NEW e \in Entries
  PROVE  [EntryRuns(e)!Next]_(EntryVars(e))
  <1>0. /\ sessions \in [Entries -> Session] /\ sessions[d] \in Session
        /\ 0 \in Results
    BY DEF DsInv, DsTypeOK, DsDataOK, Results
  <1>1. PICK p \in BOOLEAN :
          \/ Becomes(d, [sessions[d] EXCEPT !.plt = p, !.nlsml = 0])
          \/ Becomes(d, [sessions[d] EXCEPT !.plt = p])
    BY DEF Exec
  <1>2. PICK s \in Session :
          Becomes(d, s) /\ s.synth = sessions[d].synth /\ s.recog = sessions[d].recog
    <2> DEFINE t == [sessions[d] EXCEPT !.plt = p, !.nlsml = 0]
               u == [sessions[d] EXCEPT !.plt = p]
    <2>1. t \in Session /\ u \in Session
      BY <1>0, SessionUpdates, Zenon
    <2>2. /\ t.synth = sessions[d].synth /\ t.recog = sessions[d].recog
          /\ u.synth = sessions[d].synth /\ u.recog = sessions[d].recog
      BY <1>0 DEF Session
    <2>3. Becomes(d, t) \/ Becomes(d, u)
      BY <1>1
    <2> HIDE DEF t, u
    <2> QED
      BY <2>1, <2>2, <2>3
  <1>3. apc = "idle" /\ entry = "none" /\ apc' = "channel" /\ entry' = d /\ app' = a
    BY DEF Exec, Idle
  <1>4. EntryHeld(e)' = EntryHeld(e)
    BY <1>0, <1>2, EntryUpdated DEF EntryHeld
  <1>5. CASE e = d
    <2>1. /\ EntryAt(e) = "idle" /\ EntryAt(e)' = "run"
          /\ EntryUses(e)' \in {{"synth"}, {"recog"}, Kinds}
      BY <1>3, <1>5 DEF EntryAt, EntryUses, UsedBy
    <2>2. EntryLasting(e)' \in BOOLEAN
      BY Zenon DEF EntryLasting
    <2>3. EntryRuns(e)!Begin
      BY <1>4, <2>1, <2>2 DEF EntryRuns!Begin
    <2> QED
      BY <2>3 DEF EntryRuns!Next
  <1>6. CASE e # d
    <2>1. UNCHANGED <<EntryAt(e), EntryUses(e)>>
      BY <1>3, <1>6 DEF EntryAt, EntryUses
    <2>2. EntryLasting(e) = FALSE /\ EntryLasting(e)' = FALSE
      BY <1>3, <1>6 DEF EntryLasting
    <2> QED
      BY <1>4, <2>1, <2>2 DEF EntryVars
  <1> QED
    BY <1>5, <1>6

LEMMA PlayOnEntry ==
  ASSUME DsInv, CreateChannel \/ PlayText \/ PlayFile, apc' # "crashed", NEW e \in Entries
  PROVE  [EntryRuns(e)!Next]_(EntryVars(e))
  <1>0. Running /\ app \in Apps /\ sessions[entry] \in Session
    <2>1. Running
      BY DEF CreateChannel, PlayText, PlayFile, Running
    <2> QED
      BY <2>1, InRun
  <1>1. entry' = entry /\ app' = app /\ apc' \notin {"end", "crashed"}
    BY DEF CreateChannel, PlayText, PlayFile, Goto
  <1>2. CASE CreateChannel
    <2> DEFINE s == [Determined EXCEPT !.synth = TRUE]
               r == [Determined EXCEPT !.recog = TRUE]
    <2>0. /\ Determined \in Session
          /\ Determined.synth = sessions[entry].synth
          /\ Determined.recog = sessions[entry].recog
          /\ Determined.plt = sessions[entry].plt
      <3>1. Determined.plt = sessions[entry].plt
        BY <1>0 DEF Determined, Session
      <3> QED
        BY <3>1, <1>0, DeterminedTyped
    <2>1. /\ s \in Session /\ s.synth /\ s.recog = sessions[entry].recog
          /\ s.plt = sessions[entry].plt
          /\ r \in Session /\ r.recog /\ r.synth = sessions[entry].synth
          /\ r.plt = sessions[entry].plt
      BY <2>0 DEF Session
    <2>2. \/ app = "MRCPSynth" /\ Becomes(entry, s) /\ ~sessions[entry].synth
          \/ app # "MRCPSynth" /\ Becomes(entry, r) /\ ~sessions[entry].recog
          \/ Becomes(entry, Determined)
      BY <1>2 DEF CreateChannel, Holds, Own
    <2>3. /\ app = "MRCPSynth" => "synth" \in UsedBy(app)
          /\ app # "MRCPSynth" => "recog" \in UsedBy(app)
      BY <1>0 DEF UsedBy, Apps, Kinds
    <2> HIDE DEF s, r
    <2>4. CASE app = "MRCPSynth" /\ Becomes(entry, s) /\ ~sessions[entry].synth
      BY <2>4, <2>1, <2>3, <1>0, <1>1, RunOnEntry
    <2>5. CASE app # "MRCPSynth" /\ Becomes(entry, r) /\ ~sessions[entry].recog
      BY <2>5, <2>1, <2>3, <1>0, <1>1, RunOnEntry
    <2>6. CASE Becomes(entry, Determined)
      BY <2>6, <2>0, <1>0, <1>1, RunOnEntry
    <2> QED
      BY <2>2, <2>4, <2>5, <2>6
  <1>3. CASE PlayText \/ PlayFile
    <2> DEFINE on == [sessions[entry] EXCEPT !.synth = TRUE]
               off == [sessions[entry] EXCEPT !.synth = FALSE]
    <2>1. /\ on \in Session /\ on.synth /\ on.recog = sessions[entry].recog
          /\ on.plt = sessions[entry].plt
          /\ off \in Session /\ ~off.synth /\ off.recog = sessions[entry].recog
          /\ off.plt = sessions[entry].plt
      BY <1>0 DEF Session
    <2>2. /\ "synth" \in UsedBy(app)
          /\ \/ Becomes(entry, on) /\ ~sessions[entry].synth
             \/ Becomes(entry, off) /\ sessions[entry].synth /\ ~sessions[entry].plt
             \/ sessions' = sessions
      BY <1>3 DEF PlayText, PlayFile, UsedBy, Kinds
    <2> HIDE DEF on, off
    <2>3. CASE sessions' = sessions
      BY <2>3, <1>0, <1>1, EntryStays DEF EntryHeld, Running
    <2>4. CASE Becomes(entry, on) /\ ~sessions[entry].synth
      BY <2>4, <2>1, <2>2, <1>0, <1>1, RunOnEntry
    <2>5. CASE Becomes(entry, off) /\ sessions[entry].synth /\ ~sessions[entry].plt
      BY <2>5, <2>1, <2>2, <1>0, <1>1, RunOnEntry
    <2> QED
      BY <2>2, <2>3, <2>4, <2>5
  <1> QED
    BY <1>2, <1>3

LEMMA FinishOnEntry ==
  ASSUME DsInv, Finish, NEW e \in Entries
  PROVE  [EntryRuns(e)!Next]_(EntryVars(e))
  <1>0. Running /\ apc' = "exit" /\ entry' = entry /\ app' = app
    BY DEF Finish, Running
  <1> DEFINE s == [sessions[entry] EXCEPT !.nlsml = runs]
  <1>1. /\ s \in Session /\ s.plt = sessions[entry].plt
        /\ s.synth = sessions[entry].synth /\ s.recog = sessions[entry].recog
    BY <1>0, InRun DEF Session
  <1>2. sessions' = sessions \/ Becomes(entry, s)
    BY DEF Finish
  <1> HIDE DEF s
  <1>3. CASE sessions' = sessions
    BY <1>3, <1>0, EntryStays DEF EntryHeld, Running
  <1>4. CASE Becomes(entry, s)
    BY <1>4, <1>1, <1>0, RunOnEntry
  <1> QED
    BY <1>2, <1>3, <1>4

\* The end of a run: a persistent one keeps what the entry holds, another the
\* channels of other applications.
LEMMA ExitOnEntry ==
  ASSUME DsInv, ExitKeeps \/ ExitDestroys, NEW e \in Entries
  PROVE  [EntryRuns(e)!Next]_(EntryVars(e))
  <1>0. /\ Running /\ apc' = "idle" /\ entry' = "none"
        /\ apc \notin {"end", "crashed"}
    BY DEF ExitKeeps, ExitDestroys, Over, Running
  <1>1. /\ sessions \in [Entries -> Session] /\ entry \in Entries
        /\ sessions[entry] \in Session /\ app \in Apps
    BY <1>0, InRun
  <1>2. /\ EntryAt(e)' = "idle" /\ EntryUses(e)' = {} /\ EntryLasting(e)' = FALSE
        /\ EntryAt(e) = IF e = entry THEN "run" ELSE "idle"
        /\ EntryUses(e) = IF e = entry THEN UsedBy(app) ELSE {}
    BY <1>0 DEF EntryAt, EntryUses, EntryLasting
  <1>3. EntryLasting(e) = (e = entry /\ sessions[e].plt)
    BY DEF EntryLasting
  <1>4. EntryHeld(e)' = IF e = entry /\ ~sessions[entry].plt
                        THEN EntryHeld(e) \ UsedBy(app) ELSE EntryHeld(e)
    <2>1. CASE ExitKeeps
      BY <2>1 DEF ExitKeeps, EntryHeld
    <2>2. CASE ExitDestroys
      <3> DEFINE s == [sessions[entry] EXCEPT
                         !.synth = sessions[entry].synth /\ app = "MRCPRecog",
                         !.recog = sessions[entry].recog /\ app = "MRCPSynth"]
      <3>1. Becomes(entry, s) /\ ~sessions[entry].plt
        BY <2>2 DEF ExitDestroys
      <3>2. /\ s \in Session
            /\ s.synth = (sessions[entry].synth /\ app = "MRCPRecog")
            /\ s.recog = (sessions[entry].recog /\ app = "MRCPSynth")
        BY <1>1 DEF Session
      <3> HIDE DEF s
      <3>3. CASE e # entry
        BY <3>1, <3>2, <3>3, <1>1, EntryUpdated
      <3>4. CASE e = entry
        <4>1. EntryHeld(e)' = {k \in Kinds : IF k = "synth" THEN s.synth ELSE s.recog}
          BY <3>1, <3>2, <3>4, <1>1, EntryUpdated
        <4>2. /\ "synth" \in UsedBy(app) <=> app # "MRCPRecog"
              /\ "recog" \in UsedBy(app) <=> app # "MRCPSynth"
          BY <1>1 DEF UsedBy, Apps, Kinds
        <4> QED
          BY <3>1, <3>2, <3>4, <4>1, <4>2 DEF EntryHeld, Kinds
      <3> QED
        BY <3>3, <3>4
    <2> QED
      BY <2>1, <2>2
  <1>5. CASE e = entry
    <2>1. EntryRuns(e)!Finish
      BY <1>2, <1>3, <1>4, <1>5 DEF EntryRuns!Finish
    <2> QED
      BY <2>1 DEF EntryRuns!Next
  <1>6. CASE e # entry
    <2>1. EntryLasting(e) = FALSE
      BY <1>6 DEF EntryLasting
    <2> QED
      BY <1>2, <1>4, <1>6, <2>1 DEF EntryVars
  <1> QED
    BY <1>5, <1>6

LEMMA OthersOnEntry ==
  ASSUME DsInv, Idle, NEW e \in Entries,
         \/ ExecFails \/ ReuseChannel \/ SetFormats \/ HangUp \/ Crash
         \/ UNCHANGED dsVars
         \/ (PlayText /\ apc' = "crashed")
  PROVE  [EntryRuns(e)!Next]_(EntryVars(e))
  <1>1. CASE ExecFails \/ ReuseChannel \/ (SetFormats /\ apc' # "crashed")
    BY <1>1, EntryStays DEF ExecFails, ReuseChannel, SetFormats, Goto, EntryHeld
  <1>2. CASE UNCHANGED dsVars
    BY <1>2 DEF dsVars, EntryVars, EntryAt, EntryUses, EntryLasting, EntryHeld
  <1>3. CASE HangUp
    <2>1. EntryHeld(e)' = {}
      BY <1>3 DEF HangUp, EntryHeld, NewSession, Kinds
    <2>2. /\ EntryAt(e) = "idle" /\ EntryAt(e)' = "end"
          /\ EntryUses(e) = {} /\ EntryUses(e)' = {}
      BY <1>3 DEF HangUp, Idle, EntryAt, EntryUses
    <2>3. EntryLasting(e) = FALSE /\ EntryLasting(e)' = FALSE
      BY <1>3 DEF HangUp, Idle, EntryLasting
    <2>4. EntryRuns(e)!HangUp
      BY <2>1, <2>2, <2>3 DEF EntryRuns!HangUp
    <2> QED
      BY <2>4 DEF EntryRuns!Next
  <1>4. CASE Crash \/ ((SetFormats \/ PlayText) /\ apc' = "crashed")
    <2>1. /\ UNCHANGED <<entry, app, sessions>> /\ apc' = "crashed"
          /\ apc \notin {"end", "crashed"}
      BY <1>4 DEF Crash, SetFormats, PlayText, Goto
    <2>2. /\ EntryAt(e) \in {"idle", "run"} /\ EntryAt(e)' = "crashed"
          /\ UNCHANGED <<EntryUses(e), EntryLasting(e), EntryHeld(e)>>
      BY <2>1 DEF EntryAt, EntryUses, EntryLasting, EntryHeld
    <2>3. EntryRuns(e)!Crash
      BY <2>2 DEF EntryRuns!Crash
    <2> QED
      BY <2>3 DEF EntryRuns!Next
  <1> QED
    BY <1>1, <1>2, <1>3, <1>4

\* However the applications share the entries, and whatever the lifetimes, the
\* runs on each entry follow RunContract, the contract that MRCPSynth, MRCPRecog
\* and SynthAndRecog each keep on theirs (app_datastore.c).
THEOREM EntriesKeepContract ==
  ASSUME NEW e \in Entries
  PROVE  DsSpec => EntryRuns(e)!Spec
  <1>1. DsInit => EntryRuns(e)!Init
    BY DEF DsInit, EntryRuns!Init, EntryAt, EntryUses, EntryLasting, EntryHeld,
       NewSession, Kinds
  <1>2. DsInv /\ Idle /\ [DsNext]_dsVars => [EntryRuns(e)!Next]_(EntryVars(e))
    <2> SUFFICES ASSUME DsInv, Idle, [DsNext]_dsVars
                 PROVE  [EntryRuns(e)!Next]_(EntryVars(e))
      OBVIOUS
    <2>1. CASE \E a \in Apps, d \in Entries : Exec(a, d)
      BY <2>1, ExecOnEntry
    <2>2. CASE (Creates \/ PlayFile) /\ apc' # "crashed"
      BY <2>2, PlayOnEntry DEF Creates
    <2>3. CASE (Creates \/ PlayFile) /\ apc' = "crashed"
      BY <2>3, OthersOnEntry DEF Creates, CreateChannel, PlayFile, Goto
    <2>4. CASE ExecFails \/ ReuseChannel \/ SetFormats \/ HangUp \/ Crash
               \/ UNCHANGED dsVars
      BY <2>4, OthersOnEntry
    <2>5. CASE Finish \/ ExitKeeps \/ ExitDestroys
      BY <2>5, FinishOnEntry, ExitOnEntry
    <2> QED
      BY <2>1, <2>2, <2>3, <2>4, <2>5 DEF DsNext, Creates, GoesOn
  <1> QED
    BY <1>1, <1>2, DsInvariant, DsIdle, PTL DEF DsSpec, EntryRuns!Spec, EntryVars

-----------------------------------------------------------------------------
(* The module, and the caller in it.                                       *)

Before == {"out", "config", "client", "apps"}
Served == {"register", "in", "failed", "unregister"}

\* What holds at each stage of load_module and unload_module.
Stages ==
  /\ mpc \in Before => hash = {}
  /\ mpc \notin Served => registered = {}
  /\ mpc \notin {"in", "failed", "unregister"} => ~functions
  /\ mpc = "out" => client = "none" /\ ~glob /\ ~apr
  /\ mpc # "out" => glob
  /\ mpc \in Served \cup {"unlink", "shutdown"} => client = "started"
  /\ mpc \in Served \cup {"start"} => hash \subseteq linked
  /\ registered \subseteq hash /\ toRegister \subseteq hash
  /\ mpc # "register" => toRegister = {}
  /\ mpc = "in" => functions /\ registered = hash
  /\ mpc = "shutdown" => linked = {}

\* What is linked and what was refused, as long as no load was declined with
\* applications linked.
Linked ==
  ~declined =>
    /\ mpc \in Before => linked = {}
    /\ mpc \in Served \cup {"start", "unlink"} => linked = hash /\ refused = Apps \ hash

ModInv == ModDataOK /\ ModFlagsOK /\ Stages /\ Linked

LEMMA ModInitial == Init => ModInv
  <1> SUFFICES ASSUME Init PROVE ModInv
    OBVIOUS
  <1>1. ModDataOK /\ Stages /\ Linked
    BY DEF Init, ModDataOK, ModStates, Stages, Linked, Before, Served
  <1>2. ModFlagsOK
    BY Zenon DEF Init, ModFlagsOK
  <1> QED
    BY <1>1, <1>2 DEF ModInv

LEMMA LoadKeeps ==
  ASSUME ModInv, Load
  PROVE  ModDataOK' /\ Stages' /\ Linked'
  <1> USE DEF ModInv, ModDataOK, ModStates, Stages, Linked, Before, Served, Moves,
              hostVars, appVars, regVars, pastVars
  <1>1. ASSUME NEW a \in {"config", "client", "start"}, Declines(a)
        PROVE  ModDataOK' /\ Stages' /\ Linked'
    BY <1>1 DEF Declines
  <1>2. CASE LoadGlobals
    BY <1>2 DEF LoadGlobals
  <1>3. CASE LoadConfig
    BY <1>1, <1>3 DEF LoadConfig
  <1>4. CASE CreateClient
    BY <1>1, <1>4 DEF CreateClient
  <1>5. CASE LoadApps
    BY <1>5 DEF LoadApps
  <1>6. CASE StartClient
    BY <1>1, <1>6 DEF StartClient
  <1>7. ASSUME NEW a \in Apps, RegisterApp(a)
        PROVE  ModDataOK' /\ Stages' /\ Linked'
    BY <1>7 DEF RegisterApp
  <1>8. CASE RegisterFunctions
    BY <1>8 DEF RegisterFunctions
  <1> QED
    BY <1>2, <1>3, <1>4, <1>5, <1>6, <1>7, <1>8 DEF Load

LEMMA LeaveKeeps ==
  ASSUME ModInv, Leave
  PROVE  ModDataOK' /\ Stages' /\ Linked'
  <1> USE DEF ModInv, ModDataOK, ModStates, Stages, Linked, Before, Served, Moves,
              hostVars, appVars, regVars, pastVars
  <1>1. CASE Unload
    BY <1>1 DEF Unload
  <1>2. ASSUME NEW a \in Apps, UnregisterApp(a)
        PROVE  ModDataOK' /\ Stages' /\ Linked'
    BY <1>2 DEF UnregisterApp
  <1>3. CASE UnregisterFunctions
    BY <1>3 DEF UnregisterFunctions
  <1>4. CASE UnloadApps
    BY <1>4 DEF UnloadApps
  <1>5. CASE Shutdown
    BY <1>5 DEF Shutdown
  <1> QED
    BY <1>1, <1>2, <1>3, <1>4, <1>5 DEF Leave

LEMMA FlagsKept == ModFlagsOK /\ DsFlagsOK /\ [Next]_vars => ModFlagsOK'
  <1> SUFFICES ASSUME ModFlagsOK, DsFlagsOK, [Next]_vars PROVE ModFlagsOK'
    OBVIOUS
  <1> USE DEF ModFlagsOK, hostVars, appVars, regVars, pastVars
  <1>1. CASE Load
    BY <1>1, Zenon DEF Load, LoadGlobals, LoadConfig, CreateClient, LoadApps,
       StartClient, RegisterApp, RegisterFunctions, Declines
  <1>2. CASE Leave
    BY <1>2, Zenon DEF Leave, Unload, UnregisterApp, UnregisterFunctions, UnloadApps,
       Shutdown, DsFlagsOK
  <1>3. CASE Call \/ CallMeetsUnload \/ UNCHANGED vars
    BY <1>3, Zenon DEF Call, CallMeetsUnload, vars, modVars
  <1> QED
    BY <1>1, <1>2, <1>3 DEF Next

LEMMA ModStep == ModInv /\ DsFlagsOK /\ [Next]_vars => ModInv'
  <1> SUFFICES ASSUME ModInv, DsFlagsOK, [Next]_vars PROVE ModInv'
    OBVIOUS
  <1>1. ModFlagsOK'
    BY FlagsKept DEF ModInv
  <1>2. CASE Call \/ CallMeetsUnload \/ UNCHANGED vars
    <2>1. UNCHANGED modVars
      BY <1>2 DEF Call, CallMeetsUnload, vars
    <2> QED
      BY <2>1, <1>1 DEF ModInv, ModDataOK, Stages, Linked, modVars,
         hostVars, appVars, regVars, pastVars
  <1> QED
    BY <1>1, <1>2, LoadKeeps, LeaveKeeps DEF Next, ModInv

\* Every step of the composition is one of the caller, or not the caller's.
LEMMA CallerSteps == ModInv /\ [Next]_vars => [DsNext]_dsVars
  <1> SUFFICES ASSUME ModInv, [Next]_vars PROVE [DsNext]_dsVars
    OBVIOUS
  <1>1. CASE Load
    BY <1>1 DEF Load, LoadGlobals, LoadConfig, CreateClient, LoadApps, StartClient,
       RegisterApp, RegisterFunctions, Declines, Moves
  <1>2. CASE Leave
    BY <1>2 DEF Leave, Unload, UnregisterApp, UnregisterFunctions, UnloadApps,
       Shutdown, Moves
  <1>3. CASE Call
    <2>1. registered \subseteq Apps
      BY DEF ModInv, ModDataOK
    <2> QED
      BY <1>3, <2>1 DEF Call, DsNext
  <1>4. CASE CallMeetsUnload
    BY <1>4 DEF CallMeetsUnload, DsNext
  <1>5. CASE UNCHANGED vars
    BY <1>5 DEF vars
  <1> QED
    BY <1>1, <1>2, <1>3, <1>4, <1>5 DEF Next

LEMMA Invariants == Spec => [](DsInv /\ ModInv)
  <1>1. DsInv /\ ModInv /\ [Next]_vars => (DsInv /\ ModInv)'
    BY CallerSteps, DsStep, ModStep DEF DsInv, DsTypeOK
  <1>2. Init => DsInv /\ ModInv
    BY DsInitial, ModInitial DEF Init
  <1> QED
    BY <1>1, <1>2, PTL DEF Spec

\* The caller of a module that is being loaded and unloaded is a caller of
\* AppDatastore: what is proved of DsSpec holds of it.
THEOREM CallerImplemented == Spec => DsSpec
  <1>1. Init => DsInit
    BY DEF Init
  <1> QED
    BY <1>1, Invariants, CallerSteps, PTL DEF Spec, DsSpec

\* Every variable has a value of its kind (ModTypeOK).
THEOREM ModTypeCorrect == Spec => []ModTypeOK
  <1>1. DsInv /\ ModInv => ModTypeOK
    BY DEF DsInv, ModInv, ModTypeOK
  <1> QED
    BY <1>1, Invariants, PTL

\* Asterisk can call an application only while it is served (load_module and
\* unload_module, through every failure half-way).
THEOREM CallsAreServed == Spec => []RegisteredIsServed
  <1>1. ModInv => RegisteredIsServed
    BY DEF ModInv, Stages, Served, RegisteredIsServed
  <1> QED
    BY <1>1, Invariants, PTL

\* A load that succeeds registered all the client took, and a module that is out
\* left nothing (load_module, unload_module).
THEOREM LoadsAreComplete == Spec => []LoadIsAllOrNothing
  <1>1. ModInv => LoadIsAllOrNothing
    BY DEF ModInv, ModDataOK, Stages, Linked, Before, Served, LoadIsAllOrNothing
  <1> QED
    BY <1>1, Invariants, PTL

\* So the dialplan functions answer from the last run of a recognizer that got past
\* its argument checks through every load and unload of the module too ...
THEOREM ModuleReadsLastRun == Spec => []ReadsLastRun
  BY CallerImplemented, LastRunIsRead

\* ... and every channel that exists is held by an entry.
THEOREM ModuleOwnsChannels == Spec => []ChannelsOwned
  BY CallerImplemented, ChannelsAreOwned
=============================================================================
