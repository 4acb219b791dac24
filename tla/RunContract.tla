---------------------------- MODULE RunContract ----------------------------
(***************************************************************************)
(* What the dialplan and the datastore rely on for one entry: the runs of  *)
(* the applications on it come one after another, each has the speech      *)
(* channels of its application created in the entry, and leaves them there *)
(* only if it is persistent; the end of the caller's channel leaves none.  *)
(* The three applications keep it for the entry they are given, and the    *)
(* datastore for each of its entries.                                      *)
(***************************************************************************)
CONSTANT Uses  \* the kinds of speech channel each application uses

VARIABLES
  at,       \* what happens on the entry
  uses,     \* the kinds of the application that runs
  lasting,  \* it runs with a persistent lifetime
  held      \* the kinds of which the entry holds a channel

Init == at = "idle" /\ uses = {} /\ lasting = FALSE /\ held = {}

Begin ==
  /\ at = "idle" /\ at' = "run"
  /\ uses' \in Uses /\ lasting' \in BOOLEAN
  /\ UNCHANGED held

Create ==
  /\ at = "run" /\ \E k \in uses \ held : held' = held \cup {k}
  /\ UNCHANGED <<at, uses, lasting>>

\* speech_channel_destroy, of a channel a dynamic run is done with.
Release ==
  /\ at = "run" /\ ~lasting
  /\ \E k \in uses \cap held : held' = held \ {k}
  /\ UNCHANGED <<at, uses, lasting>>

Finish ==
  /\ at = "run" /\ at' = "idle" /\ uses' = {} /\ lasting' = FALSE
  /\ held' = IF lasting THEN held ELSE held \ uses

\* The destruction of the channels one by one, or all at once.
HangUp ==
  /\ at = "idle" /\ at' \in {"hangup", "end"}
  /\ held' \subseteq held /\ (at' = "end" => held' = {})
  /\ UNCHANGED <<uses, lasting>>

Destroy ==
  /\ at = "hangup" /\ \E k \in held : held' = held \ {k}
  /\ UNCHANGED <<at, uses, lasting>>

Ended ==
  /\ at = "hangup" /\ at' = "end" /\ held' = {}
  /\ UNCHANGED <<uses, lasting>>

Crash ==
  /\ at \in {"idle", "run", "hangup"} /\ at' = "crashed"
  /\ UNCHANGED <<uses, lasting, held>>

Next ==
  Begin \/ Create \/ Release \/ Finish \/ HangUp \/ Destroy \/ Ended \/ Crash

Spec == Init /\ [][Next]_<<at, uses, lasting, held>>
=============================================================================
