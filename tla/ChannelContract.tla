-------------------------- MODULE ChannelContract --------------------------
(***************************************************************************)
(* What an application that has several speech channels relies on for each *)
(* of them: a channel leaves CLOSED only by being opened, and is released  *)
(* only in CLOSED, so that a state other than CLOSED always belongs to a   *)
(* channel that still exists.                                              *)
(***************************************************************************)
VARIABLES
  exists,  \* the application holds the channel
  state    \* its state

States == {"CLOSED", "READY", "PROCESSING", "ERROR"}

Init == ~exists /\ state = "CLOSED"

Create == ~exists /\ exists' /\ state' = "CLOSED"

\* The channel-add was answered.
Open == state = "CLOSED" /\ state' \in {"READY", "ERROR"}

\* A request, an answer, an event, or the end of the session.
Change == state # "CLOSED" /\ state' \in States

Release == state = "CLOSED" /\ ~exists' /\ UNCHANGED state

Next == Create \/ (exists /\ (Release \/ (exists' /\ (Open \/ Change))))

Spec == Init /\ [][Next]_<<exists, state>>
=============================================================================
