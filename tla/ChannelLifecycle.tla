-------------------------- MODULE ChannelLifecycle --------------------------
(***************************************************************************)
(* What the owner of a speech channel is promised: the MRCP session behind *)
(* it goes from opening to live to closing and is closed before the        *)
(* channel is released or opened again.                                    *)
(***************************************************************************)
VARIABLE phase

Phases == {"absent", "closed", "opening", "live", "closing"}

Move(from, to) == phase = from /\ phase' = to

Init == phase = "absent"

Next ==
  \/ Move("absent", "closed")    \* create
  \/ Move("closed", "opening")   \* open
  \/ Move("opening", "live")     \* the server's answer, good or bad
  \/ Move("live", "closing")     \* terminate
  \/ Move("closing", "closed")   \* the terminated session is destroyed
  \/ Move("closed", "absent")    \* destroy

Spec == Init /\ [][Next]_phase
=============================================================================
