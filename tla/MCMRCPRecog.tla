----------------------------- MODULE MCMRCPRecog -----------------------------
(* Small instances of MRCPRecog for TLC. *)
EXTENDS MRCPRecog
=============================================================================
