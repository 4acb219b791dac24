---------------------------- MODULE MCMRCPSynth ----------------------------
(* Small instances of MRCPSynth for TLC. *)
EXTENDS MRCPSynth
=============================================================================
