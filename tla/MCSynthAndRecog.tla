-------------------------- MODULE MCSynthAndRecog --------------------------
(* Small instances of SynthAndRecog for TLC. *)
EXTENDS SynthAndRecog
=============================================================================
