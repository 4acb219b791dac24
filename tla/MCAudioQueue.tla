---------------------------- MODULE MCAudioQueue ----------------------------
(* A small instance of AudioQueue for TLC. *)
EXTENDS AudioQueue
=============================================================================
