---------------------------- MODULE MCUniSpeech ----------------------------
(* Small instances of UniSpeech for TLC. *)
EXTENDS UniSpeech
=============================================================================
