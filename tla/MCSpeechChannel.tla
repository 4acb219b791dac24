-------------------------- MODULE MCSpeechChannel --------------------------
(* Small instances of SpeechChannel for TLC. *)
EXTENDS SpeechChannel
=============================================================================
