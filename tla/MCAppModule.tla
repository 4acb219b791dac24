---------------------------- MODULE MCAppModule ----------------------------
(* Small instances of AppModule for TLC: the default entry and a named one. *)
EXTENDS AppModule
=============================================================================
