---------------------------- MODULE MCEventStream ----------------------------
(* Small instances of EventStream; the constants are set in the             *)
(* configurations.                                                          *)
EXTENDS EventStream
=============================================================================
