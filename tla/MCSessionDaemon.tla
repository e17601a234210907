--------------------------- MODULE MCSessionDaemon ---------------------------
(* Small instances of SessionDaemon; the constants are set in the           *)
(* configurations.                                                          *)
EXTENDS SessionDaemon
==============================================================================
