--------------------------- MODULE MCCoordination ---------------------------
(* Small instances of Coordination; the constants are set in the            *)
(* configurations.                                                          *)
EXTENDS Coordination
=============================================================================
