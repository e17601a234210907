---------------------------- MODULE MCDurability ----------------------------
(* Small instances of Durability; the constants are set in the              *)
(* configurations.                                                          *)
EXTENDS Durability
=============================================================================
