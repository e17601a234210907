-------------------------- MODULE MCApprovalBroker --------------------------
(* Small instances of ApprovalBroker; the constants are set in the          *)
(* configurations.                                                          *)
EXTENDS ApprovalBroker
=============================================================================
