--------------------------- MODULE MCTurnControl ---------------------------
(* A small instance of TurnControl; the actors are model values set in the  *)
(* configuration.                                                           *)
EXTENDS TurnControl
=============================================================================
