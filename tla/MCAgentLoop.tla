----------------------------- MODULE MCAgentLoop -----------------------------
(* The agent loop with small budgets, for TLC.                              *)
EXTENDS AgentLoop
=============================================================================
