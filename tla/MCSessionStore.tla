--------------------------- MODULE MCSessionStore ---------------------------
(* Small instance of SessionStore: interchangeable runtimes.                *)
EXTENDS SessionStore, TLC

RuntimeSymmetry == Permutations(Runtimes)
=============================================================================
