----------------------------- MODULE MCKeyHealth -----------------------------
(***************************************************************************)
(* Model-checking instance of KeyHealth.                                   *)
(***************************************************************************)
EXTENDS KeyHealth, TLC

Symmetry == Permutations(Keys) \cup Permutations(Requests)
=============================================================================
