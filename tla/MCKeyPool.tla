------------------------------ MODULE MCKeyPool ------------------------------
(***************************************************************************)
(* Model-checking instance of KeyPool.                                     *)
(***************************************************************************)
EXTENDS KeyPool, TLC

Symmetry == Permutations(Keys) \cup Permutations(Requests)
=============================================================================
