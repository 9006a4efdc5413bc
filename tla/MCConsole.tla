------------------------------ MODULE MCConsole ------------------------------
(***************************************************************************)
(* Model-checking instance of Console.                                     *)
(***************************************************************************)
EXTENDS Console, TLC

Symmetry == Permutations(Ids) \cup Permutations(Names) \cup Permutations(Keys)
=============================================================================
