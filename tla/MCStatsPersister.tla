--------------------------- MODULE MCStatsPersister ---------------------------
(***************************************************************************)
(* Model-checking instance of StatsPersister.                              *)
(***************************************************************************)
EXTENDS StatsPersister, TLC

Symmetry == Permutations(Keys)
=============================================================================
