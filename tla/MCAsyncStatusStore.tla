-------------------------- MODULE MCAsyncStatusStore --------------------------
(***************************************************************************)
(* Model-checking instance of AsyncStatusStore.                            *)
(***************************************************************************)
EXTENDS AsyncStatusStore, TLC

Symmetry == Permutations(Keys)
=============================================================================
