---------------------------- MODULE MCSelection ----------------------------
(***************************************************************************)
(* Model-checking instance of Selection.                                   *)
(***************************************************************************)
EXTENDS Selection

MCSize == [p \in Pickers |-> IF p = "performance" THEN 2 ELSE 4]
MCWeight == <<3, 1, 2, 1>>
MCPriority == <<1, 1, 1, 2>>
=============================================================================
