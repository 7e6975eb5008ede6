--------------------------- MODULE MCPlanLibrary ---------------------------
(* Two calls at a time, each any sequence of operations, on two plans. *)
EXTENDS PlanLibrary, TLC

Symmetric == Permutations(Plans) \cup Permutations(Calls)
=============================================================================
