---------------------------- MODULE MCPlanBilling ----------------------------
(***************************************************************************)
(* Instances of PlanBilling for TLC: all ids are interchangeable.          *)
(***************************************************************************)
EXTENDS PlanBilling, TLC

Symmetry == Permutations(Subs) \cup Permutations(Pays) \cup Permutations(Handlers)
=============================================================================
