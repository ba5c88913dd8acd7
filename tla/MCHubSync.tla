----------------------------- MODULE MCHubSync ------------------------------
(***************************************************************************)
(* Instances of HubSync for TLC: session ids and requests are              *)
(* interchangeable, so the safety runs use their permutations.             *)
(***************************************************************************)
EXTENDS HubSync, TLC

Symmetry == Permutations(Locals) \cup Permutations(Clouds) \cup Permutations(Handlers)
=============================================================================
