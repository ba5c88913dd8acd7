---------------------------- MODULE MCTableBill -----------------------------
(***************************************************************************)
(* Instances of TableBill for TLC: all ids are interchangeable.            *)
(***************************************************************************)
EXTENDS TableBill, TLC

Symmetry ==
    Permutations(Sessions) \cup Permutations(Tables) \cup Permutations(Lines)
        \cup Permutations(Payments) \cup Permutations(Handlers)
=============================================================================
