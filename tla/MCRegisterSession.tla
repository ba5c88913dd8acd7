------------------------- MODULE MCRegisterSession --------------------------
(***************************************************************************)
(* Instances of RegisterSession for TLC: ids of a kind are interchangeable.*)
(***************************************************************************)
EXTENDS RegisterSession, TLC

Symmetry ==
    Permutations(Sessions) \cup Permutations(Orders) \cup Permutations(Txs \ Orders)
        \cup Permutations(Closings) \cup Permutations(Handlers)
=============================================================================
