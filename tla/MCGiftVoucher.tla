--------------------------- MODULE MCGiftVoucher ----------------------------
(***************************************************************************)
(* Instances of GiftVoucher for TLC: all ids are interchangeable.          *)
(***************************************************************************)
EXTENDS GiftVoucher, TLC

Symmetry ==
    Permutations(Vouchers) \cup Permutations(Payments) \cup Permutations(Handlers)
=============================================================================
