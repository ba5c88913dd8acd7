--------------------------- MODULE MCPushDelivery ---------------------------
(* Small instances of PushDelivery.  A tick is 45 seconds; the times of the *)
(* code are rounded and the longest shortened, in an order that keeps each  *)
(* comparison possible both ways.                                           *)
EXTENDS PushDelivery, TLC

Both == {Targets}
OneEach == {{t} : t \in Targets}
Symmetry == Permutations(Workers) \cup Permutations(Targets)
BackoffInTicks == <<1, 3, 3>>
=============================================================================
