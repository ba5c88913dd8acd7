----------------------------- MODULE TableBill ------------------------------
(***************************************************************************)
(* A bill with both servers on it: Nest for the waiters' devices and the   *)
(* web POS, over the same tables.                                          *)
(***************************************************************************)
EXTENDS NestFloor, WebSettlement, FiniteSets

Init == TablesInit

\* What both servers do the same way.
SharedStep(h) ==
    \/ InsertSession(h) \/ UpdateClosed(h)
    \/ InsertOrder(h) \/ InsertLines(h) \/ DeleteOrder(h)
    \/ Vanish(h)

Next == \E h \in Handlers : SharedStep(h) \/ NestStep(h) \/ WebStep(h)

Spec == Init /\ [][Next]_tableVars

TypeOK == TablesTypeOK

Quiet == \A h \in Handlers : req[h] = Idle

-----------------------------------------------------------------------------
(* Safety *)

\* No line shows more paid than payments were allocated to it, however the
\* requests of both servers interleave and wherever they break off
\* (paid_quantity against pos_payment_line_allocations): a guest who has not
\* paid is never let go as paid.  Voids aside.
PaidIsBacked == \A l \in Lines : order[l].paid <= allocated[l]

\* paid_quantity, written from what was read some awaits before, never goes
\* beyond the quantity: the check constraint pos_order_lines_paid_quantity_chk
\* never refuses a write.
PaidWithinQuantity == \A l \in Lines : order[l].paid <= order[l].qty

\* The units of a line that the allocation rows pay for, each with its payment.
Units(l) == UNION {{p} \X (1 .. pays[p].rows[l]) : p \in Payments}

\* Between requests paid_quantity is the sum of the allocation rows of the
\* line, as the comment on the column has it.
PaidIsSum ==
    Quiet => \A l \in Lines :
        order[l].paid = Cardinality(Units(l)) /\ allocated[l] = order[l].paid

\* Between requests a payment that counts has its rows, and one that was
\* refunded or deleted has none: money and bill tell the same story.
PaymentHasRows ==
    Quiet => \A p \in Payments : pays[p].st = "paid" <=> pays[p].rows # NoRows

-----------------------------------------------------------------------------
(* Steps *)

\* A settled session is only released, and a closed one comes back only when
\* a payment of it is voided.
NoWayBack ==
    [][\A s \in Sessions :
          /\ sess[s].st = "paid" => sess'[s].st \in {"paid", "closed"}
          /\ sess[s].st = "closed" /\ sess'[s].st # "closed" =>
                \E h \in Handlers : req[h].pc = "reopen" /\ req[h].sid = s]_tableVars

Phase(st) == CASE st = "none" -> "none"
               [] st \in {"open", "bill"} -> "seated"
               [] st = "paid" -> "settled"
               [] st = "closed" -> "gone"

\* The promise of the floor: seen from the allocation rows, and not from the
\* column the handlers decide by, every request is one atomic step.
Promise ==
    INSTANCE FloorPromise WITH
        party <- [s \in Sessions |-> [table |-> sess[s].table, phase |-> Phase(sess[s].st)]],
        of <- [l \in Lines |-> IF order[l].stage = "line" THEN order[l].sid ELSE None],
        owed <- [l \in Lines |-> IF order[l].stage = "line" THEN order[l].qty - allocated[l] ELSE 0],
        part <- [p \in Payments |-> pays[p].rows]

PromiseKept == Promise!Spec
=============================================================================
