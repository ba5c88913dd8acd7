--------------------------- MODULE WebSettlement ----------------------------
(***************************************************************************)
(* The web POS on the same tables (apps/web/lib/pos): openPosTableSession, *)
(* createPosOrder, collectCashAllocations, closePosTableSession and        *)
(* voidCashPayment.  It knows the status "open" only, where Nest also uses *)
(* "bill" and "paid".                                                      *)
(***************************************************************************)
EXTENDS PosTables

IsOpen(s) == sess[s].st = "open"
OpenAt(t) == {s \in Sessions : sess[s].table = t /\ IsOpen(s)}

WebOpen(h, t) ==
    /\ OpenAt(t) = {}
    /\ Begin(h, [Idle EXCEPT !.op = "wopen", !.pc = "insert", !.table = t])
    /\ UNCHANGED <<dbVars, faults>>

WebOrder(h, s, q) ==
    /\ IsOpen(s)
    /\ Begin(h, [Idle EXCEPT !.op = "worder", !.pc = "newOrder", !.sid = s, !.qty = q])
    /\ UNCHANGED <<dbVars, faults>>

-----------------------------------------------------------------------------
(* collectCashAllocations *)

WebCollect(h, s) ==
    /\ IsOpen(s)
    /\ Begin(h, [Idle EXCEPT !.op = "wpay", !.pc = "orders", !.sid = s])
    /\ UNCHANGED <<dbVars, faults>>

\* Mutant: one unit more than what is open is let through.
WebCollectLinesOff(h) ==
    /\ At(h, {"wpay"}, "lines")
    /\ \E ask \in Parts :
          /\ Concerned(ask) # {} /\ Concerned(ask) \subseteq LinesOf(req[h].ids)
          /\ \A l \in Lines : ask[l] > 0 => ask[l] + order[l].paid <= order[l].qty + 1
          /\ Goto(h, [req[h] EXCEPT !.pc = "payment", !.ask = ask,
                          !.seen = [l \in Lines |-> order[l].paid], !.todo = Concerned(ask)])
    /\ UNCHANGED <<dbVars, faults>>

WebCollectLines(h) ==
    /\ At(h, {"wpay"}, "lines")
    /\ \/ \E ask \in Parts :
             /\ Concerned(ask) # {} /\ Concerned(ask) \subseteq LinesOf(req[h].ids)
             /\ WithinOpen(ask)
             /\ Goto(h, [req[h] EXCEPT !.pc = "payment", !.ask = ask,
                             !.seen = [l \in Lines |-> order[l].paid], !.todo = Concerned(ask)])
       \/ End(h)
    /\ UNCHANGED <<dbVars, faults>>

\* When the allocation rows fail the payment is deleted again.
WebRowsFail(h) ==
    /\ At(h, {"wpay"}, "rows")
    /\ Fault("webrows")
    /\ Goto(h, [req[h] EXCEPT !.pc = "unpay"])
    /\ UNCHANGED dbVars

\* Mutant: the payment stays when its rows could not be inserted.
DeletePaymentNot(h) ==
    /\ At(h, {"wpay"}, "unpay")
    /\ End(h)
    /\ UNCHANGED <<dbVars, faults>>

DeletePayment(h) ==
    /\ At(h, {"wpay"}, "unpay")
    /\ pays' = [pays EXCEPT ![req[h].pay].st = "deleted"]
    /\ End(h)
    /\ UNCHANGED <<sess, order, allocated, faults>>

\* The payment pipeline changes nothing that is kept here.
WebCollected(h) ==
    /\ At(h, {"wpay"}, "write")
    /\ req[h].todo = {}
    /\ End(h)
    /\ UNCHANGED <<dbVars, faults>>

-----------------------------------------------------------------------------
(* closePosTableSession *)

WebClose(h, s) ==
    /\ IsOpen(s)
    /\ Begin(h, [Idle EXCEPT !.op = "wclose", !.pc = "orders", !.sid = s])
    /\ UNCHANGED <<dbVars, faults>>

\* canReleaseTable: no line has an open quantity; no orders will do as well.
WebCloseLines(h) ==
    /\ At(h, {"wclose"}, "lines")
    /\ \/ AllPaid(req[h].ids) /\ Goto(h, [req[h] EXCEPT !.pc = "close"])
       \/ ~AllPaid(req[h].ids) /\ End(h)
    /\ UNCHANGED <<dbVars, faults>>

-----------------------------------------------------------------------------
(* voidCashPayment *)

Void(h, p) ==
    /\ pays[p].st = "paid"
    /\ Begin(h, [Idle EXCEPT !.op = "void", !.pc = "allocs", !.sid = pays[p].sid, !.pay = p])
    /\ UNCHANGED <<dbVars, faults>>

VoidAllocs(h) ==
    /\ At(h, {"void"}, "allocs")
    /\ LET rows == pays[req[h].pay].rows
       IN  Goto(h, [req[h] EXCEPT !.pc = "takeback", !.ask = rows, !.todo = Concerned(rows)])
    /\ UNCHANGED <<dbVars, faults>>

\* Every row's line is read, and written in the next statement.
VoidRead(h) ==
    /\ At(h, {"void"}, "takeback")
    /\ \E l \in req[h].todo :
          Goto(h, [req[h] EXCEPT !.pc = "reduce", !.ids = {l}, !.seen[l] = order[l].paid])
    /\ UNCHANGED <<dbVars, faults>>

\* Mutant: all that was paid for the line is taken back.
LessAll(paid, part) == 0

\* Math.max(0, paid - part)
Less(paid, part) == IF paid > part THEN paid - part ELSE 0

VoidWrite(h) ==
    LET r == req[h]
    IN  /\ At(h, {"void"}, "reduce")
        /\ order' = [l \in Lines |-> IF l \in r.ids
                                      THEN [order[l] EXCEPT !.paid = Less(r.seen[l], r.ask[l])]
                                      ELSE order[l]]
        /\ Goto(h, [r EXCEPT !.pc = "takeback", !.todo = @ \ r.ids])
        /\ UNCHANGED <<sess, pays, allocated, faults>>

VoidDeleteRows(h) ==
    LET p == req[h].pay
    IN  /\ At(h, {"void"}, "takeback")
        /\ req[h].todo = {}
        /\ pays' = [pays EXCEPT ![p].rows = NoRows]
        /\ allocated' = [l \in Lines |-> allocated[l] - pays[p].rows[l]]
        /\ Goto(h, [req[h] EXCEPT !.pc = "refund"])
        /\ UNCHANGED <<sess, order, faults>>

VoidRefund(h) ==
    /\ At(h, {"void"}, "refund")
    /\ pays' = [pays EXCEPT ![req[h].pay].st = "refunded"]
    /\ Goto(h, [req[h] EXCEPT !.pc = "session"])
    /\ UNCHANGED <<sess, order, allocated, faults>>

\* A closed session may be reopened (reopenTable), any other stays.
VoidSession(h) ==
    LET s == sess[req[h].sid]
    IN  /\ At(h, {"void"}, "session")
        /\ \/ s.st = "closed" /\ Goto(h, [req[h] EXCEPT !.pc = "other", !.table = s.table])
           \/ End(h)
        /\ UNCHANGED <<dbVars, faults>>

VoidOther(h) ==
    /\ At(h, {"void"}, "other")
    /\ \/ OpenAt(req[h].table) = {} /\ Goto(h, [req[h] EXCEPT !.pc = "reopen"])
       \/ OpenAt(req[h].table) # {} /\ End(h)
    /\ UNCHANGED <<dbVars, faults>>

VoidReopen(h) ==
    LET s == req[h].sid
    IN  /\ At(h, {"void"}, "reopen")
        /\ \/ IndexAllows(s, sess[s].table) /\ SetStatus(s, "open")
           \/ ~IndexAllows(s, sess[s].table) /\ UNCHANGED sess
        /\ End(h)
        /\ UNCHANGED <<order, pays, allocated, faults>>

WebCollecting(h) ==
    \/ \E s \in Sessions : WebCollect(h, s)
    \/ SelectOrders(h, {"wpay"}) \/ WebCollectLines(h)
    \/ InsertPayment(h, {"wpay"}) \/ InsertRows(h, {"wpay"}) \/ WebRowsFail(h)
    \/ DeletePayment(h) \/ UpdatePaid(h, {"wpay"}) \/ WebCollected(h)

Voiding(h) ==
    \/ \E p \in Payments : Void(h, p)
    \/ VoidAllocs(h) \/ VoidRead(h) \/ VoidWrite(h) \/ VoidDeleteRows(h)
    \/ VoidRefund(h) \/ VoidSession(h) \/ VoidOther(h) \/ VoidReopen(h)

WebStep(h) ==
    \/ \E t \in Tables : WebOpen(h, t)
    \/ \E s \in Sessions, q \in 1 .. MaxQty : WebOrder(h, s, q)
    \/ \E s \in Sessions : WebClose(h, s)
    \/ SelectOrders(h, {"wclose"}) \/ WebCloseLines(h)
    \/ WebCollecting(h) \/ Voiding(h)
=============================================================================
