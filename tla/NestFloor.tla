----------------------------- MODULE NestFloor ------------------------------
(***************************************************************************)
(* Nest's services on a table (apps/pos-api): SessionsService with open,   *)
(* setBill, release and moveTable, OrdersService.createOrder and           *)
(* PaymentsService.collectCash.  The till is open: when it is not, the     *)
(* handlers return before they change anything.  A handler that refuses    *)
(* right after its first read changes nothing and is no step.              *)
(***************************************************************************)
EXTENDS PosTables

Billable == {"open", "bill"}

\* open: an active session of the table is reused, else one is inserted.
Open(h, t) ==
    /\ ActiveAt(t) = {}
    /\ Begin(h, [Idle EXCEPT !.op = "open", !.pc = "insert", !.table = t])
    /\ UNCHANGED <<dbVars, faults>>

\* setBill is one statement, with its condition in it.
SetBill(s) ==
    /\ MayBegin("bill")
    /\ sess[s].st \in Billable
    /\ SetStatus(s, "bill")
    /\ UNCHANGED <<order, pays, allocated, req, faults>>

\* release checks the status it has read, not whether the bill is paid.
Release(h, s) ==
    /\ sess[s].st \in Active
    /\ Begin(h, [Idle EXCEPT !.op = "release", !.pc = "close", !.sid = s])
    /\ UNCHANGED <<dbVars, faults>>

Move(h, s, t) ==
    /\ sess[s].st \in Active
    /\ Begin(h, [Idle EXCEPT !.op = "move", !.pc = "occupied", !.sid = s, !.table = t])
    /\ UNCHANGED <<dbVars, faults>>

MoveLook(h) ==
    /\ At(h, {"move"}, "occupied")
    /\ \/ ActiveAt(req[h].table) = {} /\ Goto(h, [req[h] EXCEPT !.pc = "move"])
       \/ ActiveAt(req[h].table) # {} /\ End(h)
    /\ UNCHANGED <<dbVars, faults>>

MoveUpdate(h) ==
    LET s == req[h].sid
        t == req[h].table
        fits == sess[s].st \in Active => IndexAllows(s, t)
    IN  /\ At(h, {"move"}, "move")
        /\ \/ fits /\ sess' = [sess EXCEPT ![s].table = t]
           \/ ~fits /\ UNCHANGED sess
        /\ End(h)
        /\ UNCHANGED <<order, pays, allocated, faults>>

\* createOrder, up to its first statement that writes.
Order(h, s, q) ==
    /\ sess[s].st \in Billable
    /\ Begin(h, [Idle EXCEPT !.op = "order", !.pc = "newOrder", !.sid = s, !.qty = q])
    /\ UNCHANGED <<dbVars, faults>>

-----------------------------------------------------------------------------
(* collectCash *)

\* Mutant: the status of the session is not looked at.
CollectableAll(s) == sess[s].st # "none"

Collectable(s) == sess[s].st \in Billable

Collect(h, s) ==
    /\ Collectable(s)
    /\ Begin(h, [Idle EXCEPT !.op = "pay", !.pc = "orders", !.sid = s])
    /\ UNCHANGED <<dbVars, faults>>

\* The lines are read and what is asked for is checked against them; a
\* request that asks for more, or for other lines, is refused.
CollectLines(h) ==
    /\ At(h, {"pay"}, "lines")
    /\ \/ \E ask \in Parts :
             /\ Concerned(ask) # {} /\ Concerned(ask) \subseteq LinesOf(req[h].ids)
             /\ WithinOpen(ask)
             /\ Goto(h, [req[h] EXCEPT !.pc = "payment", !.ask = ask,
                             !.seen = [l \in Lines |-> order[l].paid], !.todo = Concerned(ask)])
       \/ End(h)
    /\ UNCHANGED <<dbVars, faults>>

\* Mutant: an error of the allocation rows is not looked at.
CollectRowsFailIgnored(h) ==
    /\ At(h, {"pay"}, "rows")
    /\ Fault("nestrows")
    /\ Goto(h, [req[h] EXCEPT !.pc = "write"])
    /\ UNCHANGED dbVars

\* When the allocation rows fail collectCash returns and the payment stays.
CollectRowsFail(h) ==
    /\ At(h, {"pay"}, "rows")
    /\ Fault("nestrows")
    /\ End(h)
    /\ UNCHANGED dbVars

\* An error of a line's update is not looked at: the loop goes on.
CollectWriteFails(h) ==
    /\ At(h, {"pay"}, "write")
    /\ Fault("writefail")
    /\ \E l \in req[h].todo : Goto(h, [req[h] EXCEPT !.todo = @ \ {l}])
    /\ UNCHANGED dbVars

\* The session becomes 'bill', whatever it is by now; an error, the index
\* among them, is not looked at.
CollectBill(h) ==
    LET s == req[h].sid
    IN  /\ At(h, {"pay"}, "write")
        /\ req[h].todo = {}
        /\ \/ IndexAllows(s, sess[s].table) /\ SetStatus(s, "bill") /\ UNCHANGED faults
           \/ ~IndexAllows(s, sess[s].table) /\ UNCHANGED <<sess, faults>>
           \/ Fault("writefail") /\ UNCHANGED sess
        /\ Goto(h, [req[h] EXCEPT !.pc = "recheck"])
        /\ UNCHANGED <<order, pays, allocated>>

\* Mutant: only the lines of this payment are looked at again.
PaidOnRecheckOwn(r) == AllPaid(Concerned(r.ask))

\* The lines of the orders that were read at the start are read again.
PaidOnRecheck(r) == LinesOf(r.ids) # {} /\ AllPaid(r.ids)

CollectRecheck(h) ==
    /\ At(h, {"pay"}, "recheck")
    /\ \/ PaidOnRecheck(req[h]) /\ Goto(h, [req[h] EXCEPT !.pc = "settle"])
       \/ ~PaidOnRecheck(req[h]) /\ End(h)
    /\ UNCHANGED <<dbVars, faults>>

CollectSettle(h) ==
    LET s == req[h].sid
    IN  /\ At(h, {"pay"}, "settle")
        /\ \/ IndexAllows(s, sess[s].table) /\ SetStatus(s, "paid")
           \/ ~IndexAllows(s, sess[s].table) /\ UNCHANGED sess
        /\ End(h)
        /\ UNCHANGED <<order, pays, allocated, faults>>

Collecting(h) ==
    \/ \E s \in Sessions : Collect(h, s)
    \/ SelectOrders(h, {"pay"}) \/ CollectLines(h)
    \/ InsertPayment(h, {"pay"}) \/ InsertRows(h, {"pay"}) \/ CollectRowsFail(h)
    \/ UpdatePaid(h, {"pay"}) \/ CollectWriteFails(h)
    \/ CollectBill(h) \/ CollectRecheck(h) \/ CollectSettle(h)

Seating(h) ==
    \/ \E t \in Tables : Open(h, t)
    \/ \E s \in Sessions : SetBill(s) \/ Release(h, s)
    \/ \E s \in Sessions, t \in Tables : Move(h, s, t)
    \/ MoveLook(h) \/ MoveUpdate(h)
    \/ \E s \in Sessions, q \in 1 .. MaxQty : Order(h, s, q)

NestStep(h) == Seating(h) \/ Collecting(h)
=============================================================================
