-------------------------- MODULE TableBill_proofs --------------------------
(***************************************************************************)
(* Proofs about TableBill, for all sets of ids, all quantities, all        *)
(* operations and all faults: the types are right, no line is paid beyond  *)
(* its quantity, and, voids aside, no line shows more paid than was        *)
(* allocated to it.                                                        *)
(***************************************************************************)
EXTENDS TableBill, TLAPS

Orders == [Lines -> [sid: Sessions \cup {None}, qty: Quantities, paid: Nat,
                     stage: {"none", "empty", "line", "gone"}]]

\* An order that was once inserted is never inserted again under its id; all
\* that follows is said of some value o of the table of orders.
Known(o, l) == o[l].stage # "none"

\* What a request in flight holds in its local variables, against the tables.
RequestOK(r, o) ==
    /\ r.op \notin {"none", "open", "wopen"} => r.sid \in Sessions
    /\ r.op = "void" => r.pay \in Payments
    /\ \A l \in r.todo : Known(o, l)
    /\ r.pc \in {"payment", "rows"} => Concerned(r.ask) \subseteq r.todo
    /\ r.pc \in {"payment", "rows", "write"} =>
          \A l \in r.todo : r.seen[l] + r.ask[l] <= o[l].qty
    /\ r.pc = "reduce" => \A l \in r.ids : Known(o, l) /\ r.seen[l] <= o[l].qty

PaymentsOK ==
    \A p \in Payments :
        /\ pays[p].st = "paid" => pays[p].sid \in Sessions
        /\ \A l \in Lines : pays[p].rows[l] > 0 => Known(order, l)

\* The types of the tables, without the requests.
DbTypeOK ==
    /\ sess \in [Sessions -> [table: Tables \cup {None}, st: Statuses]]
    /\ order \in Orders
    /\ pays \in [Payments -> [st: {"none", "paid", "refunded", "deleted"},
                              sid: Sessions \cup {None}, rows: [Lines -> Nat]]]
    /\ allocated \in [Lines -> Int]
    /\ faults \in 0 .. MaxFaults

Inv ==
    /\ DbTypeOK
    /\ req \in [Handlers -> Request]
    /\ PaymentsOK
    /\ PaidWithinQuantity
    /\ \A h \in Handlers : RequestOK(req[h], order)

\* From o to n no order changes its quantity or is forgotten.
OrdersStay(o, n) ==
    \A l \in Lines : Known(o, l) => Known(n, l) /\ n[l].qty = o[l].qty

\* What a request holds stays right while other requests take steps.
LEMMA RequestStays ==
    ASSUME NEW o, NEW n, OrdersStay(o, n), NEW r \in Request, RequestOK(r, o)
    PROVE  RequestOK(r, n)
<1>1. r.todo \subseteq Lines /\ r.ids \subseteq Lines
    BY DEF Request
<1>2. \A l \in r.todo \cup r.ids :
          Known(o, l) => Known(n, l) /\ n[l].qty = o[l].qty
    BY <1>1 DEF OrdersStay
<1> QED
    BY <1>1, <1>2 DEF RequestOK

\* A step of one request: it is enough to look at the tables and at its own
\* local variables.
LEMMA StepKeeps ==
    ASSUME Inv, NEW h \in Handlers, NEW r \in Request, Goto(h, r), RequestOK(r, order'),
           OrdersStay(order, order'), DbTypeOK', PaymentsOK', PaidWithinQuantity'
    PROVE  Inv'
<1>1. req \in [Handlers -> Request]
    BY DEF Inv
<1>2. req' = [req EXCEPT ![h] = r]
    BY DEF Goto
<1>3. req' \in [Handlers -> Request]
    BY <1>1, <1>2
<1>4. ASSUME NEW g \in Handlers
      PROVE  RequestOK(req'[g], order')
    <2>1. CASE g = h
        BY <2>1, <1>1, <1>2
    <2>2. CASE g # h
        <3>1. req'[g] = req[g] /\ req[g] \in Request /\ RequestOK(req[g], order)
            BY <2>2, <1>1, <1>2 DEF Inv
        <3> QED
            BY <3>1, RequestStays
    <2> QED
        BY <2>1, <2>2
<1> QED
    BY <1>3, <1>4 DEF Inv

\* A step that changes no table.
LEMMA LocalStep ==
    ASSUME Inv, NEW h \in Handlers, NEW r \in Request, Goto(h, r), RequestOK(r, order),
           UNCHANGED dbVars, faults' \in 0 .. MaxFaults
    PROVE  Inv'
<1>1. DbTypeOK' /\ PaymentsOK' /\ PaidWithinQuantity'
    BY DEF Inv, dbVars, DbTypeOK, PaymentsOK, PaidWithinQuantity, Known
<1>2. order' = order /\ OrdersStay(order, order')
    BY DEF dbVars, OrdersStay
<1> QED
    BY <1>1, <1>2, StepKeeps

\* A step that changes sessions only.
LEMMA SessionStep ==
    ASSUME Inv, NEW h \in Handlers, NEW r \in Request, Goto(h, r), RequestOK(r, order),
           sess' \in [Sessions -> [table: Tables \cup {None}, st: Statuses]],
           UNCHANGED <<order, pays, allocated>>, faults' \in 0 .. MaxFaults
    PROVE  Inv'
<1>1. DbTypeOK' /\ PaymentsOK' /\ PaidWithinQuantity'
    BY DEF Inv, DbTypeOK, PaymentsOK, PaidWithinQuantity, Known
<1>2. order' = order /\ OrdersStay(order, order')
    BY DEF OrdersStay
<1> QED
    BY <1>1, <1>2, StepKeeps

\* A request that is over holds nothing.
LEMMA IdleOK ==
    /\ Idle \in Request
    /\ \A o : RequestOK(Idle, o)
BY BoundsAreNat DEF Idle, Request, RequestOK, NoRows, Quantities, Pcs

\* A fault stays within its bound.
LEMMA FaultType ==
    ASSUME Inv, NEW kind, Fault(kind)
    PROVE  faults' \in 0 .. MaxFaults
BY BoundsAreNat DEF Inv, DbTypeOK, Fault

-----------------------------------------------------------------------------
(* The steps, first those that change no table *)

\* A request begins.
LEMMA BeginStep ==
    ASSUME Inv, NEW h \in Handlers, NEW r \in Request, Begin(h, r), RequestOK(r, order),
           UNCHANGED <<dbVars, faults>>
    PROVE  Inv'
<1>1. faults' \in 0 .. MaxFaults
    BY DEF Inv, DbTypeOK
<1> QED
    BY <1>1, LocalStep DEF Begin

\* A request ends and no table changes.
LEMMA EndStep ==
    ASSUME Inv, NEW h \in Handlers, End(h), UNCHANGED dbVars, faults' \in 0 .. MaxFaults
    PROVE  Inv'
BY IdleOK, LocalStep DEF End

LEMMA OpenBegins ==
    ASSUME Inv, NEW h \in Handlers, NEW t \in Tables,
           Open(h, t) \/ WebOpen(h, t)
    PROVE  Inv'
<1> DEFINE r1 == [Idle EXCEPT !.op = "open", !.pc = "insert", !.table = t]
           r2 == [Idle EXCEPT !.op = "wopen", !.pc = "insert", !.table = t]
<1>1. Idle \in Request /\ Idle.todo = {} /\ Idle.ids = {}
    BY IdleOK DEF Idle
<1>2. PICK r \in {r1, r2} : Begin(h, r) /\ UNCHANGED <<dbVars, faults>>
    BY DEF Open, WebOpen
<1>3. r.op \in Ops
    BY <1>2 DEF Begin, MayBegin
<1>4. CASE r = r1
    <2>1. r \in Request /\ RequestOK(r, order)
        BY <1>1, <1>3, <1>4 DEF Request, RequestOK, Pcs
    <2> HIDE DEF r1, r2
    <2> QED
        BY <1>2, <2>1, BeginStep
<1>5. CASE r = r2
    <2>1. r \in Request /\ RequestOK(r, order)
        BY <1>1, <1>3, <1>5 DEF Request, RequestOK, Pcs
    <2> HIDE DEF r1, r2
    <2> QED
        BY <1>2, <2>1, BeginStep
<1> QED
    BY <1>2, <1>4, <1>5

LEMMA ReleaseBegins ==
    ASSUME Inv, NEW h \in Handlers, NEW s \in Sessions,
           Release(h, s)
    PROVE  Inv'
<1> DEFINE r1 == [Idle EXCEPT !.op = "release", !.pc = "close", !.sid = s]
<1>1. Idle \in Request /\ Idle.todo = {} /\ Idle.ids = {}
    BY IdleOK DEF Idle
<1>2. PICK r \in {r1} : Begin(h, r) /\ UNCHANGED <<dbVars, faults>>
    BY DEF Release
<1>3. r.op \in Ops
    BY <1>2 DEF Begin, MayBegin
<1>4. CASE r = r1
    <2>1. r \in Request /\ RequestOK(r, order)
        BY <1>1, <1>3, <1>4 DEF Request, RequestOK, Pcs
    <2> HIDE DEF r1
    <2> QED
        BY <1>2, <2>1, BeginStep
<1> QED
    BY <1>2, <1>4

LEMMA MoveBegins ==
    ASSUME Inv, NEW h \in Handlers, NEW s \in Sessions, NEW t \in Tables,
           Move(h, s, t)
    PROVE  Inv'
<1> DEFINE r1 == [Idle EXCEPT !.op = "move", !.pc = "occupied", !.sid = s, !.table = t]
<1>1. Idle \in Request /\ Idle.todo = {} /\ Idle.ids = {}
    BY IdleOK DEF Idle
<1>2. PICK r \in {r1} : Begin(h, r) /\ UNCHANGED <<dbVars, faults>>
    BY DEF Move
<1>3. r.op \in Ops
    BY <1>2 DEF Begin, MayBegin
<1>4. CASE r = r1
    <2>1. r \in Request /\ RequestOK(r, order)
        BY <1>1, <1>3, <1>4 DEF Request, RequestOK, Pcs
    <2> HIDE DEF r1
    <2> QED
        BY <1>2, <2>1, BeginStep
<1> QED
    BY <1>2, <1>4

LEMMA OrderBegins ==
    ASSUME Inv, NEW h \in Handlers, NEW s \in Sessions, NEW q \in 1 .. MaxQty,
           Order(h, s, q) \/ WebOrder(h, s, q)
    PROVE  Inv'
<1> DEFINE r1 == [Idle EXCEPT !.op = "order", !.pc = "newOrder", !.sid = s, !.qty = q]
           r2 == [Idle EXCEPT !.op = "worder", !.pc = "newOrder", !.sid = s, !.qty = q]
<1>1. Idle \in Request /\ Idle.todo = {} /\ Idle.ids = {}
    BY IdleOK DEF Idle
<1>2. PICK r \in {r1, r2} : Begin(h, r) /\ UNCHANGED <<dbVars, faults>>
    BY DEF Order, WebOrder
<1>3. r.op \in Ops
    BY <1>2 DEF Begin, MayBegin
<1>4. q \in Quantities
    BY <1>2, BoundsAreNat DEF Quantities
<1>5. CASE r = r1
    <2>1. r \in Request /\ RequestOK(r, order)
        BY <1>1, <1>3, <1>4, <1>5 DEF Request, RequestOK, Pcs
    <2> HIDE DEF r1, r2
    <2> QED
        BY <1>2, <2>1, BeginStep
<1>6. CASE r = r2
    <2>1. r \in Request /\ RequestOK(r, order)
        BY <1>1, <1>3, <1>4, <1>6 DEF Request, RequestOK, Pcs
    <2> HIDE DEF r1, r2
    <2> QED
        BY <1>2, <2>1, BeginStep
<1> QED
    BY <1>2, <1>5, <1>6

LEMMA CollectBegins ==
    ASSUME Inv, NEW h \in Handlers, NEW s \in Sessions,
           Collect(h, s) \/ WebCollect(h, s) \/ WebClose(h, s)
    PROVE  Inv'
<1> DEFINE r1 == [Idle EXCEPT !.op = "pay", !.pc = "orders", !.sid = s]
           r2 == [Idle EXCEPT !.op = "wpay", !.pc = "orders", !.sid = s]
           r3 == [Idle EXCEPT !.op = "wclose", !.pc = "orders", !.sid = s]
<1>1. Idle \in Request /\ Idle.todo = {} /\ Idle.ids = {}
    BY IdleOK DEF Idle
<1>2. PICK r \in {r1, r2, r3} : Begin(h, r) /\ UNCHANGED <<dbVars, faults>>
    BY DEF Collect, WebCollect, WebClose
<1>3. r.op \in Ops
    BY <1>2 DEF Begin, MayBegin
<1>4. CASE r = r1
    <2>1. r \in Request /\ RequestOK(r, order)
        BY <1>1, <1>3, <1>4 DEF Request, RequestOK, Pcs
    <2> HIDE DEF r1, r2, r3
    <2> QED
        BY <1>2, <2>1, BeginStep
<1>5. CASE r = r2
    <2>1. r \in Request /\ RequestOK(r, order)
        BY <1>1, <1>3, <1>5 DEF Request, RequestOK, Pcs
    <2> HIDE DEF r1, r2, r3
    <2> QED
        BY <1>2, <2>1, BeginStep
<1>6. CASE r = r3
    <2>1. r \in Request /\ RequestOK(r, order)
        BY <1>1, <1>3, <1>6 DEF Request, RequestOK, Pcs
    <2> HIDE DEF r1, r2, r3
    <2> QED
        BY <1>2, <2>1, BeginStep
<1> QED
    BY <1>2, <1>4, <1>5, <1>6

LEMMA VoidBegins ==
    ASSUME Inv, NEW h \in Handlers, NEW p \in Payments,
           Void(h, p)
    PROVE  Inv'
<1> DEFINE r1 == [Idle EXCEPT !.op = "void", !.pc = "allocs", !.sid = pays[p].sid, !.pay = p]
<1>1. Idle \in Request /\ Idle.todo = {} /\ Idle.ids = {}
    BY IdleOK DEF Idle
<1>2. PICK r \in {r1} : Begin(h, r) /\ UNCHANGED <<dbVars, faults>> /\ pays[p].st = "paid"
    BY DEF Void
<1>3. r.op \in Ops
    BY <1>2 DEF Begin, MayBegin
<1>4. pays[p].sid \in Sessions
    BY <1>2 DEF Inv, PaymentsOK
<1>5. CASE r = r1
    <2>1. r \in Request /\ RequestOK(r, order)
        BY <1>1, <1>3, <1>4, <1>5 DEF Request, RequestOK, Pcs
    <2> HIDE DEF r1
    <2> QED
        BY <1>2, <2>1, BeginStep
<1> QED
    BY <1>2, <1>5

\* The types of what a request has read, and of the tables.
LEMMA Fields ==
    ASSUME Inv, NEW h \in Handlers
    PROVE  /\ req[h] \in Request
           /\ RequestOK(req[h], order)
           /\ faults \in 0 .. MaxFaults
           /\ \A l \in Lines : order[l].paid \in Nat /\ order[l].qty \in Quantities
           /\ \A l \in Lines : order[l].paid <= order[l].qty
           /\ \A p \in Payments : pays[p].rows \in [Lines -> Nat]
BY DEF Inv, DbTypeOK, Orders, PaidWithinQuantity

LEMMA MoveLookInv ==
    ASSUME Inv, NEW h \in Handlers, MoveLook(h)
    PROVE  Inv'
<1> DEFINE r == [req[h] EXCEPT !.pc = "move"]
<1>1. r \in Request /\ RequestOK(r, order)
    BY Fields DEF MoveLook, At, Request, RequestOK, Pcs
<1>2. UNCHANGED dbVars /\ faults' \in 0 .. MaxFaults
    BY Fields DEF MoveLook
<1> HIDE DEF r
<1>3. Goto(h, r) => Inv'
    BY <1>1, <1>2, LocalStep
<1> QED
    BY <1>2, <1>3, EndStep DEF MoveLook, r

LEMMA SelectOrdersInv ==
    ASSUME Inv, NEW h \in Handlers, NEW ops, SelectOrders(h, ops)
    PROVE  Inv'
<1> DEFINE r == [req[h] EXCEPT !.pc = "lines", !.ids = OrdersOf(req[h].sid)]
<1>1. r \in Request /\ RequestOK(r, order)
    BY Fields DEF SelectOrders, At, Request, RequestOK, Pcs, OrdersOf
<1>2. UNCHANGED dbVars /\ faults' \in 0 .. MaxFaults /\ Goto(h, r)
    BY Fields DEF SelectOrders
<1> HIDE DEF r
<1> QED
    BY <1>1, <1>2, LocalStep

\* Both servers check the quantities asked for against what they have read.
LEMMA CollectLinesInv ==
    ASSUME Inv, NEW h \in Handlers, CollectLines(h) \/ WebCollectLines(h)
    PROVE  Inv'
<1>1. UNCHANGED dbVars /\ faults' \in 0 .. MaxFaults
    BY Fields DEF CollectLines, WebCollectLines
<1>2. req[h].op \in {"pay", "wpay"} /\ req[h].pc = "lines"
    BY DEF CollectLines, WebCollectLines, At
<1>3. CASE End(h)
    BY <1>1, <1>3, EndStep
<1>4. CASE ~End(h)
    <2> DEFINE seen == [l \in Lines |-> order[l].paid]
               r(ask) == [req[h] EXCEPT !.pc = "payment", !.ask = ask, !.seen = seen,
                              !.todo = Concerned(ask)]
    <2>0. seen \in [Lines -> Nat] /\ \A l \in Lines : seen[l] = order[l].paid
        BY Fields
    <2>1. PICK ask \in Parts :
              /\ Concerned(ask) \subseteq LinesOf(req[h].ids)
              /\ WithinOpen(ask)
              /\ Goto(h, r(ask))
        BY <1>4 DEF CollectLines, WebCollectLines
    <2>2. \A l \in Lines : ask[l] \in Nat
        BY BoundsAreNat DEF Parts, Quantities
    <2> HIDE DEF seen
    <2>3. ask \in [Lines -> Nat] /\ Concerned(ask) \subseteq Lines
        BY <2>2 DEF Parts, Concerned
    <2>i. req[h] \in Request /\ "payment" \in Pcs
        BY Fields DEF Pcs
    <2>4. r(ask) \in Request
        BY <2>i, <2>0, <2>3 DEF Request
    <2>5. \A l \in Concerned(ask) : Known(order, l) /\ order[l].paid + ask[l] <= order[l].qty
        BY <2>1, <2>2, Fields DEF LinesOf, Known, WithinOpen, Concerned
    <2>6. r(ask).op = req[h].op /\ r(ask).sid = req[h].sid /\ r(ask).pc = "payment"
          /\ r(ask).ask = ask /\ r(ask).todo = Concerned(ask)
          /\ r(ask).seen = seen
        BY <2>i DEF Request
    <2> HIDE DEF r
    <2>7. RequestOK(r(ask), order)
        BY <1>2, <2>0, <2>3, <2>5, <2>6, Fields DEF RequestOK
    <2> QED
        BY <1>1, <2>1, <2>4, <2>7, LocalStep
<1> QED
    BY <1>3, <1>4

\* A request goes on at another place with the same local variables, or with
\* fewer lines to do.
LEMMA GoOn ==
    ASSUME Inv, NEW h \in Handlers, NEW pc \in Pcs \ {"payment", "rows", "write", "reduce"}
    PROVE  /\ [req[h] EXCEPT !.pc = pc] \in Request
           /\ RequestOK([req[h] EXCEPT !.pc = pc], order)
<1>1. req[h] \in Request /\ RequestOK(req[h], order)
    BY Fields
<1> QED
    BY <1>1 DEF Request, RequestOK

LEMMA FewerLines ==
    ASSUME Inv, NEW h \in Handlers, NEW l \in Lines, req[h].pc = "write"
    PROVE  /\ [req[h] EXCEPT !.todo = @ \ {l}] \in Request
           /\ RequestOK([req[h] EXCEPT !.todo = @ \ {l}], order)
<1>1. req[h] \in Request /\ RequestOK(req[h], order)
    BY Fields
<1> QED
    BY <1>1 DEF Request, RequestOK

\* The error paths of a payment.
LEMMA CollectFails ==
    ASSUME Inv, NEW h \in Handlers,
           CollectRowsFail(h) \/ CollectWriteFails(h) \/ WebRowsFail(h) \/ Vanish(h)
    PROVE  Inv'
<1>1. CASE CollectRowsFail(h) \/ Vanish(h)
    BY <1>1, EndStep, FaultType DEF CollectRowsFail, Vanish
<1>2. CASE CollectWriteFails(h)
    <2>1. req[h].todo \subseteq Lines
        BY Fields DEF Request
    <2>2. PICK l \in req[h].todo : Goto(h, [req[h] EXCEPT !.todo = @ \ {l}])
        BY <1>2 DEF CollectWriteFails
    <2>3. l \in Lines /\ req[h].pc = "write" /\ UNCHANGED dbVars /\ faults' \in 0 .. MaxFaults
        BY <1>2, <2>1, FaultType DEF CollectWriteFails, At
    <2> QED
        BY <2>2, <2>3, FewerLines, LocalStep
<1>3. CASE WebRowsFail(h)
    <2>1. UNCHANGED dbVars /\ faults' \in 0 .. MaxFaults
          /\ Goto(h, [req[h] EXCEPT !.pc = "unpay"])
        BY <1>3, FaultType DEF WebRowsFail
    <2>2. "unpay" \in Pcs \ {"payment", "rows", "write", "reduce"}
        BY DEF Pcs
    <2> QED
        BY <2>1, <2>2, GoOn, LocalStep
<1> QED
    BY <1>1, <1>2, <1>3

\* Steps that look at a table and go on, or end.
LEMMA Looks ==
    ASSUME Inv, NEW h \in Handlers,
           CollectRecheck(h) \/ WebCloseLines(h) \/ VoidOther(h) \/ WebCollected(h)
    PROVE  Inv'
<1>1. UNCHANGED dbVars /\ faults' \in 0 .. MaxFaults
    BY Fields DEF CollectRecheck, WebCloseLines, VoidOther, WebCollected
<1>2. PICK pc \in {"settle", "close", "reopen"} :
          Goto(h, [req[h] EXCEPT !.pc = pc]) \/ End(h)
    BY DEF CollectRecheck, WebCloseLines, VoidOther, WebCollected
<1>3. pc \in Pcs \ {"payment", "rows", "write", "reduce"}
    BY DEF Pcs
<1> QED
    BY <1>1, <1>2, <1>3, GoOn, LocalStep, EndStep

\* A void reads the rows of its payment ...
LEMMA VoidAllocsInv ==
    ASSUME Inv, NEW h \in Handlers, VoidAllocs(h)
    PROVE  Inv'
<1> DEFINE rows == pays[req[h].pay].rows
           r == [req[h] EXCEPT !.pc = "takeback", !.ask = rows, !.todo = Concerned(rows)]
<1>1. req[h] \in Request /\ RequestOK(req[h], order) /\ req[h].op = "void" /\ "takeback" \in Pcs
    BY Fields DEF VoidAllocs, At, Pcs
<1>2. req[h].pay \in Payments
    BY <1>1 DEF RequestOK
<1>3. rows \in [Lines -> Nat] /\ \A l \in Lines : rows[l] > 0 => Known(order, l)
    BY <1>2, Fields DEF Inv, PaymentsOK
<1>4. UNCHANGED dbVars /\ faults' \in 0 .. MaxFaults /\ Goto(h, r)
    BY Fields DEF VoidAllocs
<1> HIDE DEF rows
<1>5. Concerned(rows) \subseteq Lines /\ \A l \in Concerned(rows) : Known(order, l)
    BY <1>3 DEF Concerned
<1>6. r \in Request
    BY <1>1, <1>3, <1>5 DEF Request
<1>7. RequestOK(r, order)
    BY <1>1, <1>5 DEF RequestOK, Request
<1> HIDE DEF r
<1> QED
    BY <1>4, <1>6, <1>7, LocalStep

\* ... and the line of every row.
LEMMA VoidReadInv ==
    ASSUME Inv, NEW h \in Handlers, VoidRead(h)
    PROVE  Inv'
<1>1. req[h] \in Request /\ RequestOK(req[h], order) /\ "reduce" \in Pcs
      /\ req[h].op = "void" /\ req[h].todo \subseteq Lines
    BY Fields DEF VoidRead, At, Pcs, Request
<1>2. PICK l \in req[h].todo :
          Goto(h, [req[h] EXCEPT !.pc = "reduce", !.ids = {l}, !.seen[l] = order[l].paid])
    BY DEF VoidRead
<1>3. l \in Lines /\ order[l].paid \in Nat /\ order[l].paid <= order[l].qty /\ Known(order, l)
    BY <1>1, Fields DEF RequestOK
<1> DEFINE new == [req[h].seen EXCEPT ![l] = order[l].paid]
           r == [req[h] EXCEPT !.pc = "reduce", !.ids = {l}, !.seen = new]
<1>4. new \in [Lines -> Nat] /\ new[l] = order[l].paid
    BY <1>1, <1>3 DEF Request
<1>5. Goto(h, r)
    BY <1>1, <1>2 DEF Request
<1> HIDE DEF new
<1>6. r \in Request
    BY <1>1, <1>3, <1>4 DEF Request
<1>7. RequestOK(r, order)
    BY <1>1, <1>3, <1>4 DEF RequestOK, Request
<1>8. UNCHANGED dbVars /\ faults' \in 0 .. MaxFaults
    BY Fields DEF VoidRead
<1> HIDE DEF r
<1> QED
    BY <1>5, <1>6, <1>7, <1>8, LocalStep

LEMMA VoidSessionInv ==
    ASSUME Inv, NEW h \in Handlers, VoidSession(h)
    PROVE  Inv'
<1> DEFINE r == [req[h] EXCEPT !.pc = "other", !.table = sess[req[h].sid].table]
<1>1. req[h] \in Request /\ RequestOK(req[h], order) /\ "other" \in Pcs /\ req[h].op = "void"
    BY Fields DEF VoidSession, At, Pcs
<1>2. UNCHANGED dbVars /\ faults' \in 0 .. MaxFaults /\ (Goto(h, r) \/ End(h))
    BY Fields DEF VoidSession
<1>3. sess[req[h].sid].table \in Tables \cup {None}
    BY <1>1 DEF Inv, DbTypeOK, RequestOK
<1>4. r \in Request /\ RequestOK(r, order)
    BY <1>1, <1>3 DEF Request, RequestOK
<1> HIDE DEF r
<1> QED
    BY <1>2, <1>4, LocalStep, EndStep

-----------------------------------------------------------------------------
(* Steps that change sessions *)

LEMMA StatusType ==
    ASSUME Inv, NEW s \in Sessions \cup {None}, NEW st \in Statuses, SetStatus(s, st)
    PROVE  sess' \in [Sessions -> [table: Tables \cup {None}, st: Statuses]]
BY DEF Inv, DbTypeOK, SetStatus

\* Steps that end a request with a write to its session.
LEMMA SessionEnds ==
    ASSUME Inv, NEW h \in Handlers, End(h),
           sess' \in [Sessions -> [table: Tables \cup {None}, st: Statuses]],
           UNCHANGED <<order, pays, allocated, faults>>
    PROVE  Inv'
<1>1. faults' \in 0 .. MaxFaults
    BY Fields
<1> QED
    BY <1>1, IdleOK, SessionStep DEF End

LEMMA SessionWrites ==
    ASSUME Inv, NEW h \in Handlers,
           \/ InsertSession(h) \/ UpdateClosed(h) \/ MoveUpdate(h)
           \/ CollectSettle(h) \/ VoidReopen(h)
    PROVE  Inv'
<1>1. End(h) /\ UNCHANGED <<order, pays, allocated, faults>>
    BY DEF InsertSession, UpdateClosed, MoveUpdate, CollectSettle, VoidReopen
<1>2. req[h] \in Request
    BY Fields
<1>3. req[h].sid \in Sessions \cup {None} /\ req[h].table \in Tables \cup {None}
    BY <1>2 DEF Request
<1>4. sess \in [Sessions -> [table: Tables \cup {None}, st: Statuses]]
    BY DEF Inv, DbTypeOK
<1>5. {"open", "closed", "paid"} \subseteq Statuses
    BY DEF Statuses, Active
<1>6. CASE InsertSession(h)
    <2>1. PICK s \in Sessions :
              \/ sess' = [sess EXCEPT ![s] = [table |-> req[h].table, st |-> "open"]]
              \/ UNCHANGED sess
        BY <1>6 DEF InsertSession
    <2>2. [table |-> req[h].table, st |-> "open"] \in [table: Tables \cup {None}, st: Statuses]
        BY <1>3, <1>5
    <2>3. sess' \in [Sessions -> [table: Tables \cup {None}, st: Statuses]]
        BY <1>4, <2>1, <2>2
    <2> QED
        BY <1>1, <2>3, SessionEnds
<1>7. CASE MoveUpdate(h)
    <2>1. \/ sess' = [sess EXCEPT ![req[h].sid].table = req[h].table]
          \/ UNCHANGED sess
        BY <1>7 DEF MoveUpdate
    <2>2. sess' \in [Sessions -> [table: Tables \cup {None}, st: Statuses]]
        BY <1>3, <1>4, <2>1
    <2> QED
        BY <1>1, <2>2, SessionEnds
<1>8. CASE UpdateClosed(h) \/ CollectSettle(h) \/ VoidReopen(h)
    <2>1. PICK st \in {"open", "closed", "paid"} :
              SetStatus(req[h].sid, st) \/ UNCHANGED sess
        BY <1>8 DEF UpdateClosed, CollectSettle, VoidReopen
    <2>2. sess' \in [Sessions -> [table: Tables \cup {None}, st: Statuses]]
        BY <1>3, <1>4, <1>5, <2>1, StatusType
    <2> QED
        BY <1>1, <2>2, SessionEnds
<1> QED
    BY <1>6, <1>7, <1>8

LEMMA CollectBillInv ==
    ASSUME Inv, NEW h \in Handlers, CollectBill(h)
    PROVE  Inv'
<1>1. req[h].sid \in Sessions \cup {None} /\ "bill" \in Statuses
      /\ "recheck" \in Pcs \ {"payment", "rows", "write", "reduce"}
    BY Fields DEF Request, Statuses, Active, Pcs
<1>2. /\ SetStatus(req[h].sid, "bill") \/ UNCHANGED sess
      /\ Goto(h, [req[h] EXCEPT !.pc = "recheck"])
      /\ UNCHANGED <<order, pays, allocated>>
    BY DEF CollectBill
<1>3. faults' \in 0 .. MaxFaults
    BY Fields, FaultType DEF CollectBill
<1>4. sess' \in [Sessions -> [table: Tables \cup {None}, st: Statuses]]
    BY <1>1, <1>2, StatusType DEF Inv, DbTypeOK
<1> QED
    BY <1>1, <1>2, <1>3, <1>4, GoOn, SessionStep

\* setBill is no request: the local variables stay.
LEMMA SetBillInv ==
    ASSUME Inv, NEW s \in Sessions, SetBill(s)
    PROVE  Inv'
<1>1. sess' \in [Sessions -> [table: Tables \cup {None}, st: Statuses]]
    BY StatusType DEF SetBill, Statuses, Active
<1>2. UNCHANGED <<order, pays, allocated, req, faults>>
    BY DEF SetBill
<1> QED
    BY <1>1, <1>2 DEF Inv, DbTypeOK, PaymentsOK, PaidWithinQuantity

-----------------------------------------------------------------------------
(* Steps that change orders *)

\* A step that changes orders and no payment: payments still know their lines.
LEMMA OrderStep ==
    ASSUME Inv, NEW h \in Handlers, NEW r \in Request, Goto(h, r), RequestOK(r, order'),
           order' \in Orders, OrdersStay(order, order'), PaidWithinQuantity',
           UNCHANGED <<sess, pays, allocated>>, faults' \in 0 .. MaxFaults
    PROVE  Inv'
<1>1. DbTypeOK'
    BY DEF Inv, DbTypeOK
<1>2. PaymentsOK'
    BY DEF Inv, PaymentsOK, OrdersStay
<1> QED
    BY <1>1, <1>2, StepKeeps

LEMMA InsertOrderInv ==
    ASSUME Inv, NEW h \in Handlers, InsertOrder(h)
    PROVE  Inv'
<1>1. req[h] \in Request /\ RequestOK(req[h], order) /\ "newLines" \in Pcs
      /\ order \in Orders /\ req[h].op \in {"order", "worder"}
    BY Fields DEF Inv, DbTypeOK, Pcs, InsertOrder, At
<1>2. PICK l \in Lines :
          /\ order[l].stage = "none"
          /\ order' = [order EXCEPT ![l] = [sid |-> req[h].sid, qty |-> req[h].qty,
                                            paid |-> 0, stage |-> "empty"]]
          /\ Goto(h, [req[h] EXCEPT !.pc = "newLines", !.ids = {l}])
    BY DEF InsertOrder
<1> DEFINE r == [req[h] EXCEPT !.pc = "newLines", !.ids = {l}]
<1>3. order' \in Orders
    BY <1>1, <1>2 DEF Orders, Request
<1>4. OrdersStay(order, order')
    BY <1>1, <1>2 DEF OrdersStay, Known, Orders
<1>5. PaidWithinQuantity'
    <2>1. req[h].qty >= 0
        BY <1>1, BoundsAreNat DEF Request, Quantities
    <2> QED
        BY <1>1, <1>2, <2>1, Fields DEF PaidWithinQuantity, Orders
<1>6. r \in Request /\ RequestOK(r, order)
    BY <1>1 DEF Request, RequestOK
<1> HIDE DEF r
<1>7. RequestOK(r, order')
    BY <1>4, <1>6, RequestStays
<1>8. UNCHANGED <<sess, pays, allocated>> /\ faults' \in 0 .. MaxFaults /\ Goto(h, r)
    BY <1>2, Fields DEF InsertOrder, r
<1> QED
    BY <1>3, <1>4, <1>5, <1>6, <1>7, <1>8, OrderStep

\* The stage of an order changes, nothing else of it.
LEMMA StageChange ==
    ASSUME Inv, NEW ids \in SUBSET Lines, NEW st \in {"line", "gone"},
           order' = [l \in Lines |-> IF l \in ids THEN [order[l] EXCEPT !.stage = st]
                                      ELSE order[l]]
    PROVE  /\ order' \in Orders
           /\ OrdersStay(order, order')
           /\ PaidWithinQuantity'
<1>1. order \in Orders
    BY DEF Inv, DbTypeOK
<1>2. ASSUME NEW l \in Lines
      PROVE  /\ order'[l] \in [sid: Sessions \cup {None}, qty: Quantities, paid: Nat,
                               stage: {"none", "empty", "line", "gone"}]
             /\ order'[l].qty = order[l].qty /\ order'[l].paid = order[l].paid
             /\ Known(order, l) => Known(order', l)
    BY <1>1 DEF Orders, Known
<1>3. order' \in Orders
    BY <1>2 DEF Orders
<1>4. PaidWithinQuantity'
    BY <1>2 DEF Inv, PaidWithinQuantity
<1>5. OrdersStay(order, order')
    BY <1>2 DEF OrdersStay
<1> QED
    BY <1>3, <1>4, <1>5

LEMMA OrderEnds ==
    ASSUME Inv, NEW h \in Handlers, InsertLines(h) \/ DeleteOrder(h)
    PROVE  Inv'
<1>1. req[h] \in Request /\ req[h].ids \in SUBSET Lines
    BY Fields DEF Request
<1>2. CASE End(h)
    <2>1. PICK st \in {"line", "gone"} :
              order' = [l \in Lines |-> IF l \in req[h].ids
                                         THEN [order[l] EXCEPT !.stage = st] ELSE order[l]]
        <3>1. \/ order' = [l \in Lines |-> IF l \in req[h].ids
                                            THEN [order[l] EXCEPT !.stage = "line"] ELSE order[l]]
              \/ order' = [l \in Lines |-> IF l \in req[h].ids
                                            THEN [order[l] EXCEPT !.stage = "gone"] ELSE order[l]]
              \/ Goto(h, [req[h] EXCEPT !.pc = "undo"]) /\ End(h)
            BY <1>2 DEF InsertLines, DeleteOrder
        <3>2. ~(Goto(h, [req[h] EXCEPT !.pc = "undo"]) /\ End(h))
            <4>1. req \in [Handlers -> Request] /\ Idle.pc = "idle"
                BY DEF Inv, Idle
            <4>2. [req[h] EXCEPT !.pc = "undo"].pc = "undo"
                BY <1>1 DEF Request
            <4> QED
                BY <4>1, <4>2 DEF Goto, End
        <3> QED
            BY <3>1, <3>2
    <2>2. UNCHANGED <<sess, pays, allocated>> /\ faults' \in 0 .. MaxFaults
        BY Fields, FaultType DEF InsertLines, DeleteOrder
    <2>3. order' \in Orders /\ OrdersStay(order, order') /\ PaidWithinQuantity'
        BY <1>1, <2>1, StageChange
    <2> QED
        BY <1>2, <2>2, <2>3, IdleOK, OrderStep DEF End
<1>3. CASE ~End(h)
    <2>1. /\ Goto(h, [req[h] EXCEPT !.pc = "undo"]) /\ UNCHANGED dbVars
          /\ faults' \in 0 .. MaxFaults
          /\ "undo" \in Pcs \ {"payment", "rows", "write", "reduce"}
        BY <1>3, FaultType DEF InsertLines, DeleteOrder, dbVars, Pcs
    <2> QED
        BY <2>1, GoOn, LocalStep
<1> QED
    BY <1>2, <1>3

\* paid_quantity is written: what was read plus what is paid fits the line.
LEMMA UpdatePaidInv ==
    ASSUME Inv, NEW h \in Handlers, NEW ops, UpdatePaid(h, ops)
    PROVE  Inv'
<1>1. req[h] \in Request /\ RequestOK(req[h], order) /\ req[h].pc = "write"
      /\ order \in Orders /\ req[h].todo \subseteq Lines
    BY Fields DEF Inv, DbTypeOK, UpdatePaid, At, Request
<1>2. PICK l \in req[h].todo :
          /\ order' = [order EXCEPT ![l].paid = req[h].seen[l] + req[h].ask[l]]
          /\ Goto(h, [req[h] EXCEPT !.todo = @ \ {l}])
    BY DEF UpdatePaid
<1> DEFINE r == [req[h] EXCEPT !.todo = @ \ {l}]
           x == req[h].seen[l] + req[h].ask[l]
<1>3. l \in Lines /\ x \in Nat /\ x <= order[l].qty
    <2>1. req[h].seen[l] \in Nat /\ req[h].ask[l] \in Nat
        BY <1>1 DEF Request
    <2> QED
        BY <1>1, <2>1 DEF RequestOK
<1> HIDE DEF x
<1>4. order' = [order EXCEPT ![l].paid = x]
    BY <1>2 DEF x
<1>5. order' \in Orders
    BY <1>1, <1>3, <1>4 DEF Orders
<1>6. OrdersStay(order, order') /\ PaidWithinQuantity'
    BY <1>1, <1>3, <1>4, Fields DEF OrdersStay, Known, Orders, PaidWithinQuantity
<1>7. r \in Request /\ RequestOK(r, order)
    BY <1>1, <1>3, FewerLines
<1> HIDE DEF r
<1>8. RequestOK(r, order')
    BY <1>6, <1>7, RequestStays
<1>9. UNCHANGED <<sess, pays, allocated>> /\ faults' \in 0 .. MaxFaults /\ Goto(h, r)
    BY <1>2, Fields DEF UpdatePaid, r
<1> QED
    BY <1>5, <1>6, <1>7, <1>8, <1>9, OrderStep

\* A void writes less than it has read, and never less than nothing.
LEMMA VoidWriteInv ==
    ASSUME Inv, NEW h \in Handlers, VoidWrite(h)
    PROVE  Inv'
<1> DEFINE q == req[h]
           r == [q EXCEPT !.pc = "takeback", !.todo = @ \ q.ids]
           less(l) == Less(q.seen[l], q.ask[l])
<1>1. q \in Request /\ RequestOK(q, order) /\ q.pc = "reduce" /\ q.op = "void"
      /\ order \in Orders /\ "takeback" \in Pcs
    BY Fields DEF Inv, DbTypeOK, VoidWrite, At, Pcs
<1>2. order' = [l \in Lines |-> IF l \in q.ids THEN [order[l] EXCEPT !.paid = less(l)]
                                  ELSE order[l]]
      /\ Goto(h, r)
    BY DEF VoidWrite
<1>3. ASSUME NEW l \in Lines
      PROVE  /\ less(l) \in Nat
             /\ l \in q.ids => less(l) <= order[l].qty
    <2>1. q.seen[l] \in Nat /\ q.ask[l] \in Nat /\ order[l].qty \in Int
        BY <1>1, BoundsAreNat DEF Request, Orders, Quantities
    <2>2. less(l) \in Nat /\ less(l) <= q.seen[l]
        BY <2>1 DEF Less
    <2> QED
        BY <1>1, <2>1, <2>2 DEF RequestOK
<1> HIDE DEF less
<1>4. ASSUME NEW l \in Lines
      PROVE  /\ order'[l] \in [sid: Sessions \cup {None}, qty: Quantities, paid: Nat,
                               stage: {"none", "empty", "line", "gone"}]
             /\ order'[l].qty = order[l].qty /\ order'[l].paid <= order[l].qty
             /\ Known(order, l) => Known(order', l)
    BY <1>1, <1>2, <1>3, Fields DEF Orders, Known
<1>5. order' \in Orders
    BY <1>2, <1>4 DEF Orders
<1>6. OrdersStay(order, order') /\ PaidWithinQuantity'
    BY <1>4 DEF OrdersStay, PaidWithinQuantity
<1>7. r \in Request /\ RequestOK(r, order)
    BY <1>1 DEF Request, RequestOK
<1>8. UNCHANGED <<sess, pays, allocated>> /\ faults' \in 0 .. MaxFaults
    BY Fields DEF VoidWrite
<1> HIDE DEF r, q
<1>9. RequestOK(r, order')
    BY <1>6, <1>7, RequestStays
<1> QED
    BY <1>2, <1>5, <1>6, <1>7, <1>8, <1>9, OrderStep

-----------------------------------------------------------------------------
(* Steps that change payments *)

PaymentRow == [st: {"none", "paid", "refunded", "deleted"},
               sid: Sessions \cup {None}, rows: [Lines -> Nat]]

\* What PaymentsOK says of one payment.
RowOK(w) ==
    /\ w \in PaymentRow
    /\ w.st = "paid" => w.sid \in Sessions
    /\ \A l \in Lines : w.rows[l] > 0 => Known(order, l)

\* A step of one request that changes one payment.
LEMMA PaymentStep ==
    ASSUME Inv, NEW h \in Handlers, NEW r \in Request, Goto(h, r), RequestOK(r, order),
           NEW p \in Payments, NEW w, RowOK(w), pays' = [pays EXCEPT ![p] = w],
           allocated' \in [Lines -> Int], UNCHANGED <<sess, order, faults>>
    PROVE  Inv'
<1>1. pays \in [Payments -> PaymentRow] /\ w \in PaymentRow
    BY DEF Inv, DbTypeOK, PaymentRow, RowOK
<1>2. pays' \in [Payments -> PaymentRow]
    BY <1>1
<1>3. DbTypeOK'
    BY <1>2 DEF Inv, DbTypeOK, PaymentRow
<1>4. ASSUME NEW o \in Payments
      PROVE  /\ pays'[o].st = "paid" => pays'[o].sid \in Sessions
             /\ \A l \in Lines : pays'[o].rows[l] > 0 => Known(order, l)
    <2>1. CASE o = p
        BY <1>1, <2>1 DEF RowOK
    <2>2. CASE o # p
        BY <1>1, <2>2 DEF Inv, PaymentsOK
    <2> QED
        BY <2>1, <2>2
<1>5. order' = order /\ PaymentsOK' /\ PaidWithinQuantity' /\ OrdersStay(order, order')
    BY <1>4 DEF Inv, PaymentsOK, PaidWithinQuantity, OrdersStay, Known
<1> QED
    BY <1>3, <1>5, StepKeeps

\* A payment as it is stored.
LEMMA RowStored ==
    ASSUME Inv, NEW p \in Payments
    PROVE  RowOK(pays[p])
BY DEF Inv, DbTypeOK, PaymentsOK, PaymentRow, RowOK

LEMMA InsertPaymentInv ==
    ASSUME Inv, NEW h \in Handlers, InsertPayment(h, {"pay"}) \/ InsertPayment(h, {"wpay"})
    PROVE  Inv'
<1>1. req[h] \in Request /\ RequestOK(req[h], order) /\ req[h].op \in {"pay", "wpay"}
      /\ req[h].pc = "payment" /\ "rows" \in Pcs
    BY Fields DEF InsertPayment, At, Pcs
<1>2. PICK p \in Payments :
          /\ pays' = [pays EXCEPT ![p] = [st |-> "paid", sid |-> req[h].sid, rows |-> NoRows]]
          /\ Goto(h, [req[h] EXCEPT !.pc = "rows", !.pay = p])
    BY DEF InsertPayment
<1> DEFINE w == [st |-> "paid", sid |-> req[h].sid, rows |-> NoRows]
           r == [req[h] EXCEPT !.pc = "rows", !.pay = p]
<1>3. req[h].sid \in Sessions
    BY <1>1 DEF RequestOK
<1>4. NoRows \in [Lines -> Nat] /\ \A l \in Lines : NoRows[l] = 0
    BY DEF NoRows
<1>5. RowOK(w)
    BY <1>3, <1>4 DEF RowOK, PaymentRow
<1>6. r \in Request /\ RequestOK(r, order)
    BY <1>1 DEF Request, RequestOK
<1>7. UNCHANGED <<sess, order, faults>> /\ allocated' \in [Lines -> Int]
    BY DEF InsertPayment, Inv, DbTypeOK
<1> HIDE DEF w, r
<1>8. pays' = [pays EXCEPT ![p] = w] /\ Goto(h, r)
    BY <1>2 DEF w, r
<1> QED
    BY <1>5, <1>6, <1>7, <1>8, PaymentStep

\* A change of a payment that was not inserted is none.
LEMMA NoPayment ==
    ASSUME Inv, NEW h \in Handlers, req[h].pay \notin Payments
    PROVE  /\ \A x : [pays EXCEPT ![req[h].pay].rows = x] = pays
           /\ \A x : [pays EXCEPT ![req[h].pay].st = x] = pays
BY DEF Inv, DbTypeOK

LEMMA InsertRowsInv ==
    ASSUME Inv, NEW h \in Handlers, InsertRows(h, {"pay"}) \/ InsertRows(h, {"wpay"})
    PROVE  Inv'
<1> DEFINE p == req[h].pay
           r == [req[h] EXCEPT !.pc = "write"]
           w == [pays[p] EXCEPT !.rows = req[h].ask]
<1>1. req[h] \in Request /\ RequestOK(req[h], order) /\ req[h].pc = "rows" /\ "write" \in Pcs
    BY Fields DEF InsertRows, At, Pcs
<1>2. /\ pays' = [pays EXCEPT ![p].rows = req[h].ask]
      /\ allocated' = [l \in Lines |-> allocated[l] + req[h].ask[l]]
      /\ Goto(h, r) /\ UNCHANGED <<sess, order, faults>>
    BY DEF InsertRows
<1>3. req[h].ask \in [Lines -> Nat] /\ \A l \in Lines : req[h].ask[l] > 0 => Known(order, l)
    BY <1>1 DEF Request, RequestOK, Concerned
<1>4. allocated' \in [Lines -> Int]
    BY <1>2, <1>3 DEF Inv, DbTypeOK
<1>5. r \in Request /\ RequestOK(r, order)
    BY <1>1 DEF Request, RequestOK
<1>6. CASE p \in Payments
    <2>1. RowOK(pays[p])
        BY <1>6, RowStored
    <2>2. RowOK(w)
        BY <1>3, <2>1 DEF RowOK, PaymentRow
    <2>3. pays' = [pays EXCEPT ![p] = w]
        BY <1>2, <1>6 DEF Inv, DbTypeOK
    <2> HIDE DEF w, r
    <2> QED
        BY <1>2, <1>4, <1>5, <1>6, <2>2, <2>3, PaymentStep
<1>7. CASE p \notin Payments
    <2>1. pays' = pays
        BY <1>2, <1>7, NoPayment
    <2>2. order' = order /\ DbTypeOK' /\ PaymentsOK' /\ PaidWithinQuantity'
          /\ OrdersStay(order, order')
        BY <1>2, <1>4, <2>1 DEF Inv, DbTypeOK, PaymentsOK, PaidWithinQuantity, Known, OrdersStay
    <2> HIDE DEF r
    <2> QED
        BY <1>2, <1>5, <2>2, StepKeeps
<1> QED
    BY <1>6, <1>7

\* The status of a payment, or its rows, are taken back.
LEMMA PaymentGoes ==
    ASSUME Inv, NEW h \in Handlers, DeletePayment(h) \/ VoidDeleteRows(h) \/ VoidRefund(h)
    PROVE  Inv'
<1> DEFINE p == req[h].pay
           w1 == [pays[p] EXCEPT !.st = "deleted"]
           w2 == [pays[p] EXCEPT !.rows = NoRows]
           w3 == [pays[p] EXCEPT !.st = "refunded"]
<1>1. req[h] \in Request /\ RequestOK(req[h], order)
      /\ {"refund", "session"} \subseteq Pcs \ {"payment", "rows", "write", "reduce"}
      /\ pays \in [Payments -> PaymentRow] /\ allocated \in [Lines -> Int]
    BY Fields DEF Pcs, Inv, DbTypeOK, PaymentRow
<1>2. CASE VoidDeleteRows(h)
    <2>1. p \in Payments
        BY <1>1, <1>2 DEF VoidDeleteRows, At, RequestOK
    <2>2. RowOK(pays[p]) /\ NoRows \in [Lines -> Nat] /\ \A l \in Lines : NoRows[l] = 0
        BY <2>1, RowStored DEF NoRows
    <2>3. RowOK(w2)
        BY <2>2 DEF RowOK, PaymentRow
    <2>4. pays' = [pays EXCEPT ![p] = w2] /\ UNCHANGED <<sess, order, faults>>
          /\ Goto(h, [req[h] EXCEPT !.pc = "refund"])
        BY <1>1, <1>2, <2>1 DEF VoidDeleteRows
    <2>5. allocated' \in [Lines -> Int]
        <3>1. \A l \in Lines : allocated[l] \in Int /\ pays[p].rows[l] \in Int
            BY <1>1, <2>1, Fields
        <3> QED
            BY <1>2, <3>1 DEF VoidDeleteRows
    <2> HIDE DEF w2
    <2> QED
        BY <1>1, <2>1, <2>3, <2>4, <2>5, GoOn, PaymentStep
<1>3. CASE VoidRefund(h)
    <2>1. p \in Payments
        BY <1>1, <1>3 DEF VoidRefund, At, RequestOK
    <2>2. RowOK(w3)
        BY <2>1, RowStored DEF RowOK, PaymentRow
    <2>3. pays' = [pays EXCEPT ![p] = w3] /\ UNCHANGED <<sess, order, faults>>
          /\ Goto(h, [req[h] EXCEPT !.pc = "session"]) /\ allocated' \in [Lines -> Int]
        BY <1>1, <1>3, <2>1 DEF VoidRefund
    <2> HIDE DEF w3
    <2> QED
        BY <1>1, <2>1, <2>2, <2>3, GoOn, PaymentStep
<1>4. CASE DeletePayment(h)
    <2>1. UNCHANGED <<sess, order, faults>> /\ allocated' \in [Lines -> Int] /\ End(h)
          /\ pays' = [pays EXCEPT ![p].st = "deleted"]
        BY <1>1, <1>4 DEF DeletePayment
    <2>2. CASE p \in Payments
        <3>1. RowOK(w1)
            BY <2>2, RowStored DEF RowOK, PaymentRow
        <3>2. pays' = [pays EXCEPT ![p] = w1]
            BY <1>1, <2>1, <2>2
        <3> HIDE DEF w1
        <3> QED
            BY <2>1, <2>2, <3>1, <3>2, IdleOK, PaymentStep DEF End
    <2>3. CASE p \notin Payments
        <3>1. pays' = pays
            BY <2>1, <2>3, NoPayment
        <3>2. UNCHANGED dbVars /\ faults' \in 0 .. MaxFaults
            BY <1>4, <2>1, <3>1, Fields DEF dbVars, DeletePayment
        <3> QED
            BY <2>1, <3>2, EndStep
    <2> QED
        BY <2>2, <2>3
<1> QED
    BY <1>2, <1>3, <1>4

-----------------------------------------------------------------------------
(* The theorems *)

LEMMA InitInv ==
    ASSUME Init
    PROVE  Inv
<1>1. NoRows \in [Lines -> Nat] /\ \A l \in Lines : NoRows[l] = 0
    BY DEF NoRows
<1> QED
    BY <1>1, IdleOK, BoundsAreNat
    DEF Init, TablesInit, Inv, DbTypeOK, Orders, Quantities, Statuses, PaymentsOK,
        PaidWithinQuantity

LEMMA NextInv ==
    ASSUME Inv, Next
    PROVE  Inv'
<1>1. PICK h \in Handlers : SharedStep(h) \/ NestStep(h) \/ WebStep(h)
    BY DEF Next
<1>2. CASE SharedStep(h)
    BY <1>2, SessionWrites, InsertOrderInv, OrderEnds, CollectFails DEF SharedStep
<1>3. CASE Seating(h)
    BY <1>3, OpenBegins, ReleaseBegins, MoveBegins, OrderBegins, SetBillInv, MoveLookInv,
       SessionWrites
    DEF Seating
<1>4. CASE Collecting(h)
    BY <1>4, CollectBegins, SelectOrdersInv, CollectLinesInv, InsertPaymentInv,
       InsertRowsInv, CollectFails, UpdatePaidInv, CollectBillInv, Looks, SessionWrites
    DEF Collecting
<1>5. CASE WebCollecting(h)
    BY <1>5, CollectBegins, SelectOrdersInv, CollectLinesInv, InsertPaymentInv,
       InsertRowsInv, CollectFails, PaymentGoes, UpdatePaidInv, Looks
    DEF WebCollecting
<1>6. CASE Voiding(h)
    BY <1>6, VoidBegins, VoidAllocsInv, VoidReadInv, VoidWriteInv, PaymentGoes,
       VoidSessionInv, Looks, SessionWrites
    DEF Voiding
<1>7. CASE WebStep(h) /\ ~WebCollecting(h) /\ ~Voiding(h)
    BY <1>7, OpenBegins, OrderBegins, CollectBegins, SelectOrdersInv, Looks DEF WebStep
<1> QED
    BY <1>1, <1>2, <1>3, <1>4, <1>5, <1>6, <1>7 DEF NestStep

LEMMA Stutter ==
    ASSUME Inv, UNCHANGED tableVars
    PROVE  Inv'
BY DEF Inv, tableVars, dbVars, DbTypeOK, PaymentsOK, PaidWithinQuantity

\* The inductive invariant.
THEOREM Invariance == Spec => []Inv
<1>1. Init => Inv
    BY InitInv
<1>2. Inv /\ [Next]_tableVars => Inv'
    BY NextInv, Stutter
<1> QED
    BY <1>1, <1>2, PTL DEF Spec

\* Types of the tables and of the requests in flight.
THEOREM TypeCorrect == Spec => []TypeOK
<1>1. Inv => TypeOK
    BY DEF Inv, DbTypeOK, Orders, TypeOK, TablesTypeOK
<1> QED
    BY <1>1, Invariance, PTL

\* No interleaving of collects and voids of both servers, and no failure,
\* makes a write of paid_quantity exceed the quantity of the line: the check
\* constraint of the database never refuses one.
THEOREM NeverOverpaid == Spec => []PaidWithinQuantity
<1>1. Inv => PaidWithinQuantity
    BY DEF Inv
<1> QED
    BY <1>1, Invariance, PTL

-----------------------------------------------------------------------------
(* What is shown as paid was allocated, without voids *)

\* What a payment in flight has read was backed, and what it will write is
\* backed by its own rows; a is some value of allocated.
Backed(r, a) ==
    /\ r.pc \in {"payment", "rows"} => \A l \in r.todo : r.seen[l] <= a[l]
    /\ r.pc = "write" => \A l \in r.todo : r.seen[l] + r.ask[l] <= a[l]

BackedInv == PaidIsBacked /\ \A h \in Handlers : Backed(req[h], allocated)

\* Allocations only grow, so a step of one request leaves the others backed.
LEMMA BackedStep ==
    ASSUME Inv, BackedInv, NEW h \in Handlers, NEW r, Goto(h, r), Backed(r, allocated'),
           \A l \in Lines : allocated[l] <= allocated'[l], allocated' \in [Lines -> Int],
           PaidIsBacked'
    PROVE  BackedInv'
<1>1. req \in [Handlers -> Request] /\ req' = [req EXCEPT ![h] = r]
    BY DEF Inv, Goto
<1>2. ASSUME NEW g \in Handlers
      PROVE  Backed(req'[g], allocated')
    <2>1. CASE g = h
        BY <1>1, <2>1
    <2>2. CASE g # h
        <3>1. req'[g] = req[g] /\ req[g] \in Request /\ Backed(req[g], allocated)
            BY <1>1, <2>2 DEF BackedInv
        <3>2. req[g].todo \subseteq Lines
              /\ \A l \in Lines : req[g].seen[l] \in Nat /\ req[g].ask[l] \in Nat
            BY <3>1 DEF Request
        <3>3. \A l \in Lines : allocated[l] \in Int /\ allocated'[l] \in Int
            BY DEF Inv, DbTypeOK
        <3> QED
            BY <3>1, <3>2, <3>3 DEF Backed
    <2> QED
        BY <2>1, <2>2
<1> QED
    BY <1>2 DEF BackedInv

\* Most steps touch neither what is paid nor what is allocated.
LEMMA BackedCalm ==
    ASSUME Inv, BackedInv, NEW h \in Handlers, NEW r, Goto(h, r),
           r.pc \notin {"payment", "rows", "write"},
           allocated' = allocated, \A l \in Lines : order'[l].paid <= order[l].paid,
           order' \in Orders
    PROVE  BackedInv'
<1>1. \A l \in Lines : /\ allocated[l] \in Int /\ order[l].paid \in Int
                       /\ order'[l].paid \in Int /\ order[l].paid <= allocated[l]
    BY DEF Inv, DbTypeOK, Orders, BackedInv, PaidIsBacked
<1>2. PaidIsBacked' /\ allocated' \in [Lines -> Int]
    BY <1>1 DEF PaidIsBacked, Inv, DbTypeOK
<1>3. Backed(r, allocated')
    BY DEF Backed
<1>4. \A l \in Lines : allocated[l] <= allocated'[l]
    BY <1>1
<1> QED
    BY <1>2, <1>3, <1>4, BackedStep

\* The steps of a request that are not those of a payment.
CalmPcs == Pcs \ {"payment", "rows", "write"}

LEMMA BackedGoto ==
    ASSUME Inv, BackedInv, NEW h \in Handlers, NEW r, Goto(h, r), r.pc \in CalmPcs,
           UNCHANGED <<order, allocated>>
    PROVE  BackedInv'
<1>1. order' \in Orders /\ \A l \in Lines : order'[l].paid <= order[l].paid
    BY DEF Inv, DbTypeOK, Orders
<1> QED
    BY <1>1, BackedCalm DEF CalmPcs

LEMMA BackedEnd ==
    ASSUME Inv, BackedInv, NEW h \in Handlers, End(h), UNCHANGED <<order, allocated>>
    PROVE  BackedInv'
BY BackedGoto DEF End, Idle, CalmPcs, Pcs

LEMMA BackedBegins ==
    ASSUME Inv, BackedInv, NEW h \in Handlers,
           \/ \E t \in Tables : Open(h, t) \/ WebOpen(h, t)
           \/ \E s \in Sessions : Release(h, s) \/ Collect(h, s) \/ WebCollect(h, s)
                                    \/ WebClose(h, s)
           \/ \E s \in Sessions, t \in Tables : Move(h, s, t)
           \/ \E s \in Sessions, q \in 1 .. MaxQty : Order(h, s, q) \/ WebOrder(h, s, q)
    PROVE  BackedInv'
<1>1. UNCHANGED <<order, allocated>>
    BY DEF Open, WebOpen, Release, Collect, WebCollect, WebClose, Move, Order, WebOrder, dbVars
<1> DEFINE o(op, t) == [Idle EXCEPT !.op = op, !.pc = "insert", !.table = t]
           c(op, pc, s) == [Idle EXCEPT !.op = op, !.pc = pc, !.sid = s]
           m(s, t) == [Idle EXCEPT !.op = "move", !.pc = "occupied", !.sid = s, !.table = t]
           n(op, s, q) == [Idle EXCEPT !.op = op, !.pc = "newOrder", !.sid = s, !.qty = q]
<1>2. \A op, t : o(op, t).pc = "insert"
    BY DEF Idle
<1>3. \A op, pc, s : c(op, pc, s).pc = pc
    BY DEF Idle
<1>4. \A s, t : m(s, t).pc = "occupied"
    BY DEF Idle
<1>5. \A op, s, q : n(op, s, q).pc = "newOrder"
    BY DEF Idle
<1>6. \/ \E op, t : Goto(h, o(op, t))
      \/ \E op, s : Goto(h, c(op, "close", s)) \/ Goto(h, c(op, "orders", s))
      \/ \E s, t : Goto(h, m(s, t))
      \/ \E op, s, q : Goto(h, n(op, s, q))
    BY Zenon DEF Open, WebOpen, Release, Collect, WebCollect, WebClose, Move, Order,
                 WebOrder, Begin
<1> HIDE DEF o, c, m, n
<1>7. {"insert", "close", "orders", "occupied", "newOrder"} \subseteq CalmPcs
    BY DEF CalmPcs, Pcs
<1> QED
    BY <1>1, <1>2, <1>3, <1>4, <1>5, <1>6, <1>7, BackedGoto

LEMMA BackedPc ==
    ASSUME Inv, BackedInv, NEW h \in Handlers, NEW pc \in CalmPcs,
           Goto(h, [req[h] EXCEPT !.pc = pc]), UNCHANGED <<order, allocated>>
    PROVE  BackedInv'
<1>1. req[h] \in Request
    BY Fields
<1>2. [req[h] EXCEPT !.pc = pc].pc = pc
    BY <1>1 DEF Request
<1> QED
    BY <1>2, BackedGoto

\* Steps that go on elsewhere or end, and change sessions or payments at most.
LEMMA BackedCalmSteps ==
    ASSUME Inv, BackedInv, NEW h \in Handlers,
           \/ InsertSession(h) \/ UpdateClosed(h) \/ Vanish(h)
           \/ MoveLook(h) \/ MoveUpdate(h) \/ CollectRowsFail(h) \/ CollectBill(h)
           \/ CollectRecheck(h) \/ CollectSettle(h)
           \/ WebRowsFail(h) \/ DeletePayment(h) \/ WebCollected(h) \/ WebCloseLines(h)
    PROVE  BackedInv'
<1>1. UNCHANGED <<order, allocated>>
    BY DEF InsertSession, UpdateClosed, Vanish, MoveLook, MoveUpdate, CollectRowsFail,
           CollectBill, CollectRecheck, CollectSettle, WebRowsFail, DeletePayment,
           WebCollected, WebCloseLines, dbVars
<1>2. \/ End(h)
      \/ Goto(h, [req[h] EXCEPT !.pc = "move"]) \/ Goto(h, [req[h] EXCEPT !.pc = "recheck"])
      \/ Goto(h, [req[h] EXCEPT !.pc = "settle"]) \/ Goto(h, [req[h] EXCEPT !.pc = "unpay"])
      \/ Goto(h, [req[h] EXCEPT !.pc = "close"])
    BY DEF InsertSession, UpdateClosed, Vanish, MoveLook, MoveUpdate, CollectRowsFail,
           CollectBill, CollectRecheck, CollectSettle, WebRowsFail, DeletePayment,
           WebCollected, WebCloseLines
<1>3. {"move", "recheck", "settle", "unpay", "close"} \subseteq CalmPcs
    BY DEF CalmPcs, Pcs
<1> QED
    BY <1>1, <1>2, <1>3, BackedPc, BackedEnd

LEMMA BackedSelect ==
    ASSUME Inv, BackedInv, NEW h \in Handlers, NEW ops, SelectOrders(h, ops)
    PROVE  BackedInv'
<1> DEFINE r == [req[h] EXCEPT !.pc = "lines", !.ids = OrdersOf(req[h].sid)]
<1>1. req[h] \in Request
    BY Fields
<1>2. r.pc = "lines"
    BY <1>1 DEF Request
<1>3. Goto(h, r) /\ UNCHANGED <<order, allocated>>
    BY DEF SelectOrders, dbVars
<1> HIDE DEF r
<1> QED
    BY <1>2, <1>3, BackedGoto DEF CalmPcs, Pcs

LEMMA BackedOrders ==
    ASSUME Inv, BackedInv, NEW h \in Handlers,
           InsertOrder(h) \/ InsertLines(h) \/ DeleteOrder(h)
    PROVE  BackedInv'
<1>1. order \in Orders /\ order' \in Orders /\ req[h] \in Request /\ allocated' = allocated
    <2>1. Inv'
        BY InsertOrderInv, OrderEnds
    <2> QED
        BY <2>1, Fields DEF Inv, DbTypeOK, InsertOrder, InsertLines, DeleteOrder
<1>2. CASE InsertOrder(h)
    <2>1. PICK l \in Lines :
              /\ order' = [order EXCEPT ![l] = [sid |-> req[h].sid, qty |-> req[h].qty,
                                                paid |-> 0, stage |-> "empty"]]
              /\ Goto(h, [req[h] EXCEPT !.pc = "newLines", !.ids = {l}])
        BY <1>2 DEF InsertOrder
    <2> DEFINE r == [req[h] EXCEPT !.pc = "newLines", !.ids = {l}]
    <2>2. r.pc = "newLines"
        BY <1>1 DEF Request
    <2>3. \A k \in Lines : order'[k].paid <= order[k].paid
        BY <1>1, <2>1 DEF Orders
    <2>4. Goto(h, r)
        BY <2>1
    <2> HIDE DEF r
    <2> QED
        BY <1>1, <2>2, <2>3, <2>4, BackedCalm
<1>3. CASE InsertLines(h) \/ DeleteOrder(h)
    <2>1. End(h) \/ Goto(h, [req[h] EXCEPT !.pc = "undo"])
        BY <1>3 DEF InsertLines, DeleteOrder
    <2>2. [req[h] EXCEPT !.pc = "undo"].pc = "undo" /\ Idle.pc = "idle"
        BY <1>1 DEF Request, Idle
    <2>3. ASSUME NEW l \in Lines
          PROVE  order'[l].paid <= order[l].paid
        BY <1>1, <1>3 DEF InsertLines, DeleteOrder, Orders
    <2> QED
        BY <1>1, <2>1, <2>2, <2>3, BackedCalm DEF End
<1> QED
    BY <1>2, <1>3

\* What is read is backed ...
LEMMA BackedLines ==
    ASSUME Inv, BackedInv, NEW h \in Handlers, CollectLines(h) \/ WebCollectLines(h)
    PROVE  BackedInv'
<1>1. UNCHANGED <<order, allocated>> /\ allocated \in [Lines -> Int]
    BY DEF CollectLines, WebCollectLines, dbVars, Inv, DbTypeOK
<1>2. CASE End(h)
    BY <1>1, <1>2, BackedEnd
<1>3. CASE ~End(h)
    <2> DEFINE seen == [l \in Lines |-> order[l].paid]
               r(ask) == [req[h] EXCEPT !.pc = "payment", !.ask = ask, !.seen = seen,
                              !.todo = Concerned(ask)]
    <2>1. PICK ask \in Parts : Goto(h, r(ask))
        BY <1>3 DEF CollectLines, WebCollectLines
    <2>2. \A l \in Lines : seen[l] = order[l].paid
        OBVIOUS
    <2> HIDE DEF seen
    <2>3. req[h] \in Request
        BY Fields
    <2>4. r(ask).pc = "payment" /\ r(ask).todo = Concerned(ask) /\ r(ask).seen = seen
        BY <2>3 DEF Request
    <2> HIDE DEF r
    <2>5. Backed(r(ask), allocated')
        BY <1>1, <2>2, <2>4 DEF Backed, BackedInv, PaidIsBacked, Concerned
    <2>6. PaidIsBacked' /\ \A l \in Lines : allocated[l] <= allocated'[l]
        BY <1>1 DEF BackedInv, PaidIsBacked
    <2> QED
        BY <1>1, <2>1, <2>5, <2>6, BackedStep
<1> QED
    BY <1>2, <1>3

\* ... and stays so while the payment is inserted.
LEMMA BackedPayment ==
    ASSUME Inv, BackedInv, NEW h \in Handlers,
           InsertPayment(h, {"pay"}) \/ InsertPayment(h, {"wpay"})
    PROVE  BackedInv'
<1>1. UNCHANGED <<order, allocated>> /\ allocated \in [Lines -> Int] /\ req[h] \in Request
      /\ req[h].pc = "payment" /\ Backed(req[h], allocated)
    BY Fields DEF InsertPayment, Inv, DbTypeOK, At, BackedInv
<1>2. PICK p \in Payments : Goto(h, [req[h] EXCEPT !.pc = "rows", !.pay = p])
    BY DEF InsertPayment
<1> DEFINE r == [req[h] EXCEPT !.pc = "rows", !.pay = p]
<1>3. r.pc = "rows" /\ r.todo = req[h].todo /\ r.seen = req[h].seen
    BY <1>1 DEF Request
<1>4. Goto(h, r)
    BY <1>2
<1> HIDE DEF r
<1>5. Backed(r, allocated')
    BY <1>1, <1>3 DEF Backed
<1>6. PaidIsBacked' /\ \A l \in Lines : allocated[l] <= allocated'[l]
    BY <1>1 DEF BackedInv, PaidIsBacked
<1> QED
    BY <1>1, <1>4, <1>5, <1>6, BackedStep

\* The rows back what will be written.
LEMMA BackedRows ==
    ASSUME Inv, BackedInv, NEW h \in Handlers, InsertRows(h, {"pay"}) \/ InsertRows(h, {"wpay"})
    PROVE  BackedInv'
<1> DEFINE q == req[h]
           r == [q EXCEPT !.pc = "write"]
<1>1. q \in Request /\ q.pc = "rows" /\ Backed(q, allocated) /\ order' = order
      /\ allocated' = [l \in Lines |-> allocated[l] + q.ask[l]] /\ Goto(h, r)
    BY Fields DEF InsertRows, At, BackedInv
<1>2. \A l \in Lines : q.ask[l] \in Nat /\ q.seen[l] \in Nat /\ allocated[l] \in Int
                       /\ order[l].paid \in Nat /\ order[l].paid <= allocated[l]
    BY <1>1, Fields DEF Request, Inv, DbTypeOK, BackedInv, PaidIsBacked
<1>3. r.pc = "write" /\ r.todo = q.todo /\ r.seen = q.seen /\ r.ask = q.ask
      /\ q.todo \subseteq Lines
    BY <1>1 DEF Request
<1> HIDE DEF q, r
<1>4. allocated' \in [Lines -> Int] /\ \A l \in Lines : allocated[l] <= allocated'[l]
    BY <1>1, <1>2
<1>5. Backed(r, allocated')
    BY <1>1, <1>2, <1>3 DEF Backed
<1>6. PaidIsBacked'
    BY <1>1, <1>2, <1>4 DEF PaidIsBacked
<1> QED
    BY <1>1, <1>4, <1>5, <1>6, BackedStep

\* What is written is backed, however stale what was read is by now.
LEMMA BackedWrite ==
    ASSUME Inv, BackedInv, NEW h \in Handlers,
           UpdatePaid(h, {"pay"}) \/ UpdatePaid(h, {"wpay"}) \/ CollectWriteFails(h)
    PROVE  BackedInv'
<1> DEFINE q == req[h]
<1>1. q \in Request /\ q.pc = "write" /\ Backed(q, allocated) /\ q.todo \subseteq Lines
      /\ allocated' = allocated /\ allocated \in [Lines -> Int] /\ order \in Orders
    BY Fields DEF UpdatePaid, CollectWriteFails, At, BackedInv, Request, dbVars, Inv, DbTypeOK
<1>2. PICK l \in q.todo :
          /\ Goto(h, [q EXCEPT !.todo = @ \ {l}])
          /\ \/ order' = [order EXCEPT ![l].paid = q.seen[l] + q.ask[l]]
             \/ order' = order
    BY DEF UpdatePaid, CollectWriteFails, dbVars
<1> DEFINE r == [q EXCEPT !.todo = @ \ {l}]
           x == q.seen[l] + q.ask[l]
<1>3. r.pc = "write" /\ r.todo = q.todo \ {l} /\ r.seen = q.seen /\ r.ask = q.ask
    BY <1>1 DEF Request
<1>4. Goto(h, r) /\ (order' = [order EXCEPT ![l].paid = x] \/ order' = order)
    BY <1>2
<1>5. l \in Lines /\ x <= allocated[l]
    BY <1>1 DEF Backed
<1> HIDE DEF q, r, x
<1>6. Backed(r, allocated')
    BY <1>1, <1>3 DEF Backed
<1>7. PaidIsBacked'
    BY <1>1, <1>4, <1>5 DEF PaidIsBacked, BackedInv, Orders
<1>8. \A k \in Lines : allocated[k] <= allocated'[k]
    BY <1>1
<1> QED
    BY <1>1, <1>4, <1>6, <1>7, <1>8, BackedStep

LEMMA BackedSetBill ==
    ASSUME Inv, BackedInv, NEW s \in Sessions, SetBill(s)
    PROVE  BackedInv'
BY DEF SetBill, BackedInv, PaidIsBacked, Backed

\* Without the operation no request is a void.
LEMMA NoVoid ==
    ASSUME Inv, "void" \notin Ops, NEW h \in Handlers
    PROVE  ~Voiding(h)
<1>1. req[h].op # "void"
    BY Fields DEF Request
<1>2. \A p \in Payments : ~Void(h, p)
    BY DEF Void, Begin, MayBegin, Idle
<1> QED
    BY <1>1, <1>2 DEF Voiding, VoidAllocs, VoidRead, VoidWrite, VoidDeleteRows, VoidRefund,
       VoidSession, VoidOther, VoidReopen, At

LEMMA BackedNext ==
    ASSUME Inv, BackedInv, "void" \notin Ops, Next
    PROVE  BackedInv'
<1>1. PICK h \in Handlers : SharedStep(h) \/ NestStep(h) \/ WebStep(h)
    BY DEF Next
<1>2. CASE SharedStep(h)
    BY <1>2, BackedCalmSteps, BackedOrders DEF SharedStep
<1>3. CASE Seating(h)
    BY <1>3, BackedBegins, BackedSetBill, BackedCalmSteps DEF Seating
<1>4. CASE Collecting(h)
    BY <1>4, BackedBegins, BackedSelect, BackedLines, BackedPayment, BackedRows, BackedWrite,
       BackedCalmSteps
    DEF Collecting
<1>5. CASE WebCollecting(h)
    BY <1>5, BackedBegins, BackedSelect, BackedLines, BackedPayment, BackedRows, BackedWrite,
       BackedCalmSteps
    DEF WebCollecting
<1>6. CASE WebStep(h) /\ ~WebCollecting(h)
    BY <1>6, NoVoid, BackedBegins, BackedSelect, BackedCalmSteps DEF WebStep
<1> QED
    BY <1>1, <1>2, <1>3, <1>4, <1>5, <1>6 DEF NestStep

\* Without voids, no line ever shows more paid than payments were allocated
\* to it: collects of both servers may interleave and break off as they like.
THEOREM PaidBacked ==
    ASSUME "void" \notin Ops
    PROVE  Spec => []PaidIsBacked
<1>1. Init => BackedInv
    BY DEF Init, TablesInit, BackedInv, PaidIsBacked, Backed, Idle, NoRows
<1>2. Inv /\ BackedInv /\ [Next]_tableVars => BackedInv'
    <2>1. ASSUME Inv, BackedInv, Next PROVE BackedInv'
        BY <2>1, BackedNext
    <2>2. ASSUME BackedInv, UNCHANGED tableVars PROVE BackedInv'
        BY <2>2 DEF tableVars, dbVars, BackedInv, PaidIsBacked, Backed
    <2> QED
        BY <2>1, <2>2
<1>3. BackedInv => PaidIsBacked
    BY DEF BackedInv
<1> QED
    BY <1>1, <1>2, <1>3, Invariance, PTL DEF Spec
=============================================================================
