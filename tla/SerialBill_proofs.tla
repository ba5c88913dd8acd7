-------------------------- MODULE SerialBill_proofs --------------------------
(***************************************************************************)
(* Proofs about TableBill when the requests follow one another: a settled  *)
(* session only leaves; and, as long as no request breaks off between two  *)
(* statements, the column paid_quantity, the allocation rows and the       *)
(* payments tell the same story, and the bill keeps what FloorPromise      *)
(* promises.                                                               *)
(***************************************************************************)
EXTENDS TableBill_proofs, FiniteSetTheorems

Serial == "concurrent" \notin Allowed

\* No request breaks off with a statement outstanding, and no error of a
\* statement is passed over.
Tidy == {"vanish", "nestrows", "writefail"} \cap Allowed = {}

-----------------------------------------------------------------------------
(* The invariants *)

\* The other requests are not under way.
Turn(h) == \A g \in Handlers : g # h => req[g] = Idle
Alone == \A h \in Handlers : req[h] # Idle => Turn(h)

\* The status that was read when the request began is still there.
Attended(r) ==
    /\ r.op \in {"open", "wopen"} => r.table \in Tables
    /\ r.op = "release" => sess[r.sid].st \in Active
    /\ r.op = "wclose" => sess[r.sid].st = "open"
    /\ r.op = "move" => /\ sess[r.sid].st \in Active /\ r.table \in Tables
                        /\ r.pc = "move" => ActiveAt(r.table) = {}
    /\ r.op \in {"order", "worder", "pay", "wpay"} => sess[r.sid].st \in Billable
    /\ r.pc \in {"other", "reopen"} => sess[r.sid].st = "closed"

SeatInv == Inv /\ Alone /\ \A h \in Handlers : Attended(req[h])

\* What holds of the rows at any time.
Books ==
    /\ \A p \in Payments :
          /\ pays[p].st # "paid" => pays[p].rows = NoRows
          /\ \A l \in Lines : pays[p].rows[l] > 0 => order[l].stage = "line"
    /\ \A l \in Lines : IsFiniteSet(Units(l)) /\ allocated[l] = Cardinality(Units(l))

\* What a request knows at each of its statements.
Station(r) ==
    /\ r.op \in {"order", "worder"} => r.qty >= 1
    /\ r.pc \in {"newLines", "undo"} =>
          \E l \in Lines :
              /\ r.ids = {l}
              /\ order[l] = [sid |-> r.sid, qty |-> r.qty, paid |-> 0, stage |-> "empty"]
    /\ r.op \in {"pay", "wpay"} /\ r.pc # "orders" => r.ids = OrdersOf(r.sid)
    /\ r.pc \in {"payment", "rows"} =>
          /\ r.ask \in Parts /\ r.todo = Concerned(r.ask) /\ r.todo # {}
          /\ r.todo \subseteq LinesOf(r.ids) /\ WithinOpen(r.ask)
          /\ \A l \in Lines : r.seen[l] = order[l].paid
    /\ r.pc \in {"rows", "unpay"} =>
          r.pay \in Payments /\ pays[r.pay].st = "paid" /\ pays[r.pay].rows = NoRows
    /\ r.pc = "write" => \A l \in r.todo : r.seen[l] + r.ask[l] = allocated[l]
    /\ r.pc = "settle" => AllPaid(r.ids)
    /\ r.pc \in {"allocs", "takeback", "reduce"} => pays[r.pay].st = "paid"
    /\ r.pc \in {"takeback", "reduce"} =>
          r.ask = pays[r.pay].rows /\ r.todo \subseteq Concerned(r.ask)
    /\ r.pc = "reduce" => \E l \in r.todo : r.ids = {l} /\ r.seen[l] = order[l].paid
    /\ r.pc = "refund" => pays[r.pay].rows = NoRows

\* The lines whose column is behind the rows: not yet written by the payment,
\* or already taken back by the void.
Behind(r) ==
    CASE r.pc = "write" -> r.todo
      [] r.pc \in {"takeback", "reduce"} -> Lines \ r.todo
      [] OTHER -> {}

Balanced(r) ==
    \A l \in Lines :
        order[l].paid = IF l \in Behind(r) THEN allocated[l] - r.ask[l] ELSE allocated[l]

\* Only the payment at hand may be without rows.
Rowed(r) ==
    \A p \in Payments :
        pays[p].st = "paid" /\ pays[p].rows = NoRows =>
            p = r.pay /\ r.pc \in {"rows", "unpay", "refund"}

Now(r) == Station(r) /\ Balanced(r) /\ Rowed(r)

SerialInv ==
    /\ SeatInv /\ Books
    /\ Quiet => Now(Idle)
    /\ \A h \in Handlers : req[h] # Idle => Now(req[h])

-----------------------------------------------------------------------------
(* One request at a time: the statuses *)

\* What a request holds, after its step, is the same but for what the steps
\* between two tables change.
SameSeat(h) ==
    /\ sess' = sess
    /\ \/ req'[h] = Idle
       \/ /\ req'[h].op = req[h].op /\ req'[h].sid = req[h].sid
          /\ req'[h].table = req[h].table
          /\ req'[h].pc \notin {"move", "other", "reopen"}

\* A step of request h.
StepOf(h) == \A g \in Handlers : g # h => req'[g] = req[g]

LEMMA GotoStep ==
    ASSUME Inv, NEW h \in Handlers, NEW r, Goto(h, r)
    PROVE  req'[h] = r /\ StepOf(h)
BY DEF Inv, Goto, StepOf

LEMMA IdleAttended == Attended(Idle)
BY DEF Attended, Idle

\* It is enough to look at the request that takes the step.
LEMMA SeatStep ==
    ASSUME SeatInv, Inv', NEW h \in Handlers, Turn(h), StepOf(h), Attended(req[h])'
    PROVE  SeatInv'
<1>1. \A g \in Handlers : g # h => req'[g] = Idle
    BY DEF Turn, StepOf
<1>2. Alone'
    BY <1>1 DEF Alone, Turn
<1>3. ASSUME NEW g \in Handlers
      PROVE  Attended(req[g])'
    <2>1. CASE g = h
        BY <2>1
    <2>2. CASE g # h
        BY <1>1, <2>2 DEF Attended, Idle
    <2> QED
        BY <2>1, <2>2
<1> QED
    BY <1>2, <1>3 DEF SeatInv

LEMMA SeatSame ==
    ASSUME SeatInv, Inv', NEW h \in Handlers, Turn(h), StepOf(h), SameSeat(h)
    PROVE  SeatInv'
<1>1. Attended(req[h])
    BY DEF SeatInv
<1>2. CASE req'[h] = Idle
    <2>1. Attended(req[h])'
        BY <1>2 DEF Attended, Idle
    <2> QED
        BY <2>1, SeatStep
<1>3. CASE req'[h] # Idle
    <2>1. Attended(req[h])'
        BY <1>1, <1>3 DEF Attended, SameSeat, ActiveAt
    <2> QED
        BY <2>1, SeatStep
<1> QED
    BY <1>2, <1>3

\* A request begins only when no other is under way, and goes on only when it
\* is the one that did.
LEMMA BeginTurn ==
    ASSUME Serial, NEW h \in Handlers, NEW r, Begin(h, r)
    PROVE  Quiet /\ Turn(h)
BY DEF Serial, Begin, MayBegin, Quiet, Turn

LEMMA GoesOn ==
    ASSUME Alone, NEW h \in Handlers, req[h].pc # "idle"
    PROVE  req[h] # Idle /\ Turn(h)
BY DEF Alone, Idle

\* The steps that change no session and leave their request at its table.
Ordering(h) == InsertOrder(h) \/ InsertLines(h) \/ DeleteOrder(h)

Paying(h, ops) ==
    \/ InsertPayment(h, ops) \/ InsertRows(h, ops) \/ UpdatePaid(h, ops)
    \/ CollectLines(h) \/ WebCollectLines(h)
    \/ CollectRowsFail(h) \/ CollectWriteFails(h) \/ CollectRecheck(h)
    \/ WebRowsFail(h) \/ DeletePayment(h) \/ WebCollected(h)

TakingBack(h) ==
    VoidAllocs(h) \/ VoidRead(h) \/ VoidWrite(h) \/ VoidDeleteRows(h) \/ VoidRefund(h)

Calm(h) ==
    \/ Vanish(h) \/ Ordering(h) \/ WebCloseLines(h) \/ TakingBack(h)
    \/ \E ops \in {{"pay"}, {"wpay"}, {"wclose"}} : SelectOrders(h, ops)
    \/ \E ops \in {{"pay"}, {"wpay"}} : Paying(h, ops)


LEMMA OrderingSame ==
    ASSUME Inv, NEW h \in Handlers, Ordering(h)
    PROVE  SameSeat(h) /\ StepOf(h) /\ req[h] # Idle
<1>1. req \in [Handlers -> Request] /\ req[h] \in Request /\ Idle.pc = "idle"
    BY DEF Inv, Idle
<1>2. CASE InsertOrder(h)
    BY <1>1, <1>2 DEF InsertOrder, At, Request, dbVars, Goto, StepOf, SameSeat
<1>3. CASE InsertLines(h)
    BY <1>1, <1>3 DEF InsertLines, At, End, Request, dbVars, Goto, StepOf, SameSeat
<1>4. CASE DeleteOrder(h)
    BY <1>1, <1>4 DEF DeleteOrder, At, End, Request, dbVars, Goto, StepOf, SameSeat
<1> QED
    BY <1>2, <1>3, <1>4 DEF Ordering

LEMMA PayingSame ==
    ASSUME Inv, NEW h \in Handlers, NEW ops, Paying(h, ops)
    PROVE  SameSeat(h) /\ StepOf(h) /\ req[h] # Idle
<1>1. req \in [Handlers -> Request] /\ req[h] \in Request /\ Idle.pc = "idle"
    BY DEF Inv, Idle
<1>2. CASE InsertPayment(h, ops)
    BY <1>1, <1>2 DEF InsertPayment, At, Request, dbVars, Goto, StepOf, SameSeat
<1>3. CASE InsertRows(h, ops)
    BY <1>1, <1>3 DEF InsertRows, At, Request, dbVars, Goto, StepOf, SameSeat
<1>4. CASE UpdatePaid(h, ops)
    BY <1>1, <1>4 DEF UpdatePaid, At, Request, dbVars, Goto, StepOf, SameSeat
<1>5. CASE CollectLines(h)
    <2>1. CASE End(h)
        BY <1>1, <1>5, <2>1 DEF CollectLines, At, End, dbVars, Goto, StepOf, SameSeat
    <2>2. CASE ~End(h)
        <3>1. PICK ask \in Parts :
                  Goto(h, [req[h] EXCEPT !.pc = "payment", !.ask = ask,
                               !.seen = [l \in Lines |-> order[l].paid],
                               !.todo = Concerned(ask)])
            BY <1>5, <2>2 DEF CollectLines
        <3> QED
            BY <1>1, <1>5, <3>1 DEF CollectLines, At, Request, dbVars, Goto, StepOf, SameSeat
    <2> QED
        BY <2>1, <2>2
<1>6. CASE WebCollectLines(h)
    <2>1. CASE End(h)
        BY <1>1, <1>6, <2>1 DEF WebCollectLines, At, End, dbVars, Goto, StepOf, SameSeat
    <2>2. CASE ~End(h)
        <3>1. PICK ask \in Parts :
                  Goto(h, [req[h] EXCEPT !.pc = "payment", !.ask = ask,
                               !.seen = [l \in Lines |-> order[l].paid],
                               !.todo = Concerned(ask)])
            BY <1>6, <2>2 DEF WebCollectLines
        <3> QED
            BY <1>1, <1>6, <3>1 DEF WebCollectLines, At, Request, dbVars, Goto, StepOf, SameSeat
    <2> QED
        BY <2>1, <2>2
<1>7. CASE CollectRowsFail(h)
    BY <1>1, <1>7 DEF CollectRowsFail, At, End, Request, dbVars, Goto, StepOf, SameSeat
<1>8. CASE CollectWriteFails(h)
    BY <1>1, <1>8 DEF CollectWriteFails, At, Request, dbVars, Goto, StepOf, SameSeat
<1>9. CASE CollectRecheck(h)
    BY <1>1, <1>9 DEF CollectRecheck, At, End, Request, dbVars, Goto, StepOf, SameSeat
<1>10. CASE WebRowsFail(h)
    BY <1>1, <1>10 DEF WebRowsFail, At, Request, dbVars, Goto, StepOf, SameSeat
<1>11. CASE DeletePayment(h)
    BY <1>1, <1>11 DEF DeletePayment, At, End, Request, dbVars, Goto, StepOf, SameSeat
<1>12. CASE WebCollected(h)
    BY <1>1, <1>12 DEF WebCollected, At, End, Request, dbVars, Goto, StepOf, SameSeat
<1> QED
    BY <1>2, <1>3, <1>4, <1>5, <1>6, <1>7, <1>8, <1>9, <1>10, <1>11, <1>12 DEF Paying

LEMMA TakingBackSame ==
    ASSUME Inv, NEW h \in Handlers, TakingBack(h)
    PROVE  SameSeat(h) /\ StepOf(h) /\ req[h] # Idle
<1>1. req \in [Handlers -> Request] /\ req[h] \in Request /\ Idle.pc = "idle"
    BY DEF Inv, Idle
<1>2. CASE VoidAllocs(h)
    BY <1>1, <1>2 DEF VoidAllocs, At, Request, dbVars, Goto, StepOf, SameSeat
<1>3. CASE VoidRead(h)
    BY <1>1, <1>3 DEF VoidRead, At, Request, dbVars, Goto, StepOf, SameSeat
<1>4. CASE VoidWrite(h)
    BY <1>1, <1>4 DEF VoidWrite, At, Request, dbVars, Goto, StepOf, SameSeat
<1>5. CASE VoidDeleteRows(h)
    BY <1>1, <1>5 DEF VoidDeleteRows, At, Request, dbVars, Goto, StepOf, SameSeat
<1>6. CASE VoidRefund(h)
    BY <1>1, <1>6 DEF VoidRefund, At, Request, dbVars, Goto, StepOf, SameSeat
<1> QED
    BY <1>2, <1>3, <1>4, <1>5, <1>6 DEF TakingBack

LEMMA CalmSame ==
    ASSUME Inv, NEW h \in Handlers, Calm(h)
    PROVE  SameSeat(h) /\ StepOf(h) /\ req[h] # Idle
<1>1. req \in [Handlers -> Request] /\ req[h] \in Request /\ Idle.pc = "idle"
    BY DEF Inv, Idle
<1>2. CASE Vanish(h)
    BY <1>1, <1>2 DEF Vanish, At, End, Request, dbVars, Goto, StepOf, SameSeat
<1>3. CASE WebCloseLines(h)
    BY <1>1, <1>3 DEF WebCloseLines, At, End, Request, dbVars, Goto, StepOf, SameSeat
<1>4. CASE \E ops \in {{"pay"}, {"wpay"}, {"wclose"}} : SelectOrders(h, ops)
    BY <1>1, <1>4 DEF SelectOrders, At, Request, dbVars, Goto, StepOf, SameSeat
<1> QED
    BY <1>2, <1>3, <1>4, OrderingSame, PayingSame, TakingBackSame DEF Calm

-----------------------------------------------------------------------------
(* A request begins when no other is under way *)

LEMMA OpenSeat ==
    ASSUME Serial, Inv, NEW h \in Handlers, NEW t \in Tables,
           Open(h, t) \/ WebOpen(h, t)
    PROVE  Quiet /\ Turn(h) /\ StepOf(h) /\ sess' = sess /\ Attended(req[h])'
<1>1. Quiet /\ Turn(h) /\ sess' = sess
    BY BeginTurn DEF Open, WebOpen, dbVars
<1>2. req \in [Handlers -> Request]
    BY DEF Inv
<1>3. CASE Open(h, t)
    BY <1>1, <1>2, <1>3 DEF Open, Begin, Goto, StepOf, Idle, Attended, Active, Billable, IsOpen
<1>4. CASE WebOpen(h, t)
    BY <1>1, <1>2, <1>4 DEF WebOpen, Begin, Goto, StepOf, Idle, Attended, Active, Billable, IsOpen
<1> QED
    BY <1>1, <1>3, <1>4

LEMMA MoveSeat ==
    ASSUME Serial, Inv, NEW h \in Handlers, NEW s \in Sessions, NEW t \in Tables,
           Move(h, s, t)
    PROVE  Quiet /\ Turn(h) /\ StepOf(h) /\ sess' = sess /\ Attended(req[h])'
<1>1. Quiet /\ Turn(h) /\ sess' = sess
    BY BeginTurn DEF Move, dbVars
<1>2. req \in [Handlers -> Request]
    BY DEF Inv
<1>3. CASE Move(h, s, t)
    BY <1>1, <1>2, <1>3 DEF Move, Begin, Goto, StepOf, Idle, Attended, Active, Billable, IsOpen
<1> QED
    BY <1>1, <1>3

LEMMA OrderSeat ==
    ASSUME Serial, Inv, NEW h \in Handlers, NEW s \in Sessions, NEW q \in 1 .. MaxQty,
           Order(h, s, q) \/ WebOrder(h, s, q)
    PROVE  Quiet /\ Turn(h) /\ StepOf(h) /\ sess' = sess /\ Attended(req[h])'
<1>1. Quiet /\ Turn(h) /\ sess' = sess
    BY BeginTurn DEF Order, WebOrder, dbVars
<1>2. req \in [Handlers -> Request]
    BY DEF Inv
<1>3. CASE Order(h, s, q)
    BY <1>1, <1>2, <1>3 DEF Order, Begin, Goto, StepOf, Idle, Attended, Active, Billable, IsOpen
<1>4. CASE WebOrder(h, s, q)
    BY <1>1, <1>2, <1>4 DEF WebOrder, Begin, Goto, StepOf, Idle, Attended, Active, Billable, IsOpen
<1> QED
    BY <1>1, <1>3, <1>4

LEMMA SessionSeat ==
    ASSUME Serial, Inv, NEW h \in Handlers, NEW s \in Sessions,
           Release(h, s) \/ Collect(h, s) \/ WebCollect(h, s) \/ WebClose(h, s)
    PROVE  Quiet /\ Turn(h) /\ StepOf(h) /\ sess' = sess /\ Attended(req[h])'
<1>1. Quiet /\ Turn(h) /\ sess' = sess
    BY BeginTurn DEF Release, Collect, Collectable, WebCollect, WebClose, dbVars
<1>2. req \in [Handlers -> Request]
    BY DEF Inv
<1>3. CASE Release(h, s)
    BY <1>1, <1>2, <1>3 DEF Release, Begin, Goto, StepOf, Idle, Attended, Active, Billable, IsOpen
<1>4. CASE Collect(h, s)
    BY <1>1, <1>2, <1>4 DEF Collect, Collectable, Begin, Goto, StepOf, Idle, Attended, Active, Billable, IsOpen
<1>5. CASE WebCollect(h, s)
    BY <1>1, <1>2, <1>5 DEF WebCollect, Begin, Goto, StepOf, Idle, Attended, Active, Billable, IsOpen
<1>6. CASE WebClose(h, s)
    BY <1>1, <1>2, <1>6 DEF WebClose, Begin, Goto, StepOf, Idle, Attended, Active, Billable, IsOpen
<1> QED
    BY <1>1, <1>3, <1>4, <1>5, <1>6

LEMMA VoidSeat ==
    ASSUME Serial, Inv, NEW h \in Handlers, NEW p \in Payments,
           Void(h, p)
    PROVE  Quiet /\ Turn(h) /\ StepOf(h) /\ sess' = sess /\ Attended(req[h])'
<1>1. Quiet /\ Turn(h) /\ sess' = sess
    BY BeginTurn DEF Void, dbVars
<1>2. req \in [Handlers -> Request]
    BY DEF Inv
<1>3. CASE Void(h, p)
    BY <1>1, <1>2, <1>3 DEF Void, Begin, Goto, StepOf, Idle, Attended, Active, Billable, IsOpen
<1> QED
    BY <1>1, <1>3

Beginning(h) ==
    \/ \E t \in Tables : Open(h, t) \/ WebOpen(h, t)
    \/ \E s \in Sessions, t \in Tables : Move(h, s, t)
    \/ \E s \in Sessions, q \in 1 .. MaxQty : Order(h, s, q) \/ WebOrder(h, s, q)
    \/ \E s \in Sessions : Release(h, s) \/ Collect(h, s) \/ WebCollect(h, s) \/ WebClose(h, s)
    \/ \E p \in Payments : Void(h, p)

LEMMA Begins ==
    ASSUME Serial, Inv, NEW h \in Handlers, Beginning(h)
    PROVE  Quiet /\ Turn(h) /\ StepOf(h) /\ sess' = sess /\ Attended(req[h])'
BY OpenSeat, MoveSeat, OrderSeat, SessionSeat, VoidSeat DEF Beginning

-----------------------------------------------------------------------------
(* The steps that look at tables and sessions, or change them *)

LEMMA MoveLookSeat ==
    ASSUME Inv, NEW h \in Handlers, Attended(req[h]), MoveLook(h)
    PROVE  sess' = sess /\ StepOf(h) /\ Attended(req[h])'
<1>1. req \in [Handlers -> Request] /\ req[h] \in Request
    BY DEF Inv
<1>2. CASE End(h)
    BY <1>1, <1>2, IdleAttended DEF MoveLook, End, Goto, StepOf, dbVars, Attended, Idle
<1>3. CASE ~End(h)
    <2>1. sess' = sess /\ req[h].op = "move" /\ ActiveAt(req[h].table) = {}
          /\ req' = [req EXCEPT ![h] = [req[h] EXCEPT !.pc = "move"]]
        BY <1>3 DEF MoveLook, At, Goto, dbVars
    <2>2. /\ req'[h].op = req[h].op /\ req'[h].sid = req[h].sid
          /\ req'[h].pc = "move" /\ req'[h].table = req[h].table
        BY <1>1, <2>1 DEF Request
    <2> QED
        BY <1>1, <2>1, <2>2 DEF StepOf, Attended, ActiveAt
<1> QED
    BY <1>2, <1>3

LEMMA VoidLooksSeat ==
    ASSUME Inv, NEW h \in Handlers, Attended(req[h]), VoidSession(h) \/ VoidOther(h)
    PROVE  sess' = sess /\ StepOf(h) /\ Attended(req[h])'
<1>1. req \in [Handlers -> Request] /\ req[h] \in Request
    BY DEF Inv
<1>2. CASE End(h)
    BY <1>1, <1>2, IdleAttended
    DEF VoidSession, VoidOther, End, Goto, StepOf, dbVars, Attended, Idle
<1>3. CASE ~End(h) /\ VoidSession(h)
    <2>1. sess' = sess /\ req[h].op = "void" /\ sess[req[h].sid].st = "closed"
          /\ req' = [req EXCEPT ![h] = [req[h] EXCEPT !.pc = "other", !.table = sess[req[h].sid].table]]
        BY <1>3 DEF VoidSession, At, Goto, dbVars
    <2>2. /\ req'[h].op = req[h].op /\ req'[h].sid = req[h].sid
          /\ req'[h].pc = "other"
        BY <1>1, <2>1 DEF Request
    <2> QED
        BY <1>1, <2>1, <2>2 DEF StepOf, Attended, ActiveAt
<1>4. CASE ~End(h) /\ VoidOther(h)
    <2>1. sess' = sess /\ req[h].op = "void" /\ req[h].pc = "other"
          /\ req' = [req EXCEPT ![h] = [req[h] EXCEPT !.pc = "reopen"]]
        BY <1>4 DEF VoidOther, At, Goto, dbVars
    <2>2. /\ req'[h].op = req[h].op /\ req'[h].sid = req[h].sid
          /\ req'[h].pc = "reopen" /\ req'[h].table = req[h].table
        BY <1>1, <2>1 DEF Request
    <2> QED
        BY <1>1, <2>1, <2>2 DEF StepOf, Attended, ActiveAt
<1> QED
    BY <1>2, <1>3, <1>4

\* After a statement that writes a session its request is over, or goes on to
\* look at the lines again.
Writing(h) ==
    InsertSession(h) \/ UpdateClosed(h) \/ MoveUpdate(h) \/ CollectSettle(h) \/ VoidReopen(h)

LEMMA WritingSeat ==
    ASSUME Inv, NEW h \in Handlers, Writing(h)
    PROVE  StepOf(h) /\ Attended(req[h])' /\ req[h] # Idle /\ req'[h] = Idle
<1>1. req \in [Handlers -> Request] /\ End(h)
    BY DEF Inv, Writing, InsertSession, UpdateClosed, MoveUpdate, CollectSettle, VoidReopen
<1>2. StepOf(h) /\ req'[h] = Idle
    BY <1>1 DEF End, Goto, StepOf
<1>3. req[h].pc # "idle"
    BY DEF Writing, InsertSession, UpdateClosed, MoveUpdate, CollectSettle, VoidReopen, At
<1> QED
    BY <1>2, <1>3 DEF Attended, Idle

LEMMA CollectBillSeat ==
    ASSUME Inv, NEW h \in Handlers, Attended(req[h]), CollectBill(h)
    PROVE  StepOf(h) /\ Attended(req[h])' /\ req[h] # Idle
<1>1. req \in [Handlers -> Request] /\ req[h] \in Request /\ Idle.pc = "idle"
      /\ sess \in [Sessions -> [table: Tables \cup {None}, st: Statuses]]
      /\ RequestOK(req[h], order)
    BY DEF Inv, DbTypeOK, Idle
<1>2. req[h].op = "pay" /\ req[h].pc = "write" /\ req[h].sid \in Sessions
    BY <1>1 DEF CollectBill, At, RequestOK
<1>3. req' = [req EXCEPT ![h] = [req[h] EXCEPT !.pc = "recheck"]]
    BY DEF CollectBill, Goto
<1>4. sess' = [sess EXCEPT ![req[h].sid].st = "bill"] \/ sess' = sess
    BY DEF CollectBill, SetStatus
<1>5. req'[h].op = "pay" /\ req'[h].sid = req[h].sid /\ req'[h].pc = "recheck"
    BY <1>1, <1>2, <1>3 DEF Request
<1> QED
    BY <1>1, <1>2, <1>3, <1>4, <1>5 DEF Attended, StepOf, Billable

LEMMA SetBillSeat ==
    ASSUME Serial, SeatInv, Inv', NEW s \in Sessions, SetBill(s)
    PROVE  SeatInv' /\ Quiet
<1>1. Quiet /\ req' = req
    BY DEF SetBill, MayBegin, Serial, Quiet
<1>2. \A h \in Handlers : req'[h] = Idle /\ Turn(h)'
    BY <1>1 DEF Quiet, Turn
<1> QED
    BY <1>1, <1>2 DEF SeatInv, Alone, Attended, Idle

-----------------------------------------------------------------------------
(* Every step, by what it does *)

Looking(h) == MoveLook(h) \/ VoidSession(h) \/ VoidOther(h)

LEMMA NextCases ==
    ASSUME Next
    PROVE  \E h \in Handlers :
               \/ Beginning(h) \/ Calm(h) \/ Looking(h) \/ Writing(h) \/ CollectBill(h)
               \/ \E s \in Sessions : SetBill(s)
<1>1. PICK h \in Handlers : SharedStep(h) \/ NestStep(h) \/ WebStep(h)
    BY DEF Next
<1>2. CASE SharedStep(h)
    BY <1>2 DEF SharedStep, Writing, Calm, Ordering
<1>3. CASE Seating(h)
    BY <1>3 DEF Seating, Beginning, Looking, Writing
<1>4. CASE Collecting(h)
    <2>1. CASE \E ops \in {{"pay"}, {"wpay"}} : Paying(h, ops)
        BY <2>1 DEF Calm
    <2>2. CASE ~\E ops \in {{"pay"}, {"wpay"}} : Paying(h, ops)
        <3>1. ~Paying(h, {"pay"})
            BY <2>2
        <3>2. \/ \E s \in Sessions : Collect(h, s)
              \/ SelectOrders(h, {"pay"}) \/ CollectBill(h) \/ CollectSettle(h)
            BY <1>4, <3>1 DEF Collecting, Paying
        <3>3. SelectOrders(h, {"pay"}) => Calm(h)
            BY DEF Calm
        <3> QED
            BY <3>2, <3>3 DEF Beginning, Writing
    <2> QED
        BY <2>1, <2>2
<1>5. CASE WebCollecting(h)
    <2>1. CASE Paying(h, {"wpay"})
        BY <2>1 DEF Calm
    <2>2. CASE ~Paying(h, {"wpay"})
        <3>1. (\E s \in Sessions : WebCollect(h, s)) \/ SelectOrders(h, {"wpay"})
            BY <1>5, <2>2 DEF WebCollecting, Paying
        <3>2. SelectOrders(h, {"wpay"}) => Calm(h)
            BY DEF Calm
        <3> QED
            BY <3>1, <3>2 DEF Beginning
    <2> QED
        BY <2>1, <2>2
<1>6. CASE Voiding(h)
    BY <1>6 DEF Voiding, Beginning, Looking, Writing, Calm, TakingBack
<1>7. CASE WebStep(h) /\ ~WebCollecting(h) /\ ~Voiding(h)
    <2>1. SelectOrders(h, {"wclose"}) => Calm(h)
        BY DEF Calm
    <2> QED
        BY <1>7, <2>1 DEF WebStep, Beginning, Calm
<1> QED
    BY <1>1, <1>2, <1>3, <1>4, <1>5, <1>6, <1>7 DEF NestStep

\* While a request is under way it is the only one, and the status it saw at
\* the start is still there.
LEMMA SeatNext ==
    ASSUME Serial, SeatInv, Next
    PROVE  SeatInv'
<1>1. PICK h \in Handlers :
          \/ Beginning(h) \/ Calm(h) \/ Looking(h) \/ Writing(h) \/ CollectBill(h)
          \/ \E s \in Sessions : SetBill(s)
    BY NextCases
<1>2. Inv /\ Inv' /\ Attended(req[h])
    BY NextInv DEF SeatInv
<1>3. req[h] # Idle => Turn(h)
    BY DEF SeatInv, Alone
<1>4. CASE Beginning(h)
    BY <1>2, <1>4, Begins, SeatStep
<1>5. CASE Calm(h)
    BY <1>2, <1>3, <1>5, CalmSame, SeatSame
<1>6. CASE Looking(h)
    <2>1. Turn(h)
        BY <1>3, <1>6 DEF Looking, MoveLook, VoidSession, VoidOther, At, Idle
    <2> QED
        BY <1>2, <1>6, <2>1, MoveLookSeat, VoidLooksSeat, SeatStep DEF Looking
<1>7. CASE Writing(h)
    BY <1>2, <1>3, <1>7, WritingSeat, SeatStep
<1>8. CASE CollectBill(h)
    BY <1>2, <1>3, <1>8, CollectBillSeat, SeatStep
<1>9. CASE \E s \in Sessions : SetBill(s)
    BY <1>2, <1>9, SetBillSeat
<1> QED
    BY <1>1, <1>4, <1>5, <1>6, <1>7, <1>8, <1>9

LEMMA SeatInit ==
    ASSUME Init
    PROVE  SeatInv
BY InitInv, IdleAttended DEF SeatInv, Alone, Turn, Init, TablesInit

LEMMA SeatStutter ==
    ASSUME SeatInv, UNCHANGED tableVars
    PROVE  SeatInv'
BY Stutter DEF SeatInv, Alone, Turn, Attended, ActiveAt, tableVars, dbVars

LEMMA Seated ==
    ASSUME Serial
    PROVE  Spec => []SeatInv
<1>1. SeatInv /\ [Next]_tableVars => SeatInv'
    BY SeatNext, SeatStutter
<1> QED
    BY <1>1, SeatInit, PTL DEF Spec

\* What a step may do to a session, as NoWayBack says it.
Forward ==
    \A s \in Sessions :
        /\ sess[s].st = "paid" => sess'[s].st \in {"paid", "closed"}
        /\ sess[s].st = "closed" /\ sess'[s].st # "closed" =>
              \E h \in Handlers : req[h].pc = "reopen" /\ req[h].sid = s

LEMMA ForwardWriting ==
    ASSUME SeatInv, NEW h \in Handlers, Writing(h)
    PROVE  Forward
<1>1. sess \in [Sessions -> [table: Tables \cup {None}, st: Statuses]] /\ Attended(req[h])
    BY DEF SeatInv, Inv, DbTypeOK
<1>2. CASE InsertSession(h)
    BY <1>1, <1>2 DEF InsertSession, Forward
<1>3. CASE UpdateClosed(h)
    BY <1>1, <1>3 DEF UpdateClosed, SetStatus, Forward
<1>4. CASE MoveUpdate(h)
    BY <1>1, <1>4 DEF MoveUpdate, Forward
<1>5. CASE CollectSettle(h)
    BY <1>1, <1>5 DEF CollectSettle, SetStatus, At, Attended, Billable, Forward
<1>6. CASE VoidReopen(h)
    BY <1>1, <1>6 DEF VoidReopen, SetStatus, At, Attended, Forward
<1> QED
    BY <1>2, <1>3, <1>4, <1>5, <1>6 DEF Writing

LEMMA ForwardNext ==
    ASSUME Serial, SeatInv, Next
    PROVE  Forward
<1>1. PICK h \in Handlers :
          \/ Beginning(h) \/ Calm(h) \/ Looking(h) \/ Writing(h) \/ CollectBill(h)
          \/ \E s \in Sessions : SetBill(s)
    BY NextCases
<1>2. Inv /\ Attended(req[h])
      /\ sess \in [Sessions -> [table: Tables \cup {None}, st: Statuses]]
    BY DEF SeatInv, Inv, DbTypeOK
<1>3. sess' = sess => Forward
    BY DEF Forward
<1>4. CASE Beginning(h) \/ Calm(h) \/ Looking(h)
    BY <1>2, <1>3, <1>4, Begins, CalmSame, MoveLookSeat, VoidLooksSeat DEF SameSeat, Looking
<1>5. CASE Writing(h)
    BY <1>5, ForwardWriting
<1>6. CASE CollectBill(h)
    BY <1>2, <1>6 DEF CollectBill, SetStatus, At, Attended, Billable, Forward
<1>7. CASE \E s \in Sessions : SetBill(s)
    BY <1>2, <1>7 DEF SetBill, SetStatus, Billable, Forward
<1> QED
    BY <1>1, <1>4, <1>5, <1>6, <1>7

\* When requests follow one another, wherever they break off, a settled session
\* is only released, and a closed one comes back only through the void of a
\* payment of it.
THEOREM SettledOnlyLeaves ==
    ASSUME Serial
    PROVE  Spec => NoWayBack
<1>1. SeatInv /\ [Next]_tableVars => [Forward]_tableVars
    BY ForwardNext
<1> QED
    BY <1>1, Seated, PTL DEF Spec, NoWayBack, Forward

-----------------------------------------------------------------------------
(* Counting units *)

LEMMA UnitsPick ==
    ASSUME NEW l, NEW u
    PROVE  u \in Units(l) <=> \E p \in Payments : u \in {p} \X (1 .. pays[p].rows[l])
BY DEF Units

LEMMA BlockSize ==
    ASSUME NEW p, NEW n \in Nat
    PROVE  IsFiniteSet({p} \X (1 .. n)) /\ Cardinality({p} \X (1 .. n)) = n
<1>1. IsFiniteSet({p}) /\ Cardinality({p}) = 1
    BY FS_Singleton
<1>2. IsFiniteSet(1 .. n) /\ Cardinality(1 .. n) = n
    BY FS_Interval
<1> DEFINE P == {p}
           T == 1 .. n
<1> HIDE DEF P, T
<1>3. IsFiniteSet(P \X T) /\ Cardinality(P \X T) = 1 * n
    BY <1>1, <1>2, FS_Product DEF P, T
<1> QED
    BY <1>3 DEF P, T

\* A block of a payment that had none is added to the units.
LEMMA BlockAdded ==
    ASSUME NEW S, IsFiniteSet(S), NEW B, IsFiniteSet(B), \A u \in B : u \notin S
    PROVE  IsFiniteSet(S \cup B) /\ Cardinality(S \cup B) = Cardinality(S) + Cardinality(B)
<1>1. S \cap B = {}
    OBVIOUS
<1>2. Cardinality(S \cap B) = 0
    BY <1>1, FS_EmptySet
<1>3. Cardinality(S) \in Nat /\ Cardinality(B) \in Nat
    BY FS_CardinalityType
<1>4. IsFiniteSet(S \cup B)
      /\ Cardinality(S \cup B) = Cardinality(S) + Cardinality(B) - Cardinality(S \cap B)
    BY FS_Union
<1> QED
    BY <1>2, <1>3, <1>4

\* A payment's block is taken out of the units.
LEMMA BlockRemoved ==
    ASSUME NEW S, IsFiniteSet(S), NEW p, NEW n \in Nat, {p} \X (1 .. n) \subseteq S
    PROVE  /\ IsFiniteSet(S \ ({p} \X (1 .. n)))
           /\ Cardinality(S \ ({p} \X (1 .. n))) = Cardinality(S) - n
           /\ n <= Cardinality(S)
<1>1. IsFiniteSet({p} \X (1 .. n)) /\ Cardinality({p} \X (1 .. n)) = n
    BY BlockSize
<1>2. S \cap ({p} \X (1 .. n)) = {p} \X (1 .. n)
    OBVIOUS
<1>3. Cardinality(S) \in Nat
    BY FS_CardinalityType
<1> DEFINE B == {p} \X (1 .. n)
<1> HIDE DEF B
<1>4. IsFiniteSet(S \ B) /\ Cardinality(S \ B) = Cardinality(S) - Cardinality(S \cap B)
    BY FS_Difference
<1>5. Cardinality(B) <= Cardinality(S)
    BY FS_Subset DEF B
<1> QED
    BY <1>1, <1>2, <1>3, <1>4, <1>5 DEF B

\* One payment gets rows for a line ...
LEMMA UnitsGrow ==
    ASSUME NEW l \in Lines, NEW p \in Payments, pays[p].rows[l] = 0, pays'[p].rows[l] \in Nat,
           \A q \in Payments : q # p => pays'[q].rows[l] = pays[q].rows[l],
           IsFiniteSet(Units(l))
    PROVE  /\ IsFiniteSet(Units(l)')
           /\ Cardinality(Units(l)') = Cardinality(Units(l)) + pays'[p].rows[l]
<1> DEFINE n == pays'[p].rows[l]
           B == {p} \X (1 .. n)
<1>1. ASSUME NEW u \in B PROVE u \notin Units(l)
    <2>1. ASSUME u \in Units(l) PROVE FALSE
        <3>1. PICK q \in Payments : u \in {q} \X (1 .. pays[q].rows[l])
            BY <2>1, UnitsPick
        <3>2. u[1] = q /\ u[1] = p /\ u[2] \in 1 .. pays[q].rows[l]
            BY <3>1
        <3> QED
            BY <3>2
    <2> QED
        BY <2>1
<1>2. Units(l)' = Units(l) \cup B
    <2>1. ASSUME NEW u \in Units(l)' PROVE u \in Units(l) \cup B
        <3>1. PICK q \in Payments : u \in {q} \X (1 .. pays'[q].rows[l])
            BY DEF Units
        <3>2. CASE q = p
            BY <3>1, <3>2
        <3>3. CASE q # p
            BY <3>1, <3>3, UnitsPick
        <3> QED
            BY <3>2, <3>3
    <2>2. ASSUME NEW u \in Units(l) PROVE u \in Units(l)'
        <3>1. PICK q \in Payments : u \in {q} \X (1 .. pays[q].rows[l])
            BY UnitsPick
        <3>2. q # p
            BY <3>1
        <3>3. u \in {q} \X (1 .. pays'[q].rows[l])
            BY <3>1, <3>2
        <3> QED
            BY <3>3 DEF Units
    <2>3. ASSUME NEW u \in B PROVE u \in Units(l)'
        BY DEF Units
    <2> QED
        BY <2>1, <2>2, <2>3
<1>3. n \in Nat
    OBVIOUS
<1>4. IsFiniteSet(B) /\ Cardinality(B) = n
    BY <1>3, BlockSize
<1> HIDE DEF B
<1>5. IsFiniteSet(Units(l) \cup B) /\ Cardinality(Units(l) \cup B) = Cardinality(Units(l)) + n
    BY <1>1, <1>4, BlockAdded
<1> QED
    BY <1>2, <1>5

\* ... or loses them.
LEMMA UnitsShrink ==
    ASSUME NEW l \in Lines, NEW p \in Payments, pays[p].rows[l] \in Nat, pays'[p].rows[l] = 0,
           \A q \in Payments : q # p => pays'[q].rows[l] = pays[q].rows[l],
           IsFiniteSet(Units(l))
    PROVE  /\ IsFiniteSet(Units(l)')
           /\ Cardinality(Units(l)') = Cardinality(Units(l)) - pays[p].rows[l]
<1> DEFINE n == pays[p].rows[l]
           B == {p} \X (1 .. n)
<1>1. B \subseteq Units(l)
    BY DEF Units
<1>2. Units(l)' = Units(l) \ B
    <2>1. ASSUME NEW u \in Units(l)' PROVE u \in Units(l) \ B
        <3>1. PICK q \in Payments : u \in {q} \X (1 .. pays'[q].rows[l])
            BY DEF Units
        <3>2. q # p
            BY <3>1
        <3>3. u \in {q} \X (1 .. pays[q].rows[l]) /\ u \notin B
            BY <3>1, <3>2
        <3> QED
            BY <3>3, UnitsPick
    <2>2. ASSUME NEW u \in Units(l), u \notin B PROVE u \in Units(l)'
        <3>1. PICK q \in Payments : u \in {q} \X (1 .. pays[q].rows[l])
            BY UnitsPick
        <3>2. q # p
            BY <2>2, <3>1
        <3>3. u \in {q} \X (1 .. pays'[q].rows[l])
            BY <3>1, <3>2
        <3> QED
            BY <3>3 DEF Units
    <2> QED
        BY <2>1, <2>2
<1>3. n \in Nat
    OBVIOUS
<1>4. IsFiniteSet(Units(l) \ B) /\ Cardinality(Units(l) \ B) = Cardinality(Units(l)) - n
    BY <1>1, <1>3, BlockRemoved
<1> QED
    BY <1>2, <1>4

\* A payment never has more rows than what is allocated.
LEMMA RowsBound ==
    ASSUME NEW l \in Lines, NEW p \in Payments, pays[p].rows[l] \in Nat, IsFiniteSet(Units(l))
    PROVE  pays[p].rows[l] <= Cardinality(Units(l)) /\ Cardinality(Units(l)) \in Nat
<1>1. {p} \X (1 .. pays[p].rows[l]) \subseteq Units(l)
    BY DEF Units
<1> QED
    BY <1>1, BlockRemoved, FS_CardinalityType

LEMMA NoUnits ==
    ASSUME NEW l \in Lines, \A p \in Payments : pays[p].rows[l] = 0
    PROVE  IsFiniteSet(Units(l)) /\ Cardinality(Units(l)) = 0
<1>1. Units(l) = {}
    BY DEF Units
<1> QED
    BY <1>1, FS_EmptySet

\* Without a change of the rows the units stay.
LEMMA UnitsStay ==
    ASSUME \A p \in Payments : pays'[p].rows = pays[p].rows, NEW l
    PROVE  Units(l)' = Units(l)
BY DEF Units

-----------------------------------------------------------------------------
(* The rows tell the story: steps that change no order and no payment *)

RowPcs == {"rows", "unpay", "refund"}

\* It is enough to look at the request that takes the step.
LEMMA NowStep ==
    ASSUME SerialInv, SeatInv', NEW h \in Handlers, Turn(h), NEW r, Goto(h, r), Books', Now(r)'
    PROVE  SerialInv'
<1>1. req'[h] = r /\ \A g \in Handlers : g # h => req'[g] = Idle
    BY GotoStep DEF SerialInv, SeatInv, StepOf, Turn
<1>2. Quiet' => Now(Idle)'
    <2>1. Quiet' => r = Idle
        BY <1>1 DEF Quiet
    <2>2. CASE r = Idle
        BY <2>2
    <2> QED
        BY <2>1, <2>2
<1>3. ASSUME NEW g \in Handlers, req'[g] # Idle
      PROVE  Now(req[g])'
    BY <1>1, <1>3 DEF Now, Station, Balanced, Behind, Rowed, OrdersOf, LinesOf, AllPaid,
                      WithinOpen
<1> QED
    BY <1>2, <1>3 DEF SerialInv

LEMMA BooksStay ==
    ASSUME Books, \A p \in Payments : pays'[p].rows = pays[p].rows /\ pays'[p].st = pays[p].st,
           allocated' = allocated, \A l \in Lines : order[l].stage = "line" => order'[l].stage = "line"
    PROVE  Books'
<1>1. \A l : Units(l)' = Units(l)
    BY UnitsStay
<1> QED
    BY <1>1 DEF Books

LEMMA StillNow ==
    ASSUME NEW r, Now(r), UNCHANGED <<order, pays, allocated>>
    PROVE  Now(r)'
BY DEF Now, Station, Balanced, Behind, Rowed, OrdersOf, LinesOf, AllPaid, WithinOpen

LEMMA LocalNow ==
    ASSUME SerialInv, SeatInv', NEW h \in Handlers, Turn(h), NEW r, Goto(h, r), Now(r),
           UNCHANGED <<order, pays, allocated>>
    PROVE  SerialInv'
<1>1. Books'
    BY BooksStay DEF SerialInv
<1> QED
    BY <1>1, StillNow, NowStep

\* Between the statements of a payment or a void, the story is that of the tables.
LEMMA FreshNow ==
    ASSUME NEW x, Now(x), Behind(x) = {}, x.pc \notin RowPcs,
           NEW r, Behind(r) = {}, Station(r)
    PROVE  Now(r)
BY DEF Now, Balanced, Rowed, RowPcs

LEMMA IdleStation == Station(Idle) /\ Behind(Idle) = {}
BY DEF Station, Behind, Idle

LEMMA EndNow ==
    ASSUME NEW x, Now(x), Behind(x) = {}, x.pc \notin RowPcs
    PROVE  Now(Idle)
BY IdleStation, FreshNow

\* A request that is under way, and what is known of it.
LEMMA UnderWay ==
    ASSUME SerialInv, NEW h \in Handlers, req[h].pc # "idle"
    PROVE  /\ req[h] \in Request /\ Now(req[h]) /\ Turn(h) /\ Attended(req[h])
           /\ RequestOK(req[h], order) /\ Books
           /\ req \in [Handlers -> Request]
BY GoesOn DEF SerialInv, SeatInv, Inv

\* What a request is at its first statement.
Fresh(r) ==
    /\ r.pc \in {"insert", "occupied", "newOrder", "close", "orders", "allocs"}
    /\ r.op \in {"order", "worder"} => r.qty >= 1
    /\ r.pc = "allocs" => pays[r.pay].st = "paid"
    /\ r.op \in {"pay", "wpay"} => r.pc = "orders"

LEMMA BeginNow ==
    ASSUME Serial, SerialInv, SeatInv', NEW h \in Handlers, Beginning(h)
    PROVE  SerialInv'
<1>1. Quiet /\ Turn(h) /\ Now(Idle)
    BY Begins DEF SerialInv, SeatInv
<1>2. UNCHANGED <<order, pays, allocated>>
    BY DEF Beginning, Open, WebOpen, Move, Order, WebOrder, Release, Collect, WebCollect,
           WebClose, Void, dbVars
<1>3. PICK r : Goto(h, r) /\ Fresh(r)
    <2>1. CASE \E t \in Tables : Open(h, t) \/ WebOpen(h, t)
        <3>1. PICK t \in Tables : Open(h, t) \/ WebOpen(h, t)
            BY <2>1
        <3>2. \/ Goto(h, [Idle EXCEPT !.op = "open", !.pc = "insert", !.table = t])
             \/ Goto(h, [Idle EXCEPT !.op = "wopen", !.pc = "insert", !.table = t])
            BY <3>1 DEF Open, WebOpen, Begin
        <3>3. /\ Fresh([Idle EXCEPT !.op = "open", !.pc = "insert", !.table = t])
             /\ Fresh([Idle EXCEPT !.op = "wopen", !.pc = "insert", !.table = t])
            BY <3>1 DEF Open, WebOpen, Fresh, Idle
        <3> QED
            BY <3>2, <3>3
    <2>2. CASE \E s \in Sessions, t \in Tables : Move(h, s, t)
        <3>1. PICK s \in Sessions, t \in Tables : Move(h, s, t)
            BY <2>2
        <3>2. Goto(h, [Idle EXCEPT !.op = "move", !.pc = "occupied", !.sid = s, !.table = t])
            BY <3>1 DEF Move, Begin
        <3>3. /\ Fresh([Idle EXCEPT !.op = "move", !.pc = "occupied", !.sid = s, !.table = t])
            BY <3>1 DEF Move, Fresh, Idle
        <3> QED
            BY <3>2, <3>3
    <2>3. CASE \E s \in Sessions, q \in 1 .. MaxQty : Order(h, s, q) \/ WebOrder(h, s, q)
        <3>1. PICK s \in Sessions, q \in 1 .. MaxQty : Order(h, s, q) \/ WebOrder(h, s, q)
            BY <2>3
        <3>2. \/ Goto(h, [Idle EXCEPT !.op = "order", !.pc = "newOrder", !.sid = s, !.qty = q])
             \/ Goto(h, [Idle EXCEPT !.op = "worder", !.pc = "newOrder", !.sid = s, !.qty = q])
            BY <3>1 DEF Order, WebOrder, Begin
        <3>3. /\ Fresh([Idle EXCEPT !.op = "order", !.pc = "newOrder", !.sid = s, !.qty = q])
             /\ Fresh([Idle EXCEPT !.op = "worder", !.pc = "newOrder", !.sid = s, !.qty = q])
            BY <3>1, BoundsAreNat DEF Order, WebOrder, Fresh, Idle
        <3> QED
            BY <3>2, <3>3
    <2>4. CASE \E s \in Sessions :
                   Release(h, s) \/ Collect(h, s) \/ WebCollect(h, s) \/ WebClose(h, s)
        <3>1. PICK s \in Sessions :
                  Release(h, s) \/ Collect(h, s) \/ WebCollect(h, s) \/ WebClose(h, s)
            BY <2>4
        <3>2. \/ Goto(h, [Idle EXCEPT !.op = "release", !.pc = "close", !.sid = s])
             \/ Goto(h, [Idle EXCEPT !.op = "pay", !.pc = "orders", !.sid = s])
             \/ Goto(h, [Idle EXCEPT !.op = "wpay", !.pc = "orders", !.sid = s])
             \/ Goto(h, [Idle EXCEPT !.op = "wclose", !.pc = "orders", !.sid = s])
            BY <3>1 DEF Release, Collect, WebCollect, WebClose, Begin
        <3>3. /\ Fresh([Idle EXCEPT !.op = "release", !.pc = "close", !.sid = s])
             /\ Fresh([Idle EXCEPT !.op = "pay", !.pc = "orders", !.sid = s])
             /\ Fresh([Idle EXCEPT !.op = "wpay", !.pc = "orders", !.sid = s])
             /\ Fresh([Idle EXCEPT !.op = "wclose", !.pc = "orders", !.sid = s])
            BY <3>1 DEF Release, Collect, WebCollect, WebClose, Fresh, Idle
        <3> QED
            BY <3>2, <3>3
    <2>5. CASE \E p \in Payments : Void(h, p)
        <3>1. PICK p \in Payments : Void(h, p)
            BY <2>5
        <3>2. Goto(h, [Idle EXCEPT !.op = "void", !.pc = "allocs", !.sid = pays[p].sid, !.pay = p])
            BY <3>1 DEF Void, Begin
        <3>3. /\ Fresh([Idle EXCEPT !.op = "void", !.pc = "allocs", !.sid = pays[p].sid, !.pay = p])
            BY <3>1 DEF Void, Fresh, Idle
        <3> QED
            BY <3>2, <3>3
    <2> QED
        BY <2>1, <2>2, <2>3, <2>4, <2>5 DEF Beginning
<1>4. Station(r) /\ Behind(r) = {}
    BY <1>3 DEF Fresh, Station, Behind
<1>5. Now(r)
    BY <1>1, <1>4, IdleStation, FreshNow DEF Idle, RowPcs
<1> QED
    BY <1>1, <1>2, <1>3, <1>5, LocalNow

LEMMA SetBillNow ==
    ASSUME Serial, SerialInv, SeatInv', NEW s \in Sessions, SetBill(s)
    PROVE  SerialInv'
<1>1. Quiet /\ req' = req /\ UNCHANGED <<order, pays, allocated>> /\ Now(Idle) /\ Books
    BY SetBillSeat DEF SetBill, SerialInv, MayBegin, Serial, Quiet
<1>2. Now(Idle)' /\ Books'
    BY <1>1, StillNow, BooksStay
<1> QED
    BY <1>1, <1>2 DEF SerialInv, Quiet

\* A request ends when nothing is outstanding.
LEMMA EndsNow ==
    ASSUME SerialInv, SeatInv', NEW h \in Handlers, req[h].pc # "idle", End(h),
           Behind(req[h]) = {}, req[h].pc \notin RowPcs, UNCHANGED <<order, pays, allocated>>
    PROVE  SerialInv'
<1>1. Turn(h) /\ Now(req[h])
    BY UnderWay
<1>2. Now(Idle)
    BY <1>1, EndNow
<1> QED
    BY <1>1, <1>2, LocalNow DEF End

\* A request goes on when nothing is outstanding before or after.
LEMMA GoesNow ==
    ASSUME SerialInv, SeatInv', NEW h \in Handlers, req[h].pc # "idle",
           Behind(req[h]) = {}, req[h].pc \notin RowPcs, UNCHANGED <<order, pays, allocated>>,
           NEW r, Goto(h, r), Behind(r) = {}, Station(r)
    PROVE  SerialInv'
<1>1. Turn(h) /\ Now(req[h])
    BY UnderWay
<1>2. Now(r)
    BY <1>1, FreshNow
<1> QED
    BY <1>1, <1>2, LocalNow

LEMMA SelectNow ==
    ASSUME SerialInv, SeatInv', NEW h \in Handlers, NEW ops, SelectOrders(h, ops)
    PROVE  SerialInv'
<1>1. req[h].pc = "orders" /\ UNCHANGED <<order, pays, allocated>>
    BY DEF SelectOrders, At, dbVars
<1>2. req[h] \in Request /\ Station(req[h])
    BY <1>1, UnderWay DEF Now
<1>3. PICK x, ids : x = req[h] /\ ids = OrdersOf(x.sid)
                    /\ Goto(h, [x EXCEPT !.pc = "lines", !.ids = ids])
    BY DEF SelectOrders
<1> DEFINE r == [x EXCEPT !.pc = "lines", !.ids = ids]
<1>4. r.pc = "lines" /\ r.ids = ids /\ r.sid = x.sid /\ r.op = x.op /\ r.qty = x.qty
    BY <1>2, <1>3 DEF Request
<1>5. Goto(h, r)
    BY <1>3
<1> HIDE DEF r
<1>6. Station(r) /\ Behind(r) = {} /\ Behind(req[h]) = {}
    BY <1>1, <1>2, <1>3, <1>4 DEF Station, Behind
<1> QED
    BY <1>1, <1>5, <1>6, GoesNow DEF RowPcs

\* What is asked for fits the open quantities that were just read.
LEMMA LinesNow ==
    ASSUME SerialInv, SeatInv', NEW h \in Handlers, CollectLines(h) \/ WebCollectLines(h)
    PROVE  SerialInv'
<1>1. req[h].pc = "lines" /\ req[h].op \in {"pay", "wpay"} /\ UNCHANGED <<order, pays, allocated>>
    BY DEF CollectLines, WebCollectLines, At, dbVars
<1>2. req[h] \in Request /\ Station(req[h]) /\ Behind(req[h]) = {} /\ req[h].pc \notin RowPcs
    BY <1>1, UnderWay DEF Now, Behind, RowPcs
<1>3. CASE End(h)
    BY <1>1, <1>2, <1>3, EndsNow
<1>4. CASE ~End(h)
    <2>1. PICK ask \in Parts :
              /\ Concerned(ask) # {} /\ Concerned(ask) \subseteq LinesOf(req[h].ids)
              /\ WithinOpen(ask)
              /\ Goto(h, [req[h] EXCEPT !.pc = "payment", !.ask = ask,
                              !.seen = [l \in Lines |-> order[l].paid],
                              !.todo = Concerned(ask)])
        BY <1>4 DEF CollectLines, WebCollectLines
    <2>2. PICK x, seen : /\ x = req[h] /\ seen = [l \in Lines |-> order[l].paid]
                         /\ Goto(h, [x EXCEPT !.pc = "payment", !.ask = ask, !.seen = seen,
                                         !.todo = Concerned(ask)])
        BY <2>1
    <2> DEFINE r == [x EXCEPT !.pc = "payment", !.ask = ask, !.seen = seen,
                         !.todo = Concerned(ask)]
    <2>3. /\ r.pc = "payment" /\ r.op = x.op /\ r.sid = x.sid /\ r.ids = x.ids /\ r.ask = ask
          /\ r.seen = seen /\ r.todo = Concerned(ask)
        BY <1>2, <2>2 DEF Request
    <2>4. Goto(h, r)
        BY <2>2
    <2> HIDE DEF r
    <2>5. \A l \in Lines : seen[l] = order[l].paid
        BY <2>2
    <2>6. Station(r) /\ Behind(r) = {}
        BY <1>1, <1>2, <2>1, <2>2, <2>3, <2>5 DEF Station, Behind
    <2> QED
        BY <1>1, <1>2, <2>4, <2>6, GoesNow
<1> QED
    BY <1>3, <1>4

\* The steps that go on with the next statement and remember nothing new.
LEMMA PcNow ==
    ASSUME SerialInv, SeatInv', NEW h \in Handlers, req[h].pc # "idle",
           Behind(req[h]) = {}, req[h].pc \notin RowPcs, UNCHANGED <<order, pays, allocated>>,
           NEW pc, Goto(h, [req[h] EXCEPT !.pc = pc]),
           \/ pc \in {"close", "move", "reopen", "recheck"}
           \/ pc = "settle" /\ AllPaid(req[h].ids)
           \/ pc = "undo" /\ req[h].pc = "newLines",
           req[h].pc # "orders"
    PROVE  SerialInv'
<1>1. req[h] \in Request /\ Station(req[h])
    BY UnderWay DEF Now
<1>2. PICK x : x = req[h] /\ Goto(h, [x EXCEPT !.pc = pc])
    OBVIOUS
<1> DEFINE r == [x EXCEPT !.pc = pc]
<1>3. r.pc = pc /\ r.op = x.op /\ r.sid = x.sid /\ r.ids = x.ids /\ r.qty = x.qty
    BY <1>1, <1>2 DEF Request
<1>4. Goto(h, r)
    BY <1>2
<1> HIDE DEF r
<1>5. Behind(r) = {} /\ Station(r)
    BY <1>1, <1>2, <1>3 DEF Station, Behind
<1> QED
    BY <1>4, <1>5, GoesNow

LEMMA PayLooksNow ==
    ASSUME SerialInv, SeatInv', NEW h \in Handlers,
           CollectRecheck(h) \/ WebCloseLines(h) \/ WebCollected(h)
    PROVE  SerialInv'
<1>1. UNCHANGED <<order, pays, allocated>>
    BY DEF CollectRecheck, WebCloseLines, WebCollected, dbVars
<1>2. /\ req[h].pc \in {"recheck", "lines", "write"} /\ (req[h].pc = "write" => req[h].todo = {})
      /\ \/ End(h)
         \/ Goto(h, [req[h] EXCEPT !.pc = "settle"]) /\ AllPaid(req[h].ids)
         \/ Goto(h, [req[h] EXCEPT !.pc = "close"])
    BY DEF CollectRecheck, WebCloseLines, WebCollected, At, PaidOnRecheck
<1>3. Behind(req[h]) = {} /\ req[h].pc \notin RowPcs /\ req[h].pc # "idle"
    BY <1>2 DEF Behind, RowPcs
<1>4. CASE End(h)
    BY <1>1, <1>2, <1>3, <1>4, EndsNow
<1>5. CASE Goto(h, [req[h] EXCEPT !.pc = "settle"]) /\ AllPaid(req[h].ids)
    BY <1>1, <1>2, <1>3, <1>5, PcNow
<1>6. CASE Goto(h, [req[h] EXCEPT !.pc = "close"])
    BY <1>1, <1>2, <1>3, <1>6, PcNow
<1> QED
    BY <1>2, <1>4, <1>5, <1>6

LEMMA LookingNow ==
    ASSUME SerialInv, SeatInv', NEW h \in Handlers, Looking(h)
    PROVE  SerialInv'
<1>1. UNCHANGED <<order, pays, allocated>>
    BY DEF Looking, MoveLook, VoidSession, VoidOther, dbVars
<1>2. req[h].pc \in {"occupied", "session", "other"}
    BY DEF Looking, MoveLook, VoidSession, VoidOther, At
<1>3. Behind(req[h]) = {} /\ req[h].pc \notin RowPcs /\ req[h].pc # "idle"
    BY <1>2 DEF Behind, RowPcs
<1>4. CASE End(h)
    BY <1>1, <1>3, <1>4, EndsNow
<1>5. CASE Goto(h, [req[h] EXCEPT !.pc = "move"]) \/ Goto(h, [req[h] EXCEPT !.pc = "reopen"])
    BY <1>1, <1>2, <1>3, <1>5, PcNow
<1>6. CASE VoidSession(h) /\ ~End(h)
    <2>1. PICK x, t : /\ x = req[h] /\ x.op = "void"
                      /\ Goto(h, [x EXCEPT !.pc = "other", !.table = t])
        BY <1>6 DEF VoidSession, At
    <2> DEFINE r == [x EXCEPT !.pc = "other", !.table = t]
    <2>2. x \in Request
        BY <1>3, <2>1, UnderWay
    <2>3. r.pc = "other" /\ r.op = "void"
        BY <2>1, <2>2 DEF Request
    <2>4. Goto(h, r)
        BY <2>1
    <2> HIDE DEF r
    <2>5. Station(r) /\ Behind(r) = {}
        BY <2>3 DEF Station, Behind
    <2> QED
        BY <1>1, <1>3, <2>4, <2>5, GoesNow
<1> QED
    BY <1>4, <1>5, <1>6 DEF Looking, MoveLook, VoidSession, VoidOther

LEMMA WritingNow ==
    ASSUME SerialInv, SeatInv', NEW h \in Handlers, Writing(h)
    PROVE  SerialInv'
<1>1. UNCHANGED <<order, pays, allocated>> /\ End(h)
      /\ req[h].pc \in {"insert", "close", "move", "settle", "reopen"}
    BY DEF Writing, InsertSession, UpdateClosed, MoveUpdate, CollectSettle, VoidReopen, At
<1>2. Behind(req[h]) = {} /\ req[h].pc \notin RowPcs /\ req[h].pc # "idle"
    BY <1>1 DEF Behind, RowPcs
<1> QED
    BY <1>1, <1>2, EndsNow

LEMMA CollectBillNow ==
    ASSUME SerialInv, SeatInv', NEW h \in Handlers, CollectBill(h)
    PROVE  SerialInv'
<1>1. UNCHANGED <<order, pays, allocated>> /\ Goto(h, [req[h] EXCEPT !.pc = "recheck"])
      /\ req[h].pc = "write" /\ req[h].todo = {}
    BY DEF CollectBill, At
<1>2. Behind(req[h]) = {} /\ req[h].pc \notin RowPcs
    BY <1>1 DEF Behind, RowPcs
<1> QED
    BY <1>1, <1>2, PcNow

\* The payment is still without rows when it is about to be deleted.
LEMMA RowsFailNow ==
    ASSUME SerialInv, SeatInv', NEW h \in Handlers, WebRowsFail(h)
    PROVE  SerialInv'
<1>1. UNCHANGED <<order, pays, allocated>> /\ req[h].pc = "rows"
    BY DEF WebRowsFail, At, dbVars
<1>2. req[h] \in Request /\ Now(req[h]) /\ Turn(h)
    BY <1>1, UnderWay
<1>3. PICK x : x = req[h] /\ Goto(h, [x EXCEPT !.pc = "unpay"])
    BY DEF WebRowsFail
<1> DEFINE r == [x EXCEPT !.pc = "unpay"]
<1>4. r.pc = "unpay" /\ r.op = x.op /\ r.sid = x.sid /\ r.ids = x.ids /\ r.qty = x.qty
      /\ r.pay = x.pay
    BY <1>2, <1>3 DEF Request
<1>5. Goto(h, r)
    BY <1>3
<1> HIDE DEF r
<1>6. Station(r)
    BY <1>1, <1>2, <1>3, <1>4 DEF Now, Station
<1>7. Balanced(r) /\ Rowed(r)
    BY <1>1, <1>2, <1>3, <1>4 DEF Now, Balanced, Behind, Rowed
<1> QED
    BY <1>1, <1>2, <1>5, <1>6, <1>7, LocalNow DEF Now

\* The rows of the payment to be voided, all still to be taken back.
LEMMA VoidAllocsNow ==
    ASSUME SerialInv, SeatInv', NEW h \in Handlers, VoidAllocs(h)
    PROVE  SerialInv'
<1>1. UNCHANGED <<order, pays, allocated>> /\ req[h].pc = "allocs" /\ req[h].op = "void"
    BY DEF VoidAllocs, At, dbVars
<1>2. req[h] \in Request /\ Now(req[h]) /\ Turn(h) /\ RequestOK(req[h], order) /\ Inv
    BY <1>1, UnderWay DEF SerialInv, SeatInv
<1>3. PICK x, rows, todo :
          /\ x = req[h] /\ rows = pays[x.pay].rows /\ todo = Concerned(rows)
          /\ Goto(h, [x EXCEPT !.pc = "takeback", !.ask = rows, !.todo = todo])
    BY DEF VoidAllocs
<1> DEFINE r == [x EXCEPT !.pc = "takeback", !.ask = rows, !.todo = todo]
<1>4. r.pc = "takeback" /\ r.op = "void" /\ r.ask = rows /\ r.todo = todo /\ r.pay = x.pay
    BY <1>1, <1>2, <1>3 DEF Request
<1>5. Goto(h, r)
    BY <1>3
<1> HIDE DEF r
<1>6. x.pay \in Payments /\ rows \in [Lines -> Nat]
    BY <1>1, <1>2, <1>3 DEF RequestOK, Inv, DbTypeOK
<1>7. Station(r)
    BY <1>1, <1>2, <1>3, <1>4, <1>6 DEF Now, Station
<1>8. \A l \in Lines \ todo : rows[l] = 0
    BY <1>3, <1>6 DEF Concerned
<1>9. \A l \in Lines : allocated[l] \in Int
    BY <1>2 DEF Inv, DbTypeOK
<1>10. Balanced(r)
    BY <1>1, <1>2, <1>3, <1>4, <1>8, <1>9 DEF Now, Balanced, Behind
<1>11. Rowed(r)
    BY <1>1, <1>2, <1>3 DEF Now, Rowed
<1> QED
    BY <1>1, <1>2, <1>5, <1>7, <1>10, <1>11, LocalNow DEF Now

LEMMA VoidReadNow ==
    ASSUME SerialInv, SeatInv', NEW h \in Handlers, VoidRead(h)
    PROVE  SerialInv'
<1>1. UNCHANGED <<order, pays, allocated>> /\ req[h].pc = "takeback" /\ req[h].op = "void"
    BY DEF VoidRead, At, dbVars
<1>2. req[h] \in Request /\ Now(req[h]) /\ Turn(h)
    BY <1>1, UnderWay
<1>3. PICK x, l, paid :
          /\ x = req[h] /\ l \in x.todo /\ paid = order[l].paid
          /\ Goto(h, [x EXCEPT !.pc = "reduce", !.ids = {l}, !.seen[l] = paid])
    <2>1. PICK l \in req[h].todo :
              Goto(h, [req[h] EXCEPT !.pc = "reduce", !.ids = {l}, !.seen[l] = order[l].paid])
        BY DEF VoidRead
    <2> QED
        BY <2>1
<1> DEFINE r == [x EXCEPT !.pc = "reduce", !.ids = {l}, !.seen[l] = paid]
<1>4. l \in Lines
    BY <1>2, <1>3 DEF Request
<1>5. /\ r.pc = "reduce" /\ r.op = "void" /\ r.ask = x.ask /\ r.todo = x.todo /\ r.pay = x.pay
      /\ r.ids = {l} /\ r.seen[l] = paid
    BY <1>1, <1>2, <1>3, <1>4 DEF Request
<1>6. Goto(h, r)
    BY <1>3
<1> HIDE DEF r
<1>7. Station(r)
    BY <1>1, <1>2, <1>3, <1>5 DEF Now, Station
<1>8. Balanced(r) /\ Rowed(r)
    BY <1>1, <1>2, <1>3, <1>5 DEF Now, Balanced, Behind, Rowed
<1> QED
    BY <1>1, <1>2, <1>6, <1>7, <1>8, LocalNow DEF Now

-----------------------------------------------------------------------------
(* Steps that change orders or payments *)

LEMMA DbTypes ==
    ASSUME SerialInv
    PROVE  /\ Inv /\ Books /\ order \in Orders
           /\ pays \in [Payments -> [st: {"none", "paid", "refunded", "deleted"},
                                     sid: Sessions \cup {None}, rows: [Lines -> Nat]]]
           /\ \A l \in Lines : allocated[l] \in Nat /\ order[l].paid \in Nat
           /\ allocated \in [Lines -> Int]
<1>1. Inv /\ Books
    BY DEF SerialInv, SeatInv
<1>2. \A l \in Lines : allocated[l] \in Nat
    BY <1>1, FS_CardinalityType DEF Books
<1> QED
    BY <1>1, <1>2 DEF Inv, DbTypeOK, Orders

\* Nothing is allocated to what is not a line on the bill.
LEMMA Unrowed ==
    ASSUME SerialInv, NEW l \in Lines, order[l].stage # "line"
    PROVE  allocated[l] = 0 /\ \A p \in Payments : pays[p].rows[l] = 0
<1>1. \A p \in Payments : pays[p].rows[l] = 0
    <2>1. \A p \in Payments : pays[p].rows[l] \in Nat
        BY DbTypes
    <2> QED
        BY <2>1 DEF SerialInv, Books
<1> QED
    BY <1>1, NoUnits DEF SerialInv, Books

LEMMA InsertOrderNow ==
    ASSUME SerialInv, SeatInv', NEW h \in Handlers, InsertOrder(h)
    PROVE  SerialInv'
<1>1. req[h].pc = "newOrder" /\ req[h].op \in {"order", "worder"} /\ UNCHANGED <<pays, allocated>>
    BY DEF InsertOrder, At
<1>2. req[h] \in Request /\ Now(req[h]) /\ Turn(h)
    BY <1>1, UnderWay
<1>3. PICK l \in Lines :
          /\ order[l].stage = "none"
          /\ order' = [order EXCEPT ![l] = [sid |-> req[h].sid, qty |-> req[h].qty,
                                            paid |-> 0, stage |-> "empty"]]
          /\ Goto(h, [req[h] EXCEPT !.pc = "newLines", !.ids = {l}])
    BY DEF InsertOrder
<1>4. PICK x : x = req[h] /\ Goto(h, [x EXCEPT !.pc = "newLines", !.ids = {l}])
    BY <1>3
<1> DEFINE r == [x EXCEPT !.pc = "newLines", !.ids = {l}]
<1>5. r.pc = "newLines" /\ r.op = x.op /\ r.ids = {l} /\ r.sid = x.sid /\ r.qty = x.qty
    BY <1>2, <1>4 DEF Request
<1>6. Goto(h, r)
    BY <1>4
<1> HIDE DEF r
<1>7. order \in Orders /\ Books /\ allocated[l] = 0
    BY <1>3, DbTypes, Unrowed
<1>8. order'[l] = [sid |-> x.sid, qty |-> x.qty, paid |-> 0, stage |-> "empty"]
      /\ \A k \in Lines : k # l => order'[k] = order[k]
    BY <1>3, <1>4, <1>7 DEF Orders
<1>9. Books'
    BY <1>1, <1>3, <1>7, <1>8, BooksStay
<1>10. Station(r)'
    BY <1>1, <1>2, <1>4, <1>5, <1>8 DEF Now, Station
<1>11. Balanced(r)'
    BY <1>1, <1>2, <1>5, <1>7, <1>8 DEF Now, Balanced, Behind
<1>12. Rowed(r)'
    BY <1>1, <1>2 DEF Now, Rowed
<1> QED
    BY <1>2, <1>6, <1>9, <1>10, <1>11, <1>12, NowStep DEF Now

\* The line comes to the bill, or the order goes: it has no rows.
LEMMA OrderEndsNow ==
    ASSUME SerialInv, SeatInv', NEW h \in Handlers, InsertLines(h) \/ DeleteOrder(h)
    PROVE  SerialInv'
<1>1. req[h].pc \in {"newLines", "undo"} /\ UNCHANGED <<pays, allocated>>
    BY DEF InsertLines, DeleteOrder, At
<1>2. Now(req[h]) /\ Turn(h) /\ Behind(req[h]) = {} /\ req[h].pc \notin RowPcs
    BY <1>1, UnderWay DEF Behind, RowPcs
<1>3. CASE ~End(h)
    BY <1>1, <1>2, <1>3, PcNow DEF InsertLines, DeleteOrder, At
<1>4. CASE End(h)
    <2>1. CASE UNCHANGED order
        BY <1>1, <1>2, <1>4, <2>1, EndsNow
    <2>2. CASE ~UNCHANGED order
        <3>1. PICK stage \in {"line", "gone"} :
                  order' = [l \in Lines |-> IF l \in req[h].ids
                                             THEN [order[l] EXCEPT !.stage = stage]
                                             ELSE order[l]]
            BY <2>2 DEF InsertLines, DeleteOrder
        <3>2. order \in Orders /\ Books
            BY DbTypes
        <3>3. \A l \in req[h].ids : order[l].stage = "empty"
            BY <1>1, <1>2 DEF Now, Station
        <3>4. \A l \in Lines :
                  /\ order'[l].paid = order[l].paid
                  /\ order[l].stage = "line" => order'[l].stage = "line"
            BY <3>1, <3>2, <3>3 DEF Orders
        <3>5. Books'
            BY <1>1, <3>2, <3>4, BooksStay
        <3>6. Now(Idle)
            BY <1>2, EndNow
        <3>7. Balanced(Idle)' /\ Rowed(Idle)' /\ Station(Idle)'
            BY <1>1, <3>4, <3>6, IdleStation DEF Now, Balanced, Rowed, Behind, Station, Idle
        <3> QED
            BY <1>2, <1>4, <3>5, <3>7, NowStep DEF End, Now
    <2> QED
        BY <2>1, <2>2
<1> QED
    BY <1>3, <1>4

LEMMA RowsStay ==
    ASSUME Books, \A p \in Payments : pays'[p].rows = pays[p].rows, UNCHANGED <<order, allocated>>,
           \A p \in Payments : pays'[p].st # "paid" => pays[p].rows = NoRows
    PROVE  Books'
<1>1. \A l : Units(l)' = Units(l)
    BY UnitsStay
<1> QED
    BY <1>1 DEF Books

LEMMA InsertPaymentNow ==
    ASSUME SerialInv, SeatInv', NEW h \in Handlers, NEW ops \in {{"pay"}, {"wpay"}},
           InsertPayment(h, ops)
    PROVE  SerialInv'
<1>1. req[h].pc = "payment" /\ req[h].op \in {"pay", "wpay"} /\ UNCHANGED <<order, allocated>>
    BY DEF InsertPayment, At
<1>2. req[h] \in Request /\ Now(req[h]) /\ Turn(h)
    BY <1>1, UnderWay
<1>3. PICK p \in Payments :
          /\ pays[p].st = "none"
          /\ pays' = [pays EXCEPT ![p] = [st |-> "paid", sid |-> req[h].sid, rows |-> NoRows]]
          /\ Goto(h, [req[h] EXCEPT !.pc = "rows", !.pay = p])
    BY DEF InsertPayment
<1>4. PICK x : x = req[h] /\ Goto(h, [x EXCEPT !.pc = "rows", !.pay = p])
    BY <1>3
<1> DEFINE r == [x EXCEPT !.pc = "rows", !.pay = p]
<1>5. /\ r.pc = "rows" /\ r.op = x.op /\ r.sid = x.sid /\ r.ids = x.ids /\ r.pay = p
      /\ r.ask = x.ask /\ r.todo = x.todo /\ r.seen = x.seen
    BY <1>2, <1>4 DEF Request
<1>6. Goto(h, r)
    BY <1>4
<1> HIDE DEF r
<1>7. Books /\ DOMAIN pays = Payments /\ pays[p].rows = NoRows
    BY <1>3, DbTypes DEF Books
<1>8. pays'[p].st = "paid" /\ pays'[p].rows = NoRows
      /\ \A q \in Payments : q # p => pays'[q] = pays[q]
    BY <1>3, <1>7
<1>9. Books'
    BY <1>1, <1>7, <1>8, RowsStay DEF Books
<1>10. Station(r)'
    BY <1>1, <1>2, <1>4, <1>5, <1>8 DEF Now, Station, OrdersOf, LinesOf, WithinOpen
<1>11. Balanced(r)'
    BY <1>1, <1>2, <1>5 DEF Now, Balanced, Behind
<1>12. Rowed(r)'
    BY <1>1, <1>2, <1>5, <1>8 DEF Now, Rowed
<1> QED
    BY <1>2, <1>6, <1>9, <1>10, <1>11, <1>12, NowStep DEF Now

\* The rows and the column differ by what is still to be written.
LEMMA InsertRowsNow ==
    ASSUME SerialInv, SeatInv', NEW h \in Handlers, NEW ops \in {{"pay"}, {"wpay"}},
           InsertRows(h, ops)
    PROVE  SerialInv'
<1>1. req[h].pc = "rows" /\ req[h].op \in {"pay", "wpay"} /\ order' = order
    BY DEF InsertRows, At
<1>2. req[h] \in Request /\ Now(req[h]) /\ Turn(h)
    BY <1>1, UnderWay
<1>3. PICK x : x = req[h] /\ Goto(h, [x EXCEPT !.pc = "write"])
    BY DEF InsertRows
<1> DEFINE r == [x EXCEPT !.pc = "write"]
<1>4. /\ r.pc = "write" /\ r.op = x.op /\ r.sid = x.sid /\ r.ids = x.ids /\ r.pay = x.pay
      /\ r.ask = x.ask /\ r.todo = x.todo /\ r.seen = x.seen
    BY <1>2, <1>3 DEF Request
<1>5. Goto(h, r)
    BY <1>3
<1> HIDE DEF r
<1>6. /\ x.ask \in [Lines -> Nat] /\ x.todo = Concerned(x.ask) /\ x.todo # {}
      /\ x.todo \subseteq Lines /\ x.pay \in Payments
      /\ pays[x.pay].st = "paid" /\ pays[x.pay].rows = NoRows
      /\ \A l \in Lines : x.seen[l] = order[l].paid
      /\ \A l \in x.todo : order[l].stage = "line"
      /\ x.ids = OrdersOf(x.sid)
    BY <1>1, <1>2, <1>3 DEF Now, Station, Request, LinesOf
<1>7. Books /\ DOMAIN pays = Payments /\ \A l \in Lines : allocated[l] \in Nat
    BY DbTypes
<1>8. /\ pays' = [pays EXCEPT ![x.pay].rows = x.ask]
      /\ \A l \in Lines : allocated'[l] = allocated[l] + x.ask[l]
    BY <1>3 DEF InsertRows
<1>9. pays'[x.pay].st = "paid" /\ pays'[x.pay].rows = x.ask
      /\ \A q \in Payments : q # x.pay => pays'[q] = pays[q]
    <2>1. pays[x.pay] \in [st: {"none", "paid", "refunded", "deleted"},
                           sid: Sessions \cup {None}, rows: [Lines -> Nat]]
        BY <1>6, DbTypes
    <2> QED
        BY <1>6, <1>7, <1>8, <2>1
<1>10. Books'
    <2>1. ASSUME NEW l \in Lines
          PROVE  IsFiniteSet(Units(l)') /\ allocated'[l] = Cardinality(Units(l)')
        <3>1. pays[x.pay].rows[l] = 0 /\ pays'[x.pay].rows[l] \in Nat
            BY <1>6, <1>9 DEF NoRows
        <3>2. IsFiniteSet(Units(l)) /\ allocated[l] = Cardinality(Units(l))
            BY <1>7 DEF Books
        <3>3. IsFiniteSet(Units(l)')
              /\ Cardinality(Units(l)') = Cardinality(Units(l)) + pays'[x.pay].rows[l]
            BY <1>6, <1>9, <3>1, <3>2, UnitsGrow
        <3> QED
            BY <1>8, <1>9, <3>2, <3>3
    <2>2. ASSUME NEW p \in Payments, NEW l \in Lines, pays'[p].rows[l] > 0
          PROVE  order'[l].stage = "line"
        BY <1>1, <1>6, <1>7, <1>9, <2>2 DEF Books, Concerned
    <2>3. ASSUME NEW p \in Payments, pays'[p].st # "paid"
          PROVE  pays'[p].rows = NoRows
        BY <1>7, <1>9, <2>3 DEF Books
    <2> QED
        BY <2>1, <2>2, <2>3 DEF Books
<1>11. \A l \in Lines : order[l].paid = allocated[l] /\ order[l].paid \in Nat
    BY <1>1, <1>2, DbTypes DEF Now, Balanced, Behind
<1>12. Station(r)'
    BY <1>1, <1>3, <1>4, <1>6, <1>8, <1>11 DEF Station, OrdersOf
<1>13. Balanced(r)'
    BY <1>1, <1>3, <1>4, <1>6, <1>7, <1>8, <1>11 DEF Balanced, Behind, Concerned
<1>14. Rowed(r)'
    <2>1. x.ask # NoRows
        BY <1>6 DEF NoRows, Concerned
    <2> QED
        BY <1>1, <1>2, <1>3, <1>9, <2>1 DEF Now, Rowed
<1> QED
    BY <1>2, <1>5, <1>10, <1>12, <1>13, <1>14, NowStep DEF Now

\* One line more is written from what was read: exactly what its rows say.
LEMMA UpdatePaidNow ==
    ASSUME SerialInv, SeatInv', NEW h \in Handlers, NEW ops \in {{"pay"}, {"wpay"}},
           UpdatePaid(h, ops)
    PROVE  SerialInv'
<1>1. req[h].pc = "write" /\ req[h].op \in {"pay", "wpay"} /\ UNCHANGED <<pays, allocated>>
    BY DEF UpdatePaid, At
<1>2. req[h] \in Request /\ Now(req[h]) /\ Turn(h)
    BY <1>1, UnderWay
<1>3. PICK x, l : /\ x = req[h] /\ l \in x.todo
                  /\ order' = [order EXCEPT ![l].paid = x.seen[l] + x.ask[l]]
                  /\ Goto(h, [x EXCEPT !.todo = @ \ {l}])
    BY DEF UpdatePaid
<1> DEFINE r == [x EXCEPT !.todo = @ \ {l}]
<1>4. /\ r.pc = "write" /\ r.op = x.op /\ r.sid = x.sid /\ r.ids = x.ids /\ r.pay = x.pay
      /\ r.ask = x.ask /\ r.todo = x.todo \ {l} /\ r.seen = x.seen
    BY <1>1, <1>2, <1>3 DEF Request
<1>5. Goto(h, r)
    BY <1>3
<1> HIDE DEF r
<1>6. l \in Lines /\ x.seen[l] + x.ask[l] = allocated[l] /\ x.ids = OrdersOf(x.sid)
    BY <1>1, <1>2, <1>3 DEF Now, Station, Request
<1>7. order \in Orders /\ Books
    BY DbTypes
<1>8. /\ order'[l].paid = allocated[l]
      /\ \A k \in Lines : k # l => order'[k] = order[k]
      /\ \A k \in Lines : order'[k].stage = order[k].stage /\ order'[k].sid = order[k].sid
    BY <1>3, <1>6, <1>7 DEF Orders
<1>9. Books'
    BY <1>1, <1>7, <1>8, BooksStay
<1>10. Station(r)'
    BY <1>1, <1>2, <1>3, <1>4, <1>6, <1>8 DEF Now, Station, OrdersOf
<1>11. Balanced(r)'
    BY <1>1, <1>2, <1>3, <1>4, <1>8 DEF Now, Balanced, Behind
<1>12. Rowed(r)'
    BY <1>1, <1>2, <1>3, <1>4 DEF Now, Rowed
<1> QED
    BY <1>2, <1>5, <1>9, <1>10, <1>11, <1>12, NowStep DEF Now

\* A payment without rows is deleted.
LEMMA DeletePaymentNow ==
    ASSUME SerialInv, SeatInv', NEW h \in Handlers, DeletePayment(h)
    PROVE  SerialInv'
<1>1. req[h].pc = "unpay" /\ UNCHANGED <<order, allocated>> /\ End(h)
      /\ pays' = [pays EXCEPT ![req[h].pay].st = "deleted"]
    BY DEF DeletePayment, At
<1>2. Now(req[h]) /\ Turn(h)
    BY <1>1, UnderWay
<1>3. PICK p \in Payments : p = req[h].pay /\ pays[p].rows = NoRows
    BY <1>1, <1>2 DEF Now, Station
<1>4. pays[p] \in [st: {"none", "paid", "refunded", "deleted"}, sid: Sessions \cup {None},
                   rows: [Lines -> Nat]]
      /\ DOMAIN pays = Payments /\ Books
    BY DbTypes
<1>5. pays'[p].st = "deleted" /\ pays'[p].rows = NoRows
      /\ \A q \in Payments : q # p => pays'[q] = pays[q]
    BY <1>1, <1>3, <1>4
<1>6. Books'
    BY <1>1, <1>3, <1>4, <1>5, RowsStay DEF Books
<1>7. Balanced(Idle)' /\ Rowed(Idle)' /\ Station(Idle)'
    BY <1>1, <1>2, <1>3, <1>5, IdleStation DEF Now, Balanced, Behind, Rowed, Station, Idle
<1> QED
    BY <1>1, <1>2, <1>6, <1>7, NowStep DEF End, Now

\* What is taken back was paid: no payment has more rows than the column shows.
LEMMA VoidWriteNow ==
    ASSUME SerialInv, SeatInv', NEW h \in Handlers, VoidWrite(h)
    PROVE  SerialInv'
<1>1. req[h].pc = "reduce" /\ req[h].op = "void" /\ UNCHANGED <<pays, allocated>>
    BY DEF VoidWrite, At
<1>2. req[h] \in Request /\ Now(req[h]) /\ Turn(h) /\ RequestOK(req[h], order)
    BY <1>1, UnderWay
<1>3. PICK x : /\ x = req[h]
               /\ order' = [l \in Lines |-> IF l \in x.ids
                                             THEN [order[l] EXCEPT !.paid = Less(x.seen[l], x.ask[l])]
                                             ELSE order[l]]
               /\ Goto(h, [x EXCEPT !.pc = "takeback", !.todo = @ \ x.ids])
    BY DEF VoidWrite
<1> DEFINE r == [x EXCEPT !.pc = "takeback", !.todo = @ \ x.ids]
<1>4. /\ r.pc = "takeback" /\ r.op = "void" /\ r.ask = x.ask /\ r.pay = x.pay
      /\ r.todo = x.todo \ x.ids
    BY <1>1, <1>2, <1>3 DEF Request
<1>5. Goto(h, r)
    BY <1>3
<1> HIDE DEF r
<1>6. PICK l \in Lines : l \in x.todo /\ x.ids = {l} /\ x.seen[l] = order[l].paid
    BY <1>1, <1>2, <1>3 DEF Now, Station, Request
<1>7. x.pay \in Payments /\ x.ask = pays[x.pay].rows
    BY <1>1, <1>2, <1>3 DEF RequestOK, Now, Station
<1>8. order \in Orders /\ Books /\ allocated[l] \in Nat /\ x.ask[l] \in Nat
    BY <1>7, DbTypes
<1>9. order[l].paid = allocated[l]
    BY <1>1, <1>2, <1>3, <1>6 DEF Now, Balanced, Behind
<1>10. x.ask[l] <= allocated[l]
    BY <1>7, <1>8, RowsBound DEF Books
<1>11. Less(x.seen[l], x.ask[l]) = allocated[l] - x.ask[l]
    BY <1>6, <1>8, <1>9, <1>10 DEF Less
<1>12. /\ order'[l].paid = allocated[l] - x.ask[l]
       /\ \A k \in Lines : k # l => order'[k] = order[k]
       /\ \A k \in Lines : order'[k].stage = order[k].stage
    BY <1>3, <1>6, <1>8, <1>11 DEF Orders
<1>13. Books'
    BY <1>1, <1>8, <1>12, BooksStay
<1>14. Station(r)'
    BY <1>1, <1>2, <1>3, <1>4, <1>6 DEF Now, Station
<1>15. Balanced(r)'
    BY <1>1, <1>2, <1>3, <1>4, <1>6, <1>12 DEF Now, Balanced, Behind
<1>16. Rowed(r)'
    BY <1>1, <1>2, <1>3 DEF Now, Rowed
<1> QED
    BY <1>2, <1>5, <1>13, <1>14, <1>15, <1>16, NowStep DEF Now

\* All that is taken back goes from the rows as well.
LEMMA VoidDeleteRowsNow ==
    ASSUME SerialInv, SeatInv', NEW h \in Handlers, VoidDeleteRows(h)
    PROVE  SerialInv'
<1>1. req[h].pc = "takeback" /\ req[h].op = "void" /\ req[h].todo = {} /\ order' = order
    BY DEF VoidDeleteRows, At
<1>2. req[h] \in Request /\ Now(req[h]) /\ Turn(h) /\ RequestOK(req[h], order)
    BY <1>1, UnderWay
<1>3. PICK x : x = req[h] /\ Goto(h, [x EXCEPT !.pc = "refund"])
    BY DEF VoidDeleteRows
<1> DEFINE r == [x EXCEPT !.pc = "refund"]
<1>4. r.pc = "refund" /\ r.op = "void" /\ r.pay = x.pay
    BY <1>1, <1>2, <1>3 DEF Request
<1>5. Goto(h, r)
    BY <1>3
<1> HIDE DEF r
<1>6. x.pay \in Payments /\ x.ask = pays[x.pay].rows
    BY <1>1, <1>2, <1>3 DEF RequestOK, Now, Station
<1>7. /\ pays' = [pays EXCEPT ![x.pay].rows = NoRows]
      /\ \A l \in Lines : allocated'[l] = allocated[l] - x.ask[l]
    BY <1>3, <1>6 DEF VoidDeleteRows
<1>8. /\ pays[x.pay] \in [st: {"none", "paid", "refunded", "deleted"},
                          sid: Sessions \cup {None}, rows: [Lines -> Nat]]
      /\ DOMAIN pays = Payments /\ Books
    BY <1>6, DbTypes
<1>9. pays'[x.pay].rows = NoRows /\ \A q \in Payments : q # x.pay => pays'[q] = pays[q]
    BY <1>6, <1>7, <1>8
<1>10. Books'
    <2>1. ASSUME NEW l \in Lines
          PROVE  IsFiniteSet(Units(l)') /\ allocated'[l] = Cardinality(Units(l)')
        <3>1. pays'[x.pay].rows[l] = 0 /\ pays[x.pay].rows[l] \in Nat
            BY <1>8, <1>9 DEF NoRows
        <3>2. IsFiniteSet(Units(l)) /\ allocated[l] = Cardinality(Units(l))
            BY <1>8 DEF Books
        <3>3. IsFiniteSet(Units(l)')
              /\ Cardinality(Units(l)') = Cardinality(Units(l)) - pays[x.pay].rows[l]
            BY <1>6, <1>9, <3>1, <3>2, UnitsShrink
        <3> QED
            BY <1>6, <1>7, <3>2, <3>3
    <2>2. ASSUME NEW p \in Payments, NEW l \in Lines, pays'[p].rows[l] > 0
          PROVE  order'[l].stage = "line"
        BY <1>1, <1>8, <1>9, <2>2 DEF Books, NoRows
    <2>3. ASSUME NEW p \in Payments, pays'[p].st # "paid"
          PROVE  pays'[p].rows = NoRows
        BY <1>8, <1>9, <2>3 DEF Books
    <2> QED
        BY <2>1, <2>2, <2>3 DEF Books
<1>11. Station(r)'
    BY <1>4, <1>9 DEF Station
<1>12. Balanced(r)'
    BY <1>1, <1>2, <1>3, <1>4, <1>7 DEF Now, Balanced, Behind
<1>13. Rowed(r)'
    BY <1>1, <1>2, <1>3, <1>4, <1>9 DEF Now, Rowed
<1> QED
    BY <1>2, <1>5, <1>10, <1>11, <1>12, <1>13, NowStep DEF Now

LEMMA VoidRefundNow ==
    ASSUME SerialInv, SeatInv', NEW h \in Handlers, VoidRefund(h)
    PROVE  SerialInv'
<1>1. req[h].pc = "refund" /\ req[h].op = "void" /\ UNCHANGED <<order, allocated>>
      /\ pays' = [pays EXCEPT ![req[h].pay].st = "refunded"]
    BY DEF VoidRefund, At
<1>2. req[h] \in Request /\ Now(req[h]) /\ Turn(h) /\ RequestOK(req[h], order)
    BY <1>1, UnderWay
<1>3. PICK x : x = req[h] /\ Goto(h, [x EXCEPT !.pc = "session"])
    BY DEF VoidRefund
<1> DEFINE r == [x EXCEPT !.pc = "session"]
<1>4. r.pc = "session" /\ r.op = "void" /\ r.pay = x.pay
    BY <1>1, <1>2, <1>3 DEF Request
<1>5. Goto(h, r)
    BY <1>3
<1> HIDE DEF r
<1>6. x.pay \in Payments /\ pays[x.pay].rows = NoRows
    BY <1>1, <1>2, <1>3 DEF RequestOK, Now, Station
<1>7. /\ pays[x.pay] \in [st: {"none", "paid", "refunded", "deleted"},
                          sid: Sessions \cup {None}, rows: [Lines -> Nat]]
      /\ DOMAIN pays = Payments /\ Books
    BY <1>6, DbTypes
<1>8. pays'[x.pay].st = "refunded" /\ pays'[x.pay].rows = NoRows
      /\ \A q \in Payments : q # x.pay => pays'[q] = pays[q]
    BY <1>1, <1>3, <1>6, <1>7
<1>9. Books'
    BY <1>1, <1>6, <1>7, <1>8, RowsStay DEF Books
<1>10. Station(r)'
    BY <1>4 DEF Station
<1>11. Balanced(r)' /\ Rowed(r)'
    BY <1>1, <1>2, <1>3, <1>4, <1>8 DEF Now, Balanced, Behind, Rowed
<1> QED
    BY <1>2, <1>5, <1>9, <1>10, <1>11, NowStep DEF Now

-----------------------------------------------------------------------------
(* The theorems on the rows *)

\* The faults that break off a request, or pass over an error, do not happen.
LEMMA NoBreak ==
    ASSUME Tidy, NEW h \in Handlers
    PROVE  ~Vanish(h) /\ ~CollectRowsFail(h) /\ ~CollectWriteFails(h)
BY DEF Tidy, Vanish, CollectRowsFail, CollectWriteFails, Fault

LEMMA CalmNow ==
    ASSUME Tidy, SerialInv, SeatInv', NEW h \in Handlers, Calm(h)
    PROVE  SerialInv'
<1>1. ~Vanish(h) /\ ~CollectRowsFail(h) /\ ~CollectWriteFails(h)
    BY NoBreak
<1>2. CASE \E ops \in {{"pay"}, {"wpay"}, {"wclose"}} : SelectOrders(h, ops)
    BY <1>2, SelectNow
<1>3. CASE \E ops \in {{"pay"}, {"wpay"}} : Paying(h, ops)
    BY <1>1, <1>3, InsertPaymentNow, InsertRowsNow, UpdatePaidNow, LinesNow, PayLooksNow,
       RowsFailNow, DeletePaymentNow
    DEF Paying
<1>4. CASE Ordering(h) \/ WebCloseLines(h)
    BY <1>4, InsertOrderNow, OrderEndsNow, PayLooksNow DEF Ordering
<1>5. CASE TakingBack(h)
    BY <1>5, VoidAllocsNow, VoidReadNow, VoidWriteNow, VoidDeleteRowsNow, VoidRefundNow
    DEF TakingBack
<1> QED
    BY <1>1, <1>2, <1>3, <1>4, <1>5 DEF Calm

LEMMA SerialNext ==
    ASSUME Serial, Tidy, SerialInv, Next
    PROVE  SerialInv'
<1>1. PICK h \in Handlers :
          \/ Beginning(h) \/ Calm(h) \/ Looking(h) \/ Writing(h) \/ CollectBill(h)
          \/ \E s \in Sessions : SetBill(s)
    BY NextCases
<1>2. SeatInv'
    BY SeatNext DEF SerialInv
<1> QED
    BY <1>1, <1>2, BeginNow, CalmNow, LookingNow, WritingNow, CollectBillNow, SetBillNow

LEMMA SerialInit ==
    ASSUME Init
    PROVE  SerialInv
<1>1. \A p \in Payments : pays[p].rows = NoRows /\ pays[p].st = "none"
    BY DEF Init, TablesInit
<1>2. \A p \in Payments, l \in Lines : pays[p].rows[l] = 0
    BY <1>1 DEF NoRows
<1>3. \A l \in Lines : allocated[l] = 0 /\ order[l].paid = 0
    BY DEF Init, TablesInit, NoRows
<1>4. Books
    BY <1>1, <1>2, <1>3, NoUnits DEF Books
<1>5. Now(Idle)
    BY <1>1, <1>3, IdleStation DEF Now, Balanced, Behind, Rowed, Idle
<1> QED
    BY <1>4, <1>5, SeatInit DEF SerialInv, Init, TablesInit

LEMMA SerialStutter ==
    ASSUME SerialInv, UNCHANGED tableVars
    PROVE  SerialInv'
<1>1. SeatInv' /\ UNCHANGED <<order, pays, allocated, req>>
    BY SeatStutter DEF SerialInv, tableVars, dbVars
<1>2. Books'
    BY <1>1, BooksStay DEF SerialInv
<1>3. Quiet' => Now(Idle)'
    BY <1>1, StillNow DEF SerialInv, Quiet
<1>4. ASSUME NEW h \in Handlers, req'[h] # Idle
      PROVE  Now(req[h])'
    BY <1>1, <1>4
    DEF SerialInv, Now, Station, Balanced, Behind, Rowed, OrdersOf, LinesOf, AllPaid, WithinOpen
<1> QED
    BY <1>1, <1>2, <1>3, <1>4 DEF SerialInv

LEMMA SerialInvariance ==
    ASSUME Serial, Tidy
    PROVE  Spec => []SerialInv
<1>1. SerialInv /\ [Next]_tableVars => SerialInv'
    BY SerialNext, SerialStutter
<1> QED
    BY <1>1, SerialInit, PTL DEF Spec

\* When requests follow one another and none breaks off, paid_quantity of every
\* line is, between requests, the number of units the allocation rows pay for,
\* through collects of both servers, payments that are deleted again and voids.
THEOREM PaidIsTheSum ==
    ASSUME Serial, Tidy
    PROVE  Spec => []PaidIsSum
<1>1. SerialInv => PaidIsSum
    BY IdleStation DEF SerialInv, Books, PaidIsSum, Now, Balanced
<1> QED
    BY <1>1, SerialInvariance, PTL

\* In the same setting a payment counts, between requests, exactly if it has
\* rows.
THEOREM PaymentsHaveRows ==
    ASSUME Serial, Tidy
    PROVE  Spec => []PaymentHasRows
<1>1. SerialInv => PaymentHasRows
    BY DEF SerialInv, Books, PaymentHasRows, Now, Rowed, Idle
<1> QED
    BY <1>1, SerialInvariance, PTL

-----------------------------------------------------------------------------
(* The promise of the floor *)

\* The mapping of Promise, by name.
Party == [s \in Sessions |-> [table |-> sess[s].table, phase |-> Phase(sess[s].st)]]
Of == [l \in Lines |-> IF order[l].stage = "line" THEN order[l].sid ELSE None]
Owed == [l \in Lines |-> IF order[l].stage = "line" THEN order[l].qty - allocated[l] ELSE 0]
Part == [p \in Payments |-> pays[p].rows]

\* Each step of the promise, said of the mapping.
LEMMA SeatIs ==
    ASSUME NEW s \in Sessions, NEW t \in Tables, Party[s].phase = "none",
           \A q \in Sessions : Party[q].phase \in {"seated", "settled"} => Party[q].table # t,
           Party' = [Party EXCEPT ![s] = [table |-> t, phase |-> "seated"]],
           UNCHANGED <<Of, Owed, Part>>
    PROVE  Promise!Next
<1>1. Promise!Seat(s, t)
    BY DEF Promise!Seat, Promise!Free, Promise!Here, Party, Of, Owed, Part
<1> QED
    BY <1>1 DEF Promise!Next

LEMMA ChangeIs ==
    ASSUME NEW s \in Sessions, NEW t \in Tables, Party[s].phase \in {"seated", "settled"},
           \A q \in Sessions : Party[q].phase \in {"seated", "settled"} => Party[q].table # t,
           Party' = [Party EXCEPT ![s].table = t],
           UNCHANGED <<Of, Owed, Part>>
    PROVE  Promise!Next
<1>1. Promise!Change(s, t)
    BY DEF Promise!Change, Promise!Free, Promise!Here, Party, Of, Owed, Part
<1> QED
    BY <1>1 DEF Promise!Next

LEMMA OrderLineIs ==
    ASSUME NEW s \in Sessions, NEW l \in Lines, NEW q \in 1 .. MaxQty,
           Party[s].phase = "seated", Of[l] = None,
           Of' = [Of EXCEPT ![l] = s], Owed' = [Owed EXCEPT ![l] = q],
           UNCHANGED <<Party, Part>>
    PROVE  Promise!Next
<1>1. Promise!OrderLine(s, l, q)
    BY DEF Promise!OrderLine, Promise!Seated, Party, Of, Owed, Part
<1> QED
    BY <1>1 DEF Promise!Next

LEMMA PayIs ==
    ASSUME NEW s \in Sessions, NEW p \in Payments, NEW a \in [Lines -> 0 .. MaxQty],
           Party[s].phase = "seated", Part[p] = NoRows, a # NoRows,
           \A l \in Lines : a[l] <= Owed[l] /\ (a[l] > 0 => Of[l] = s),
           Owed' = [l \in Lines |-> Owed[l] - a[l]], Part' = [Part EXCEPT ![p] = a],
           UNCHANGED <<Party, Of>>
    PROVE  Promise!Next
<1>1. Promise!Pay(s, p, a)
    BY DEF Promise!Pay, Promise!Seated, Promise!Nothing, NoRows, Party, Of, Owed, Part
<1> QED
    BY <1>1 DEF Promise!Next

LEMMA SettleIs ==
    ASSUME NEW s \in Sessions, Party[s].phase = "seated",
           \A l \in Lines : Of[l] = s => Owed[l] = 0,
           Party' = [Party EXCEPT ![s].phase = "settled"], UNCHANGED <<Of, Owed, Part>>
    PROVE  Promise!Next
<1>1. Promise!Settle(s)
    BY DEF Promise!Settle, Promise!Seated, Party, Of, Owed, Part
<1> QED
    BY <1>1 DEF Promise!Next

LEMMA LeaveIs ==
    ASSUME NEW s \in Sessions, Party[s].phase \in {"seated", "settled"},
           Party' = [Party EXCEPT ![s].phase = "gone"], UNCHANGED <<Of, Owed, Part>>
    PROVE  Promise!Next
<1>1. Promise!Leave(s)
    BY DEF Promise!Leave, Promise!Here, Party, Of, Owed, Part
<1> QED
    BY <1>1 DEF Promise!Next

LEMMA RefundIs ==
    ASSUME NEW p \in Payments, Owed' = [l \in Lines |-> Owed[l] + Part[p][l]],
           Part' = [Part EXCEPT ![p] = NoRows], UNCHANGED <<Party, Of>>
    PROVE  Promise!Next
<1>1. Promise!Refund(p)
    BY DEF Promise!Refund, Promise!Nothing, NoRows, Party, Of, Owed, Part
<1> QED
    BY <1>1 DEF Promise!Next

LEMMA ReturnIs ==
    ASSUME NEW s \in Sessions, Party[s].phase = "gone",
           \A q \in Sessions :
               Party[q].phase \in {"seated", "settled"} => Party[q].table # Party[s].table,
           Party' = [Party EXCEPT ![s].phase = "seated"], UNCHANGED <<Of, Owed, Part>>
    PROVE  Promise!Next
<1>1. Promise!Return(s)
    BY DEF Promise!Return, Promise!Free, Promise!Here, Party, Of, Owed, Part
<1> QED
    BY <1>1 DEF Promise!Next

promised == <<Party, Of, Owed, Part>>

\* The statuses, as phases.
LEMMA Phases ==
    ASSUME SerialInv, NEW s \in Sessions
    PROVE  /\ Party[s].table = sess[s].table
           /\ Party[s].phase = "none" <=> sess[s].st = "none"
           /\ Party[s].phase = "seated" <=> sess[s].st \in Billable
           /\ Party[s].phase = "gone" <=> sess[s].st = "closed"
           /\ Party[s].phase \in {"seated", "settled"} <=> sess[s].st \in Active
<1>1. sess[s].st \in Statuses
    BY DEF SerialInv, SeatInv, Inv, DbTypeOK
<1> QED
    BY <1>1 DEF Party, Phase, Statuses, Active, Billable

LEMMA FreeTable ==
    ASSUME SerialInv, NEW t, ActiveAt(t) = {}
    PROVE  \A q \in Sessions : Party[q].phase \in {"seated", "settled"} => Party[q].table # t
BY Phases DEF ActiveAt

\* One session gets another status, or another table, or both.
LEMMA PartyChanges ==
    ASSUME SerialInv, NEW s \in Sessions, NEW t, NEW st,
           sess' = [sess EXCEPT ![s] = [table |-> t, st |-> st]]
    PROVE  Party' = [Party EXCEPT ![s] = [table |-> t, phase |-> Phase(st)]]
<1>1. sess \in [Sessions -> [table: Tables \cup {None}, st: Statuses]]
    BY DEF SerialInv, SeatInv, Inv, DbTypeOK
<1> QED
    BY <1>1 DEF Party

LEMMA StatusChanges ==
    ASSUME SerialInv, NEW s \in Sessions, NEW st, SetStatus(s, st)
    PROVE  Party' = [Party EXCEPT ![s].phase = Phase(st)]
<1>1. sess \in [Sessions -> [table: Tables \cup {None}, st: Statuses]]
    BY DEF SerialInv, SeatInv, Inv, DbTypeOK
<1>2. sess' = [sess EXCEPT ![s].st = st]
    BY DEF SetStatus
<1>3. \A q \in Sessions : sess'[q] = IF q = s THEN [table |-> sess[q].table, st |-> st] ELSE sess[q]
    BY <1>1, <1>2
<1>4. PICK new : new = Phase(st)
    OBVIOUS
<1>5. \A q \in Sessions :
          Party'[q] = IF q = s THEN [table |-> sess[s].table, phase |-> new] ELSE Party[q]
    <2>1. ASSUME NEW q \in Sessions
          PROVE  /\ Party'[q] = [table |-> sess'[q].table, phase |-> Phase(sess'[q].st)]
                 /\ Party[q] = [table |-> sess[q].table, phase |-> Phase(sess[q].st)]
        BY DEF Party
    <2>2. sess'[s] = [table |-> sess[s].table, st |-> st]
        BY <1>3
    <2>3. \A q \in Sessions : q # s => sess'[q] = sess[q]
        BY <1>3
    <2>4. sess'[s].table = sess[s].table /\ sess'[s].st = st
        BY <2>2
    <2>5. Party'[s] = [table |-> sess[s].table, phase |-> new]
        <3>1. Party'[s] = [table |-> sess'[s].table, phase |-> Phase(sess'[s].st)]
            BY <2>1
        <3> QED
            BY <1>4, <2>4, <3>1, Zenon
    <2>6. ASSUME NEW q \in Sessions, q # s
          PROVE  Party'[q] = Party[q]
        BY <2>1, <2>3, <2>6
    <2> QED
        BY <2>5, <2>6
<1>6. Party[s] = [table |-> sess[s].table, phase |-> Phase(sess[s].st)]
    BY DEF Party
<1>7. [Party[s] EXCEPT !.phase = new] = [table |-> sess[s].table, phase |-> new]
    BY <1>6
<1>8. DOMAIN Party = Sessions /\ DOMAIN Party' = Sessions
      /\ Party' = [q \in Sessions |-> Party'[q]] /\ Party = [q \in Sessions |-> Party[q]]
    BY DEF Party
<1>9. Party' = [Party EXCEPT ![s] = [Party[s] EXCEPT !.phase = new]]
    BY <1>5, <1>7, <1>8
<1> QED
    BY <1>4, <1>9

LEMMA TableChanges ==
    ASSUME SerialInv, NEW s \in Sessions, NEW t, sess' = [sess EXCEPT ![s].table = t]
    PROVE  Party' = [Party EXCEPT ![s].table = t]
<1>1. sess \in [Sessions -> [table: Tables \cup {None}, st: Statuses]]
    BY DEF SerialInv, SeatInv, Inv, DbTypeOK
<1>2. sess'[s] = [table |-> t, st |-> sess[s].st] /\ \A q \in Sessions : q # s => sess'[q] = sess[q]
    BY <1>1
<1>3. PICK now : now = Phase(sess[s].st)
    OBVIOUS
<1>4. ASSUME NEW q \in Sessions
      PROVE  /\ Party'[q] = [table |-> sess'[q].table, phase |-> Phase(sess'[q].st)]
             /\ Party[q] = [table |-> sess[q].table, phase |-> Phase(sess[q].st)]
    BY DEF Party
<1>5. sess'[s].table = t /\ sess'[s].st = sess[s].st
    BY <1>2
<1>6. Party'[s] = [table |-> t, phase |-> now]
    <2>1. Party'[s] = [table |-> sess'[s].table, phase |-> Phase(sess'[s].st)]
        BY <1>4
    <2> QED
        BY <1>3, <1>5, <2>1, Zenon
<1>7. \A q \in Sessions : q # s => Party'[q] = Party[q]
    BY <1>2, <1>4
<1>8. Party[s] = [table |-> sess[s].table, phase |-> now]
    BY <1>3, <1>4, Zenon
<1>9. [Party[s] EXCEPT !.table = t] = [table |-> t, phase |-> now]
    BY <1>8
<1>10. DOMAIN Party = Sessions /\ DOMAIN Party' = Sessions
       /\ Party' = [q \in Sessions |-> Party'[q]] /\ Party = [q \in Sessions |-> Party[q]]
    BY DEF Party
<1>11. Party' = [Party EXCEPT ![s] = [Party[s] EXCEPT !.table = t]]
    BY <1>6, <1>7, <1>9, <1>10
<1> QED
    BY <1>11

LEMMA BillStays ==
    ASSUME UNCHANGED <<order, pays, allocated>>
    PROVE  UNCHANGED <<Of, Owed, Part>>
BY DEF Of, Owed, Part

LEMMA SameParty ==
    ASSUME sess' = sess
    PROVE  Party' = Party
BY DEF Party

\* A status that is the same phase is no step of the promise.
LEMMA SamePhase ==
    ASSUME SerialInv, NEW s \in Sessions, NEW st, SetStatus(s, st), Party[s].phase = Phase(st)
    PROVE  Party' = Party
<1>1. Party' = [Party EXCEPT ![s].phase = Phase(st)]
    BY StatusChanges
<1>2. [Party[s] EXCEPT !.phase = Party[s].phase] = Party[s]
    BY DEF Party
<1>3. Party = [q \in Sessions |-> Party[q]]
    BY DEF Party
<1> QED
    BY <1>1, <1>2, <1>3

LEMMA WritingKeeps ==
    ASSUME SerialInv, NEW h \in Handlers, Writing(h)
    PROVE  Promise!Next \/ UNCHANGED promised
<1>1. UNCHANGED <<Of, Owed, Part>> /\ req[h].pc # "idle"
    BY BillStays DEF Writing, InsertSession, UpdateClosed, MoveUpdate, CollectSettle, VoidReopen, At
<1>2. Attended(req[h]) /\ RequestOK(req[h], order) /\ Now(req[h])
    BY <1>1, UnderWay
<1>3. Phase("open") = "seated" /\ Phase("paid") = "settled" /\ Phase("closed") = "gone"
    BY DEF Phase
<1>4. UNCHANGED sess => UNCHANGED promised
    BY <1>1, SameParty DEF promised
<1>5. CASE InsertSession(h)
    <2>1. req[h].table \in Tables
        BY <1>2, <1>5 DEF InsertSession, At, Attended
    <2>2. CASE ~UNCHANGED sess
        <3>1. PICK s \in Sessions :
                  /\ sess[s].st = "none" /\ IndexAllows(s, req[h].table)
                  /\ sess' = [sess EXCEPT ![s] = [table |-> req[h].table, st |-> "open"]]
            BY <1>5, <2>2 DEF InsertSession
        <3>2. PICK t \in Tables : t = req[h].table
            BY <2>1
        <3>3. ActiveAt(t) = {}
            BY <3>1, <3>2 DEF IndexAllows, ActiveAt, Active
        <3>4. Party' = [Party EXCEPT ![s] = [table |-> t, phase |-> "seated"]]
            BY <1>3, <3>1, <3>2, PartyChanges
        <3>5. Party[s].phase = "none"
            BY <3>1, Phases
        <3> QED
            BY <1>1, <3>3, <3>4, <3>5, FreeTable, SeatIs
    <2> QED
        BY <1>4, <2>2
<1>6. CASE UpdateClosed(h)
    <2>1. PICK s \in Sessions : s = req[h].sid
        BY <1>2, <1>6 DEF UpdateClosed, At, RequestOK
    <2>2. Party[s].phase \in {"seated", "settled"}
        BY <1>2, <1>6, <2>1, Phases DEF UpdateClosed, At, Attended, Active
    <2>3. Party' = [Party EXCEPT ![s].phase = "gone"]
        BY <1>3, <1>6, <2>1, StatusChanges DEF UpdateClosed
    <2> QED
        BY <1>1, <2>2, <2>3, LeaveIs
<1>7. CASE MoveUpdate(h)
    <2>1. PICK s \in Sessions, t \in Tables :
              s = req[h].sid /\ t = req[h].table /\ ActiveAt(t) = {} /\ sess[s].st \in Active
        BY <1>2, <1>7 DEF MoveUpdate, At, RequestOK, Attended
    <2>2. CASE ~UNCHANGED sess
        <3>1. sess' = [sess EXCEPT ![s].table = t]
            BY <1>7, <2>1, <2>2 DEF MoveUpdate
        <3>2. Party' = [Party EXCEPT ![s].table = t]
            BY <3>1, TableChanges
        <3>3. Party[s].phase \in {"seated", "settled"}
            BY <2>1, Phases
        <3>4. \A q \in Sessions : Party[q].phase \in {"seated", "settled"} => Party[q].table # t
            BY <2>1, FreeTable
        <3> QED
            BY <1>1, <3>2, <3>3, <3>4, ChangeIs
    <2> QED
        BY <1>4, <2>2
<1>8. CASE CollectSettle(h)
    <2>1. PICK s \in Sessions : s = req[h].sid
        BY <1>2, <1>8 DEF CollectSettle, At, RequestOK
    <2>2. CASE ~UNCHANGED sess
        <3>1. Party' = [Party EXCEPT ![s].phase = "settled"]
            BY <1>3, <1>8, <2>1, <2>2, StatusChanges DEF CollectSettle
        <3>2. Party[s].phase = "seated"
            BY <1>2, <1>8, <2>1, Phases DEF CollectSettle, At, Attended
        <3>3. AllPaid(OrdersOf(s)) /\ \A l \in Lines : order[l].paid = allocated[l]
            BY <1>2, <1>8, <2>1 DEF CollectSettle, At, Now, Station, Balanced, Behind
        <3>4. ASSUME NEW l \in Lines, Of[l] = s
              PROVE  Owed[l] = 0
            <4>1. order[l].stage = "line" /\ order[l].sid = s
                BY <3>4, NoneIsNoId DEF Of
            <4>2. order[l].paid >= order[l].qty
                BY <3>3, <4>1 DEF AllPaid, LinesOf, OrdersOf
            <4>3. order[l].paid <= order[l].qty /\ order[l].paid \in Nat /\ order[l].qty \in Nat
                BY DbTypes, Fields DEF Quantities, Orders
            <4> QED
                BY <3>3, <4>1, <4>2, <4>3 DEF Owed
        <3> QED
            BY <1>1, <3>1, <3>2, <3>4, SettleIs
    <2> QED
        BY <1>4, <2>2
<1>9. CASE VoidReopen(h)
    <2>1. PICK s \in Sessions : s = req[h].sid /\ sess[s].st = "closed"
        BY <1>2, <1>9 DEF VoidReopen, At, RequestOK, Attended
    <2>2. CASE ~UNCHANGED sess
        <3>1. IndexAllows(s, sess[s].table) /\ SetStatus(s, "open")
            BY <1>9, <2>1, <2>2 DEF VoidReopen
        <3>2. ActiveAt(sess[s].table) = {}
            BY <2>1, <3>1 DEF IndexAllows, ActiveAt, Active
        <3>3. Party' = [Party EXCEPT ![s].phase = "seated"]
            BY <1>3, <3>1, StatusChanges
        <3>4. Party[s].phase = "gone" /\ Party[s].table = sess[s].table
            BY <2>1, Phases
        <3> QED
            BY <1>1, <3>2, <3>3, <3>4, FreeTable, ReturnIs
    <2> QED
        BY <1>4, <2>2
<1> QED
    BY <1>5, <1>6, <1>7, <1>8, <1>9 DEF Writing

LEMMA BillingKeeps ==
    ASSUME Serial, SerialInv, NEW h \in Handlers,
           CollectBill(h) \/ \E s \in Sessions : SetBill(s)
    PROVE  UNCHANGED promised
<1>1. UNCHANGED <<Of, Owed, Part>>
    BY BillStays DEF CollectBill, SetBill
<1>2. Phase("bill") = "seated"
    BY DEF Phase
<1>3. CASE CollectBill(h)
    <2>1. Attended(req[h]) /\ RequestOK(req[h], order) /\ req[h].op = "pay"
        BY <1>3, UnderWay DEF CollectBill, At
    <2>2. PICK s \in Sessions : s = req[h].sid /\ sess[s].st \in Billable
        BY <2>1 DEF RequestOK, Attended
    <2>3. UNCHANGED sess \/ SetStatus(s, "bill")
        BY <1>3, <2>2 DEF CollectBill
    <2> QED
        BY <1>1, <1>2, <2>2, <2>3, SameParty, SamePhase, Phases DEF promised
<1>4. CASE \E s \in Sessions : SetBill(s)
    BY <1>1, <1>2, <1>4, SamePhase, Phases DEF SetBill, promised
<1> QED
    BY <1>3, <1>4

\* What is on the bill and what of it is allocated decide what is owed.
LEMMA OwedStays ==
    ASSUME \A l \in Lines : /\ order'[l].stage = "line" <=> order[l].stage = "line"
                            /\ order[l].stage = "line" =>
                                  order'[l].sid = order[l].sid /\ order'[l].qty = order[l].qty,
           allocated' = allocated
    PROVE  UNCHANGED <<Of, Owed>>
BY DEF Of, Owed

LEMMA PartStays ==
    ASSUME \A p \in Payments : pays'[p].rows = pays[p].rows
    PROVE  Part' = Part
BY DEF Part

LEMMA OrderingKeeps ==
    ASSUME SerialInv, NEW h \in Handlers, Ordering(h)
    PROVE  Promise!Next \/ UNCHANGED promised
<1>1. Party' = Party /\ Part' = Part /\ allocated' = allocated /\ order \in Orders
    BY SameParty, PartStays, DbTypes DEF Ordering, InsertOrder, InsertLines, DeleteOrder
<1>2. req[h] \in Request /\ Station(req[h]) /\ Attended(req[h]) /\ RequestOK(req[h], order)
    BY UnderWay DEF Ordering, InsertOrder, InsertLines, DeleteOrder, At, Now
<1>3. CASE InsertOrder(h)
    <2>1. PICK l \in Lines :
              /\ order[l].stage = "none"
              /\ order' = [order EXCEPT ![l] = [sid |-> req[h].sid, qty |-> req[h].qty,
                                                paid |-> 0, stage |-> "empty"]]
        BY <1>3 DEF InsertOrder
    <2>2. order'[l].stage = "empty" /\ \A k \in Lines : k # l => order'[k] = order[k]
        BY <1>1, <2>1 DEF Orders
    <2>3. UNCHANGED <<Of, Owed>>
        BY <1>1, <2>1, <2>2, OwedStays
    <2> QED
        BY <1>1, <2>3 DEF promised
<1>4. CASE InsertLines(h) \/ DeleteOrder(h)
    <2>1. PICK l \in Lines :
              /\ req[h].ids = {l}
              /\ order[l] = [sid |-> req[h].sid, qty |-> req[h].qty, paid |-> 0, stage |-> "empty"]
        BY <1>2, <1>4 DEF InsertLines, DeleteOrder, At, Station
    <2>2. CASE UNCHANGED order
        BY <1>1, <2>2, OwedStays DEF promised
    <2>3. CASE ~UNCHANGED order
        <3>1. PICK stage \in {"line", "gone"} :
                  /\ order' = [k \in Lines |-> IF k \in req[h].ids
                                                THEN [order[k] EXCEPT !.stage = stage]
                                                ELSE order[k]]
                  /\ stage = "line" => InsertLines(h)
            BY <1>4, <2>3 DEF InsertLines, DeleteOrder
        <3>2. /\ order'[l] = [sid |-> req[h].sid, qty |-> req[h].qty, paid |-> 0, stage |-> stage]
              /\ \A k \in Lines : k # l => order'[k] = order[k]
            BY <2>1, <3>1
        <3>3. CASE stage = "gone"
            BY <1>1, <2>1, <3>2, <3>3, OwedStays DEF promised
        <3>4. CASE stage = "line"
            <4>1. PICK s, q : s = req[h].sid /\ q = req[h].qty
                OBVIOUS
            <4>2. s \in Sessions /\ q \in 1 .. MaxQty /\ sess[s].st \in Billable
                BY <1>2, <3>1, <3>4, <4>1, BoundsAreNat
                DEF InsertLines, At, RequestOK, Attended, Station, Request, Quantities
            <4>3. Party[s].phase = "seated"
                BY <4>2, Phases
            <4>4. allocated[l] = 0 /\ q - 0 = q
                BY <2>1, <4>2, Unrowed
            <4>5. /\ order[l].stage = "empty" /\ order'[l].stage = "line"
                  /\ order'[l].sid = s /\ order'[l].qty = q
                BY <2>1, <3>2, <3>4, <4>1
            <4>6. Of[l] = None /\ Of'[l] = s /\ \A k \in Lines : k # l => Of'[k] = Of[k]
                BY <3>2, <4>5 DEF Of
            <4>7. Owed'[l] = q /\ \A k \in Lines : k # l => Owed'[k] = Owed[k]
                BY <1>1, <3>2, <4>4, <4>5 DEF Owed
            <4>8. /\ Of = [k \in Lines |-> Of[k]] /\ Of' = [k \in Lines |-> Of'[k]]
                  /\ Owed = [k \in Lines |-> Owed[k]] /\ Owed' = [k \in Lines |-> Owed'[k]]
                BY DEF Of, Owed
            <4>9. Of' = [Of EXCEPT ![l] = s] /\ Owed' = [Owed EXCEPT ![l] = q]
                BY <4>6, <4>7, <4>8
            <4> QED
                BY <1>1, <4>2, <4>3, <4>6, <4>9, OrderLineIs
        <3> QED
            BY <3>3, <3>4
    <2> QED
        BY <2>2, <2>3
<1> QED
    BY <1>3, <1>4 DEF Ordering

\* The rows are the payment, as the promise sees it.
LEMMA RowsKeep ==
    ASSUME SerialInv, NEW h \in Handlers, NEW ops \in {{"pay"}, {"wpay"}}, InsertRows(h, ops)
    PROVE  Promise!Next
<1>1. req[h].pc = "rows" /\ req[h].op \in {"pay", "wpay"} /\ UNCHANGED <<sess, order>>
    BY DEF InsertRows, At
<1>2. req[h] \in Request /\ Now(req[h]) /\ Attended(req[h]) /\ RequestOK(req[h], order)
    BY <1>1, UnderWay
<1>3. PICK s \in Sessions, p \in Payments, a \in Parts :
          s = req[h].sid /\ p = req[h].pay /\ a = req[h].ask
    BY <1>1, <1>2 DEF Now, Station, RequestOK
<1>4. /\ pays[p].rows = NoRows /\ Concerned(a) # {} /\ WithinOpen(a)
      /\ Concerned(a) \subseteq LinesOf(OrdersOf(s)) /\ sess[s].st \in Billable
    BY <1>1, <1>2, <1>3 DEF Now, Station, Attended
<1>5. /\ pays' = [pays EXCEPT ![p].rows = a]
      /\ allocated' = [l \in Lines |-> allocated[l] + a[l]]
    BY <1>3 DEF InsertRows
<1>6. \A l \in Lines : order[l].paid = allocated[l]
    BY <1>1, <1>2 DEF Now, Balanced, Behind
<1>7. \A l \in Lines : /\ order[l].paid \in Nat /\ order[l].qty \in Nat /\ allocated[l] \in Nat
                       /\ order[l].paid <= order[l].qty /\ a[l] \in Nat
    BY DbTypes, Fields, BoundsAreNat DEF Parts, Quantities
<1>8. Party[s].phase = "seated" /\ Party' = Party
    BY <1>1, <1>4, Phases, SameParty
<1>9. Of' = Of
    BY <1>1 DEF Of
<1>10. Part[p] = NoRows /\ Part' = [Part EXCEPT ![p] = a]
    BY <1>4, <1>5, DbTypes DEF Part
<1>11. a # NoRows
    BY <1>4 DEF NoRows, Concerned
<1>12. ASSUME NEW l \in Lines
       PROVE  a[l] <= Owed[l] /\ (a[l] > 0 => Of[l] = s /\ order[l].stage = "line")
    <2>1. CASE a[l] = 0
        BY <1>6, <1>7, <2>1 DEF Owed
    <2>2. CASE a[l] > 0
        BY <1>4, <1>6, <1>7, <2>2 DEF Owed, Of, WithinOpen, Concerned, LinesOf, OrdersOf
    <2> QED
        BY <1>7, <2>1, <2>2
<1>13. Owed' = [l \in Lines |-> Owed[l] - a[l]]
    <2>1. ASSUME NEW l \in Lines
          PROVE  Owed'[l] = Owed[l] - a[l]
        <3>1. CASE order[l].stage = "line"
            BY <1>1, <1>5, <1>7, <3>1 DEF Owed
        <3>2. CASE order[l].stage # "line"
            <4>1. a[l] = 0
                BY <1>7, <1>12, <3>2
            <4> QED
                BY <1>1, <3>2, <4>1 DEF Owed
        <3> QED
            BY <3>1, <3>2
    <2> QED
        BY <2>1 DEF Owed
<1> QED
    BY <1>8, <1>9, <1>10, <1>11, <1>12, <1>13, PayIs DEF Parts, Quantities

LEMMA PayingKeeps ==
    ASSUME Tidy, SerialInv, NEW h \in Handlers, NEW ops \in {{"pay"}, {"wpay"}}, Paying(h, ops)
    PROVE  Promise!Next \/ UNCHANGED promised
<1>1. CASE InsertRows(h, ops)
    BY <1>1, RowsKeep
<1>2. CASE InsertPayment(h, ops)
    <2>1. PICK p \in Payments :
              /\ pays[p].st = "none"
              /\ pays' = [pays EXCEPT ![p] = [st |-> "paid", sid |-> req[h].sid, rows |-> NoRows]]
        BY <1>2 DEF InsertPayment
    <2>2. pays[p].rows = NoRows
        BY <2>1, DbTypes DEF Books
    <2>3. \A q \in Payments : pays'[q].rows = pays[q].rows
        BY <2>1, <2>2, DbTypes
    <2> QED
        BY <1>2, <2>3, SameParty, PartStays, OwedStays DEF InsertPayment, promised
<1>3. CASE UpdatePaid(h, ops)
    <2>1. PICK l, x : l \in Lines /\ order' = [order EXCEPT ![l].paid = x]
        <3>1. req[h] \in Request
            BY <1>3, UnderWay DEF UpdatePaid, At
        <3> QED
            BY <1>3, <3>1 DEF UpdatePaid, Request
    <2>2. \A k \in Lines : /\ order'[k].stage = order[k].stage /\ order'[k].sid = order[k].sid
                           /\ order'[k].qty = order[k].qty
        BY <2>1, DbTypes DEF Orders
    <2> QED
        BY <1>3, <2>2, SameParty, PartStays, OwedStays DEF UpdatePaid, promised
<1>4. CASE DeletePayment(h)
    <2>1. \A q \in Payments : pays'[q].rows = pays[q].rows
        BY <1>4, DbTypes DEF DeletePayment
    <2> QED
        BY <1>4, <2>1, SameParty, PartStays, OwedStays DEF DeletePayment, promised
<1>5. CASE CollectLines(h) \/ WebCollectLines(h) \/ CollectRecheck(h) \/ WebRowsFail(h)
           \/ WebCollected(h)
    <2>1. UNCHANGED <<sess, order, pays, allocated>>
        BY <1>5 DEF CollectLines, WebCollectLines, CollectRecheck, WebRowsFail, WebCollected, dbVars
    <2> QED
        BY <2>1, SameParty, BillStays DEF promised
<1> QED
    BY <1>1, <1>2, <1>3, <1>4, <1>5, NoBreak DEF Paying

LEMMA TakingBackKeeps ==
    ASSUME SerialInv, NEW h \in Handlers, TakingBack(h)
    PROVE  Promise!Next \/ UNCHANGED promised
<1>1. Party' = Party
    BY SameParty DEF TakingBack, VoidAllocs, VoidRead, VoidWrite, VoidDeleteRows, VoidRefund, dbVars
<1>2. CASE VoidAllocs(h) \/ VoidRead(h)
    BY <1>1, <1>2, BillStays DEF VoidAllocs, VoidRead, dbVars, promised
<1>3. CASE VoidWrite(h)
    <2>1. \A k \in Lines : /\ order'[k].stage = order[k].stage /\ order'[k].sid = order[k].sid
                           /\ order'[k].qty = order[k].qty
        BY <1>3, DbTypes DEF VoidWrite, Orders
    <2> QED
        BY <1>1, <1>3, <2>1, PartStays, OwedStays DEF VoidWrite, promised
<1>4. CASE VoidDeleteRows(h)
    <2>1. PICK p \in Payments : p = req[h].pay
        BY <1>4, UnderWay DEF VoidDeleteRows, At, RequestOK
    <2>2. /\ pays' = [pays EXCEPT ![p].rows = NoRows]
          /\ allocated' = [l \in Lines |-> allocated[l] - pays[p].rows[l]] /\ order' = order
        BY <1>4, <2>1 DEF VoidDeleteRows
    <2>3. Of' = Of /\ Part' = [Part EXCEPT ![p] = NoRows]
        BY <2>2, DbTypes DEF Of, Part
    <2>4. ASSUME NEW l \in Lines
          PROVE  Owed'[l] = Owed[l] + Part[p][l]
        <3>1. /\ allocated[l] \in Nat /\ order[l].qty \in Nat /\ pays[p].rows[l] \in Nat
              /\ Part[p][l] = pays[p].rows[l]
            BY DbTypes, Fields, BoundsAreNat DEF Quantities, Orders, Part
        <3>2. CASE order[l].stage = "line"
            BY <2>2, <3>1, <3>2 DEF Owed
        <3>3. CASE order[l].stage # "line"
            <4>1. pays[p].rows[l] = 0
                BY <3>3, Unrowed
            <4> QED
                BY <2>2, <3>1, <3>3, <4>1 DEF Owed
        <3> QED
            BY <3>2, <3>3
    <2>5. Owed' = [l \in Lines |-> Owed[l] + Part[p][l]]
        BY <2>4 DEF Owed
    <2> QED
        BY <1>1, <2>3, <2>5, RefundIs
<1>5. CASE VoidRefund(h)
    <2>1. \A q \in Payments : pays'[q].rows = pays[q].rows
        BY <1>5, DbTypes DEF VoidRefund
    <2> QED
        BY <1>1, <1>5, <2>1, PartStays, OwedStays DEF VoidRefund, promised
<1> QED
    BY <1>2, <1>3, <1>4, <1>5 DEF TakingBack

LEMMA PromiseStep ==
    ASSUME Serial, Tidy, SerialInv, Next
    PROVE  Promise!Next \/ UNCHANGED promised
<1>1. PICK h \in Handlers :
          \/ Beginning(h) \/ Calm(h) \/ Looking(h) \/ Writing(h) \/ CollectBill(h)
          \/ \E s \in Sessions : SetBill(s)
    BY NextCases
<1>2. UNCHANGED dbVars => UNCHANGED promised
    BY SameParty, BillStays DEF dbVars, promised
<1>3. CASE Beginning(h)
    BY <1>2, <1>3 DEF Beginning, Open, WebOpen, Move, Order, WebOrder, Release, Collect,
                     WebCollect, WebClose, Void
<1>4. CASE Looking(h)
    BY <1>2, <1>4 DEF Looking, MoveLook, VoidSession, VoidOther
<1>5. CASE Calm(h)
    <2>1. CASE WebCloseLines(h) \/ \E ops \in {{"pay"}, {"wpay"}, {"wclose"}} : SelectOrders(h, ops)
        BY <1>2, <2>1 DEF WebCloseLines, SelectOrders
    <2> QED
        BY <1>5, <2>1, NoBreak, OrderingKeeps, PayingKeeps, TakingBackKeeps DEF Calm
<1>6. CASE Writing(h)
    BY <1>6, WritingKeeps
<1>7. CASE CollectBill(h) \/ \E s \in Sessions : SetBill(s)
    BY <1>7, BillingKeeps
<1> QED
    BY <1>1, <1>3, <1>4, <1>5, <1>6, <1>7

LEMMA PromiseInit ==
    ASSUME Init
    PROVE  Promise!Init
<1>1. Phase("none") = "none"
    BY DEF Phase
<1>2. Party = [s \in Sessions |-> [table |-> None, phase |-> "none"]]
    BY <1>1 DEF Init, TablesInit, Party
<1>3. Of = [l \in Lines |-> None] /\ Owed = NoRows /\ Part = [p \in Payments |-> NoRows]
    BY DEF Init, TablesInit, Of, Owed, Part, NoRows
<1> QED
    BY <1>2, <1>3 DEF Promise!Init, Promise!Nothing, NoRows, Party, Of, Owed, Part

\* One request at a time, none broken off: the statements of both servers keep
\* the promise of the floor.  A payment happens with its rows, a refund with
\* their deletion, and every other statement between is none of the guest's
\* business.
THEOREM KeepsPromise ==
    ASSUME Serial, Tidy
    PROVE  Spec => PromiseKept
<1>1. Init => Promise!Init
    BY PromiseInit
<1>2. SerialInv /\ [Next]_tableVars => [Promise!Next]_promised
    <2>1. UNCHANGED tableVars => UNCHANGED promised
        BY SameParty, BillStays DEF tableVars, dbVars, promised
    <2> QED
        BY <2>1, PromiseStep
<1> QED
    BY <1>1, <1>2, SerialInvariance, PTL
    DEF Spec, PromiseKept, Promise!Spec, promised, Party, Of, Owed, Part
=============================================================================
