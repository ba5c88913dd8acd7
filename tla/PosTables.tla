----------------------------- MODULE PosTables ------------------------------
(***************************************************************************)
(* The tables a bill is made of, shared by Nest (NestFloor) and the web    *)
(* POS (WebSettlement): pos_table_sessions, pos_orders and their lines,    *)
(* pos_payments and pos_payment_line_allocations.  Both servers reach them *)
(* through PostgREST, one statement per await and no transaction around    *)
(* several, so a request is a little program (req) whose local variables   *)
(* hold what it has read, and every statement is a step of its own.        *)
(*                                                                         *)
(* An order stands for its lines: the lines of one order are inserted by   *)
(* one statement, and several lines are several orders.  Not kept: prices, *)
(* tips, names, is_fully_paid, the kitchen status of an order and fiscal   *)
(* data, which no modelled guard reads.                                    *)
(***************************************************************************)
EXTENDS Integers

CONSTANTS
    Sessions, Tables, Lines, Payments,  \* ids
    Handlers,       \* requests that can be in flight at a time
    None,
    MaxQty,         \* bound: the largest quantity of a line
    Ops,            \* the operations of this instance
    Allowed,        \* the behaviours of this instance, see MayBegin and Fault
    MaxFaults       \* bound: the number of faults

ASSUME NoneIsNoId == None \notin Sessions \cup Tables \cup Payments
ASSUME BoundsAreNat == MaxQty \in Nat /\ MaxFaults \in Nat

VARIABLES
    sess,           \* pos_table_sessions: table and status
    order,          \* pos_orders with pos_order_lines
    pays,           \* pos_payments with their allocation rows
    allocated,      \* sum of the allocation rows of every line
    req,            \* the requests in flight
    faults

dbVars == <<sess, order, pays, allocated>>
tableVars == <<dbVars, req, faults>>

Quantities == 0 .. MaxQty
NoRows == [l \in Lines |-> 0]
Parts == [Lines -> Quantities]
Concerned(part) == {l \in Lines : part[l] > 0}

\* The partial unique index pos_table_sessions_one_active_per_table_idx.
Active == {"open", "bill", "paid"}
Statuses == Active \cup {"none", "closed"}

ActiveAt(t) == {s \in Sessions : sess[s].table = t /\ sess[s].st \in Active}
IndexAllows(s, t) == ActiveAt(t) \subseteq {s}

Pcs == {"idle", "insert", "occupied", "move", "newOrder", "newLines", "undo",
        "orders", "lines", "payment", "rows", "write", "recheck", "settle",
        "unpay", "close", "allocs", "takeback", "reduce", "refund", "session",
        "other", "reopen"}
Idle == [op |-> "none", pc |-> "idle", sid |-> None, table |-> None, qty |-> 0,
         ids |-> {}, seen |-> NoRows, ask |-> NoRows, todo |-> {}, pay |-> None]
Request == [op: Ops \cup {"none"}, pc: Pcs, sid: Sessions \cup {None},
            table: Tables \cup {None}, qty: Quantities, ids: SUBSET Lines,
            seen: [Lines -> Nat], ask: [Lines -> Nat], todo: SUBSET Lines,
            pay: Payments \cup {None}]

TablesTypeOK ==
    /\ sess \in [Sessions -> [table: Tables \cup {None}, st: Statuses]]
    /\ order \in [Lines -> [sid: Sessions \cup {None}, qty: Quantities, paid: Nat,
                            stage: {"none", "empty", "line", "gone"}]]
    /\ pays \in [Payments -> [st: {"none", "paid", "refunded", "deleted"},
                              sid: Sessions \cup {None}, rows: [Lines -> Nat]]]
    /\ allocated \in [Lines -> Int]
    /\ req \in [Handlers -> Request]
    /\ faults \in 0 .. MaxFaults

TablesInit ==
    /\ sess = [s \in Sessions |-> [table |-> None, st |-> "none"]]
    /\ order = [l \in Lines |-> [sid |-> None, qty |-> 0, paid |-> 0, stage |-> "none"]]
    /\ pays = [p \in Payments |-> [st |-> "none", sid |-> None, rows |-> NoRows]]
    /\ allocated = NoRows
    /\ req = [h \in Handlers |-> Idle]
    /\ faults = 0

-----------------------------------------------------------------------------
(* Requests *)

Fault(kind) == kind \in Allowed /\ faults < MaxFaults /\ faults' = faults + 1

\* Without "concurrent" a request starts when no other is in flight.
MayBegin(op) ==
    /\ op \in Ops
    /\ "concurrent" \in Allowed \/ \A g \in Handlers : req[g] = Idle

Goto(h, r) == req' = [req EXCEPT ![h] = r]
At(h, ops, pc) == req[h].op \in ops /\ req[h].pc = pc
Begin(h, r) == req[h] = Idle /\ MayBegin(r.op) /\ Goto(h, r)
End(h) == Goto(h, Idle)

\* A request ends between two statements: the process dies, or a statement
\* fails and the handler returns.
Vanish(h) ==
    /\ req[h] # Idle
    /\ Fault("vanish")
    /\ End(h)
    /\ UNCHANGED dbVars

-----------------------------------------------------------------------------
(* The statements both servers use *)

SetStatus(s, st) == sess' = [sess EXCEPT ![s].st = st]

\* insert into pos_table_sessions; the index refuses a second active row.
InsertSession(h) ==
    /\ At(h, {"open", "wopen"}, "insert")
    /\ \E s \in Sessions :
          /\ sess[s].st = "none"
          /\ \/ /\ IndexAllows(s, req[h].table)
                /\ sess' = [sess EXCEPT ![s] = [table |-> req[h].table, st |-> "open"]]
             \/ ~IndexAllows(s, req[h].table) /\ UNCHANGED sess
    /\ End(h)
    /\ UNCHANGED <<order, pays, allocated, faults>>

\* Mutant: a status the enum does not have.
UpdateReleased(h) ==
    /\ At(h, {"release", "wclose"}, "close")
    /\ SetStatus(req[h].sid, "released")
    /\ End(h)
    /\ UNCHANGED <<order, pays, allocated, faults>>

\* update pos_table_sessions set status = 'closed', whatever it is by now.
UpdateClosed(h) ==
    /\ At(h, {"release", "wclose"}, "close")
    /\ SetStatus(req[h].sid, "closed")
    /\ End(h)
    /\ UNCHANGED <<order, pays, allocated, faults>>

\* insert into pos_orders, then pos_order_lines; when the lines fail the
\* order is deleted again.
InsertOrder(h) ==
    /\ At(h, {"order", "worder"}, "newOrder")
    /\ \E l \in Lines :
          /\ order[l].stage = "none"
          /\ order' = [order EXCEPT ![l] = [sid |-> req[h].sid, qty |-> req[h].qty,
                                            paid |-> 0, stage |-> "empty"]]
          /\ Goto(h, [req[h] EXCEPT !.pc = "newLines", !.ids = {l}])
    /\ UNCHANGED <<sess, pays, allocated, faults>>

InsertLines(h) ==
    /\ At(h, {"order", "worder"}, "newLines")
    /\ \/ /\ order' = [l \in Lines |-> IF l \in req[h].ids
                                        THEN [order[l] EXCEPT !.stage = "line"]
                                        ELSE order[l]]
          /\ End(h)
          /\ UNCHANGED faults
       \/ /\ Fault("linesfail")
          /\ Goto(h, [req[h] EXCEPT !.pc = "undo"])
          /\ UNCHANGED order
    /\ UNCHANGED <<sess, pays, allocated>>

DeleteOrder(h) ==
    /\ At(h, {"order", "worder"}, "undo")
    /\ order' = [l \in Lines |-> IF l \in req[h].ids
                                  THEN [order[l] EXCEPT !.stage = "gone"]
                                  ELSE order[l]]
    /\ End(h)
    /\ UNCHANGED <<sess, pays, allocated, faults>>

-----------------------------------------------------------------------------
(* The statements of a payment *)

OrdersOf(s) == {l \in Lines : order[l].sid = s /\ order[l].stage \in {"empty", "line"}}
LinesOf(ids) == {l \in ids : order[l].stage = "line"}
AllPaid(ids) == \A l \in LinesOf(ids) : order[l].paid >= order[l].qty

SelectOrders(h, ops) ==
    /\ At(h, ops, "orders")
    /\ Goto(h, [req[h] EXCEPT !.pc = "lines", !.ids = OrdersOf(req[h].sid)])
    /\ UNCHANGED <<dbVars, faults>>

\* What is asked for is paid for lines of this session; "open" is its check.
WithinOpen(ask) == \A l \in Lines : ask[l] > 0 => ask[l] + order[l].paid <= order[l].qty

InsertPayment(h, ops) ==
    /\ At(h, ops, "payment")
    /\ \E p \in Payments :
          /\ pays[p].st = "none"
          /\ pays' = [pays EXCEPT ![p] = [st |-> "paid", sid |-> req[h].sid, rows |-> NoRows]]
          /\ Goto(h, [req[h] EXCEPT !.pc = "rows", !.pay = p])
    /\ UNCHANGED <<sess, order, allocated, faults>>

InsertRows(h, ops) ==
    /\ At(h, ops, "rows")
    /\ pays' = [pays EXCEPT ![req[h].pay].rows = req[h].ask]
    /\ allocated' = [l \in Lines |-> allocated[l] + req[h].ask[l]]
    /\ Goto(h, [req[h] EXCEPT !.pc = "write"])
    /\ UNCHANGED <<sess, order, faults>>

\* paid_quantity is computed from what was read and written unconditionally.
UpdatePaid(h, ops) ==
    /\ At(h, ops, "write")
    /\ \E l \in req[h].todo :
          /\ order' = [order EXCEPT ![l].paid = req[h].seen[l] + req[h].ask[l]]
          /\ Goto(h, [req[h] EXCEPT !.todo = @ \ {l}])
    /\ UNCHANGED <<sess, pays, allocated, faults>>
=============================================================================
