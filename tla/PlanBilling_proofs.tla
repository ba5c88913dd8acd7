------------------------- MODULE PlanBilling_proofs -------------------------
(***************************************************************************)
(* Proofs about PlanBilling, for any number of subscriptions, payments and *)
(* requests: the types are right, whatever happens; as long as no          *)
(* subscription ends, the claim of the first payment keeps a restaurant    *)
(* from having two; as long as the requests follow one another, Mollie     *)
(* and the row agree, what fails is dunned and what is paid for is served; *)
(* and then there is one subscription even if requests break off.          *)
(***************************************************************************)
EXTENDS PlanBilling, TLAPS

\* What a request has to hold where it stands, for its next step to make sense.
Firsts == {"existing", "get", "list", "claim", "take", "again", "create", "release"}
Renewals == {"state", "stamp", "getsub"}
Syncs == {"sync", "due", "mark", "write"}
Returns == {"idle", "done", "restore", "cpay", "cut", "fin"}
RequestOK(r) ==
    /\ r.pc \in Firsts => r.hook.kind = "first"
    /\ r.pc \in Renewals => r.hook.kind = "renewal"
    /\ r.pc \in {"get", "ccancel", "cutcancel"} => r.id \in Subs
    /\ r.pc \in Syncs => r.id \in Subs /\ r.ret \in Returns
    /\ r.pc = "scancel" => r.ent.sid \in Subs

Good == {r \in Request : RequestOK(r)}
RequestsOK == req \in [Handlers -> Good]

Payment == [st: {"none", "open", "paid"}, plan: Plans \cup {Free}]
MarketOK ==
    /\ mollie \in [Subs -> Sub]
    /\ pay \in [Pays -> Payment]
    /\ hooks \subseteq Hook
    /\ now \in 1 .. MaxTime
    /\ paidUntil \in Nat
    /\ owed \subseteq Subs
NotesOK == hist \subseteq Allowed \cup Notes /\ faults \in 0 .. MaxFaults

Types == row \in Row /\ MarketOK /\ RequestsOK /\ NotesOK

-----------------------------------------------------------------------------
(* Frames *)

LEMMA TypesAreTypeOK == Types => TypeOK
BY DEF Types, MarketOK, NotesOK, RequestsOK, Good, Payment, TypeOK

LEMMA GoodIs == ASSUME NEW h \in Handlers, Types PROVE req[h] \in Request /\ RequestOK(req[h])
BY DEF Types, RequestsOK, Good

LEMMA NowIsNat == Types => now \in Nat /\ now # 0
BY BoundsAreNat DEF Types, MarketOK

LEMMA CalmOK == NotesOK /\ Calm => NotesOK'
BY DEF Calm, NotesOK

LEMMA HappensOK ==
    ASSUME NotesOK, NEW what \in SUBSET Notes, Happens(what)
    PROVE  NotesOK'
BY DEF Happens, NotesOK

LEMMA FaultOK == ASSUME NotesOK, NEW kind, Fault(kind) PROVE NotesOK'
BY BoundsAreNat DEF Fault, NotesOK

LEMMA BesideOK == ASSUME NotesOK, NEW kind, Beside(kind) PROVE NotesOK'
BY CalmOK, FaultOK DEF Beside

LEMMA MarketStays == MarketOK /\ UNCHANGED market => MarketOK'
BY DEF market, MarketOK

\* A request goes on with r.
LEMMA GoOn ==
    ASSUME RequestsOK, NEW h \in Handlers, NEW r \in Good, Goto(h, r)
    PROVE  RequestsOK'
BY DEF RequestsOK, Goto

\* A request takes a step that does not change the market.
LEMMA GoOnHere ==
    ASSUME Types, NEW h \in Handlers, NEW r \in Good, Goto(h, r), row' \in Row, NotesOK',
           UNCHANGED market
    PROVE  Types'
BY GoOn, MarketStays DEF Types

LEMMA NewRowOK == NewRow \in Row
BY DEF NewRow, Row

LEMMA NoSubOK == NoSub \in Sub
BY DEF NoSub, Sub

\* Mollie's calls.
LEMMA HookIs ==
    ASSUME NEW k \in Hook \cup {NoHook}
    PROVE  /\ k.kind = "first" => k.id \in Pays /\ k.paid
           /\ k.kind = "renewal" => k.id \in Subs /\ k.paid \in BOOLEAN
           /\ k.kind = "mandate" => k.id = None
<1>1. CASE k \in [kind: {"first"}, id: Pays, paid: {TRUE}]
    BY <1>1
<1>2. CASE k \in [kind: {"renewal"}, id: Subs, paid: BOOLEAN]
    BY <1>2
<1>3. CASE k \in [kind: {"mandate"}, id: {None}, paid: {TRUE}]
    BY <1>3
<1>4. CASE k = NoHook
    BY <1>4 DEF NoHook
<1> QED
    BY <1>1, <1>2, <1>3, <1>4 DEF Hook

LEMMA HookMakes ==
    /\ \A p \in Pays : [kind |-> "first", id |-> p, paid |-> TRUE] \in Hook
    /\ \A s \in Subs, paid \in BOOLEAN : [kind |-> "renewal", id |-> s, paid |-> paid] \in Hook
    /\ [kind |-> "mandate", id |-> None, paid |-> TRUE] \in Hook
BY DEF Hook

\* The fields of a request.
LEMMA Fields ==
    ASSUME NEW r \in Request
    PROVE  /\ r.pc \in Pcs /\ r.ret \in {"none"} \cup Pcs /\ r.hook \in Hook \cup {NoHook}
           /\ r.plan \in Plans \cup {Free} /\ r.id \in Subs \cup Pays \cup {None}
           /\ r.ent \in Row /\ r.seen \in Row /\ r.sub \in Sub
           /\ r.clear \in BOOLEAN /\ r.keep \in BOOLEAN
BY DEF Request

\* Statements at which a request has to hold nothing.
Plain == Pcs \ (Firsts \cup Renewals \cup Syncs \cup {"get", "ccancel", "cutcancel", "scancel"})

LEMMA PlainOK == ASSUME NEW r \in Request, r.pc \in Plain PROVE r \in Good
BY DEF Good, RequestOK, Plain

LEMMA IdleOK == Idle \in Request /\ Idle \in Good
<1>1. Idle \in Request
    BY NewRowOK, NoSubOK DEF Idle, Request, Pcs
<1>2. Idle.pc \in Plain
    BY DEF Idle, Plain, Pcs, Firsts, Renewals, Syncs
<1> QED
    BY <1>1, <1>2, PlainOK

\* Going on to a statement that needs nothing, with other contents.
LEMMA MoveOK ==
    ASSUME NEW r \in Request, NEW pc \in Plain, NEW id \in Subs \cup Pays \cup {None}
    PROVE  /\ [r EXCEPT !.pc = pc] \in Good
           /\ [r EXCEPT !.pc = pc, !.id = id] \in Good
<1> DEFINE x == [r EXCEPT !.pc = pc]
           y == [r EXCEPT !.pc = pc, !.id = id]
<1>1. x \in Request /\ y \in Request
    BY DEF Request, Plain
<1>2. x.pc = pc /\ y.pc = pc
    BY DEF Request
<1> HIDE DEF x, y
<1>3. x \in Good /\ y \in Good
    BY <1>1, <1>2, PlainOK
<1> QED
    BY <1>3 DEF x, y

\* Going on within a call of the webhook.
LEMMA MoveFirst ==
    ASSUME NEW r \in Request, r.hook.kind = "first", NEW pc \in Firsts \ {"get"},
           NEW id \in Subs \cup Pays \cup {None}
    PROVE  /\ [r EXCEPT !.pc = pc] \in Good
           /\ [r EXCEPT !.pc = pc, !.id = id] \in Good
<1> DEFINE x == [r EXCEPT !.pc = pc]
           y == [r EXCEPT !.pc = pc, !.id = id]
<1>0. pc \in Pcs
    BY DEF Firsts, Pcs
<1>1. x \in Request /\ y \in Request
    BY <1>0 DEF Request
<1>2. x.pc = pc /\ y.pc = pc /\ x.hook = r.hook /\ y.hook = r.hook
    BY DEF Request
<1> HIDE DEF x, y
<1>3. RequestOK(x) /\ RequestOK(y)
    BY <1>2 DEF RequestOK, Firsts, Renewals, Syncs
<1>4. x \in Good /\ y \in Good
    BY <1>1, <1>3 DEF Good
<1> QED
    BY <1>4 DEF x, y

LEMMA AnsweredOK == ASSUME Types, NEW h \in Handlers PROVE Answered(h) \in Good
<1>1. req[h].hook \in Hook \cup {NoHook}
    BY GoodIs, Fields
<1> DEFINE x == [Idle EXCEPT !.pc = "done", !.hook = req[h].hook]
<1>2. x \in Request
    BY <1>1, IdleOK DEF Request, Pcs
<1>3. x.pc = "done"
    BY IdleOK DEF Request
<1>4. "done" \in Plain
    BY DEF Plain, Pcs, Firsts, Renewals, Syncs
<1> HIDE DEF x
<1>5. x \in Good
    BY <1>2, <1>3, <1>4, PlainOK
<1> QED
    BY <1>5 DEF x, Answered, Hooking

LEMMA SyncingOK ==
    ASSUME NEW r \in Request, NEW s \in Subs, NEW sub \in Sub, NEW ret \in Returns,
           NEW clear \in BOOLEAN, NEW keep \in BOOLEAN
    PROVE  Syncing(r, s, sub, ret, clear, keep) \in Good
<1> DEFINE x == Syncing(r, s, sub, ret, clear, keep)
<1>1. x \in Request
    BY DEF Syncing, Request, Returns, Pcs
<1>2. x.pc = "sync" /\ x.id = s /\ x.ret = ret
    BY DEF Syncing, Request
<1> HIDE DEF x
<1>3. RequestOK(x)
    BY <1>2 DEF RequestOK, Firsts, Renewals, Syncs
<1>4. x \in Good
    BY <1>1, <1>3 DEF Good
<1> QED
    BY <1>4 DEF x

LEMMA SyncedOK ==
    ASSUME NEW r \in Request, r.ret \in Returns
    PROVE  Synced(r) \in Good
<1>1. CASE r.ret = "idle"
    BY <1>1, IdleOK DEF Synced
<1>2. CASE r.ret # "idle"
    <2> DEFINE x == [r EXCEPT !.pc = r.ret, !.ret = "none", !.id = None, !.sub = NoSub,
                              !.seen = NewRow, !.clear = FALSE, !.keep = FALSE]
    <2>1. x \in Request
        BY <1>2, NewRowOK, NoSubOK DEF Request, Returns, Pcs
    <2>2. x.pc = r.ret /\ r.ret \in Plain
        BY <1>2 DEF Request, Plain, Pcs, Firsts, Renewals, Syncs, Returns
    <2> HIDE DEF x
    <2>3. x \in Good
        BY <2>1, <2>2, PlainOK
    <2> QED
        BY <1>2, <2>3 DEF x, Synced
<1> QED
    BY <1>1, <1>2

-----------------------------------------------------------------------------
(* Rows *)

LEMMA RowFields ==
    ASSUME NEW w \in Row
    PROVE  /\ w.plan \in Plans \cup {Free} /\ w.st \in {"active", "incomplete", "past_due", "canceled"}
           /\ w.sid \in Subs \cup Pays \cup {None} /\ w.soft \in BOOLEAN
           /\ w.end \in Nat /\ w.due \in Nat
BY DEF Row

LEMMA RowsOK ==
    ASSUME Types, NEW w \in Row, NEW id \in Subs \cup Pays \cup {None}
    PROVE  Entitled(w) \in Row /\ Stamped(w) \in Row /\ Ended(id) \in Row /\ Loaded(w) \in Row
<1>1. Entitled(w) \in Row
    BY DEF Entitled, Row
<1>2. Stamped(w) \in Row
    BY NowIsNat DEF Stamped, Row
<1>3. \A i \in Subs \cup Pays \cup {None} : Ended(i) \in Row
    BY DEF Ended, NewRow, Row
<1>4. Loaded(w) \in Row
    BY <1>2, <1>3, RowFields DEF Loaded
<1> QED
    BY <1>1, <1>2, <1>3, <1>4

LEMMA BlindOK ==
    ASSUME Types, NEW w \in Row, NEW e \in Blind(w)
    PROVE  e \in Row /\ LoadedBlind(w, e) \in Row
<1>1. PICK v : v = [w EXCEPT !.sid = None]
    OBVIOUS
<1>2. v \in Row
    BY <1>1 DEF Row
<1>3. Entitled(v) \in Row
    BY <1>2, RowsOK
<1>4. e \in Row
    BY <1>1, <1>3, NewRowOK DEF Blind
<1>5. LoadedBlind(w, e) \in Row
    BY RowsOK DEF LoadedBlind
<1> QED
    BY <1>4, <1>5

LEMMA SubFields ==
    ASSUME NEW m \in Sub
    PROVE  /\ m.st \in {"none", "active", "suspended", "canceled"}
           /\ m.plan \in Plans \cup {Free} /\ m.next \in Nat
           /\ Canceled(m) \in Sub
           /\ \A plan \in Plans \cup {Free} : [m EXCEPT !.plan = plan] \in Sub
BY DEF Sub, Canceled

LEMMA PayloadOK ==
    ASSUME Types, NEW r \in Request, NEW due \in Nat
    PROVE  Payload(r, due) \in Row
<1>1. /\ r.seen \in Row /\ r.sub \in Sub /\ r.id \in Subs \cup Pays \cup {None}
    BY Fields
<1>2. PeriodEnd(r) \in Nat /\ Held(r) \in BOOLEAN
    BY <1>1, RowFields, SubFields DEF PeriodEnd, Held
<1>3. Status(r) \in {"active", "incomplete", "past_due", "canceled"}
    BY <1>1, RowFields DEF Status
<1>4. Dunned(r, due) \in {"active", "incomplete", "past_due", "canceled"}
    BY <1>3 DEF Dunned
<1>5. NextDue(r, due) \in Nat
    BY NowIsNat DEF NextDue
<1>6. (CASE Held(r) /\ r.seen.plan # Free -> r.seen.plan
         [] ~Held(r) /\ r.sub.st = "canceled" -> Free
         [] OTHER -> r.sub.plan) \in Plans \cup {Free}
    BY <1>1, RowFields, SubFields
<1>7. (IF Held(r) /\ r.seen.end # 0 THEN r.seen.end ELSE PeriodEnd(r)) \in Nat
    BY <1>1, <1>2, RowFields
<1> QED
    BY <1>1, <1>2, <1>4, <1>5, <1>6, <1>7 DEF Payload, Row
-----------------------------------------------------------------------------
(* What Mollie, its customers and time do *)

LEMMA MarketKeeps == Types /\ Market => Types'
<1> SUFFICES ASSUME Types, Market PROVE Types'
    OBVIOUS
<1>1. ASSUME NEW p \in Pays, PayFirst(p) PROVE Types'
    <2>1. now \in Nat /\ now + Interval \in Nat /\ paidUntil \in Nat
        BY NowIsNat, BoundsAreNat DEF Types, MarketOK
    <2>2. paidUntil' \in Nat
        BY <1>1, <2>1 DEF PayFirst, Later
    <2>3. hooks' \subseteq Hook
        BY <1>1, HookMakes DEF PayFirst, Types, MarketOK
    <2>4. pay' \in [Pays -> Payment]
        BY <1>1 DEF PayFirst, Types, MarketOK, Payment
    <2>5. NotesOK'
        BY <1>1, BesideOK, HappensOK DEF PayFirst, Types, Notes
    <2>6. owed' \subseteq Subs /\ UNCHANGED <<row, mollie, now, req>>
        BY <1>1 DEF PayFirst
    <2> QED
        BY <2>2, <2>3, <2>4, <2>5, <2>6 DEF Types, MarketOK, RequestsOK
<1>2. ASSUME NEW s \in Subs, Charge(s) PROVE Types'
    <2>1. mollie[s] \in Sub /\ mollie[s].next + Interval \in Nat /\ paidUntil \in Nat
        BY SubFields, BoundsAreNat DEF Types, MarketOK
    <2>2. mollie' \in [Subs -> Sub]
        <3>1. [mollie[s] EXCEPT !.next = mollie[s].next + Interval] \in Sub
            BY <2>1 DEF Sub
        <3>2. [mollie[s] EXCEPT !.st = "suspended", !.next = 0] \in Sub
            BY <2>1 DEF Sub
        <3> QED
            BY <1>2, <3>1, <3>2 DEF Charge, Types, MarketOK
    <2>3. hooks' \subseteq Hook
        <3>1. hooks' \in {Renewal(s, TRUE), Renewal(s, FALSE)}
            BY <1>2 DEF Charge
        <3> QED
            BY <3>1, HookMakes DEF Renewal, Types, MarketOK
    <2>4. paidUntil' \in Nat
        BY <1>2, <2>1 DEF Charge, Later
    <2>5. NotesOK'
        BY <1>2, BesideOK DEF Charge, Types
    <2>6. owed' \subseteq Subs /\ UNCHANGED <<row, pay, now, req>>
        BY <1>2 DEF Charge, Types, MarketOK
    <2> QED
        BY <2>2, <2>3, <2>4, <2>5, <2>6 DEF Types, MarketOK, RequestsOK
<1>3. ASSUME NEW s \in Subs, Recover(s) PROVE Types'
    <2>1. mollie[s] \in Sub /\ now + Interval \in Nat /\ paidUntil \in Nat
        BY NowIsNat, BoundsAreNat DEF Types, MarketOK
    <2>2. mollie' \in [Subs -> Sub]
        <3>1. [mollie[s] EXCEPT !.st = "active", !.next = now + Interval] \in Sub
            BY <2>1 DEF Sub
        <3> QED
            BY <1>3, <3>1 DEF Recover, Types, MarketOK
    <2>3. hooks' \subseteq Hook
        BY <1>3, HookMakes DEF Recover, Renewal, Types, MarketOK
    <2>4. paidUntil' \in Nat
        BY <1>3, <2>1 DEF Recover, Later
    <2>5. NotesOK'
        BY <1>3, BesideOK DEF Recover, Types
    <2>6. owed' \subseteq Subs /\ UNCHANGED <<row, pay, now, req>>
        BY <1>3 DEF Recover, Types, MarketOK
    <2> QED
        BY <2>2, <2>3, <2>4, <2>5, <2>6 DEF Types, MarketOK, RequestsOK
<1>4. CASE NewMandate
    <2>1. hooks' \subseteq Hook
        BY <1>4, HookMakes DEF NewMandate, Types, MarketOK
    <2>2. NotesOK'
        BY <1>4, BesideOK DEF NewMandate, Types
    <2> QED
        BY <1>4, <2>1, <2>2 DEF NewMandate, Types, MarketOK, RequestsOK
<1>5. CASE Tick
    <2>1. now' \in 1 .. MaxTime
        BY <1>5, BoundsAreNat DEF Tick, Types, MarketOK
    <2>2. NotesOK'
        BY <1>5, BesideOK DEF Tick, Types
    <2> QED
        BY <1>5, <2>1, <2>2 DEF Tick, Types, MarketOK, RequestsOK
<1> QED
    BY <1>1, <1>2, <1>3, <1>4, <1>5 DEF Market

-----------------------------------------------------------------------------
(* The sync *)

\* At any statement: what the request holds, and the row.
LEMMA Holds ==
    ASSUME Types, NEW h \in Handlers
    PROVE  /\ req[h] \in Request /\ RequestOK(req[h]) /\ row \in Row
           /\ NotesOK /\ row.due \in Nat
           /\ \A s \in Subs : mollie[s] \in Sub /\ Canceled(mollie[s]) \in Sub
BY GoodIs, RowFields, SubFields DEF Types, MarketOK

LEMMA SyncKeeps == ASSUME Types, NEW h \in Handlers, Sync(h) PROVE Types'
<1> DEFINE r == req[h]
<1>1. r \in Request /\ RequestOK(r) /\ row \in Row /\ NotesOK /\ row.due \in Nat
    BY Holds
<1>2. r.pc \in Syncs => r.id \in Subs /\ r.ret \in Returns
    BY <1>1 DEF RequestOK
<1>3. ASSUME r.pc \in Syncs, NEW pc \in Syncs, NEW w \in Row
      PROVE  [r EXCEPT !.pc = pc] \in Good /\ [r EXCEPT !.pc = pc, !.seen = w] \in Good
    <2> DEFINE x == [r EXCEPT !.pc = pc]
               y == [r EXCEPT !.pc = pc, !.seen = w]
    <2>1. pc \in Pcs
        BY <1>3 DEF Syncs, Pcs
    <2>2. x \in Request /\ y \in Request
        BY <1>1, <1>3, <2>1 DEF Request
    <2>3. /\ x.pc = pc /\ x.id = r.id /\ x.ret = r.ret
          /\ y.pc = pc /\ y.id = r.id /\ y.ret = r.ret
        BY <1>1 DEF Request
    <2> HIDE DEF x, y
    <2>4. RequestOK(x) /\ RequestOK(y)
        BY <1>2, <1>3, <2>3 DEF RequestOK, Firsts, Renewals, Syncs
    <2>5. x \in Good /\ y \in Good
        BY <2>2, <2>4 DEF Good
    <2> QED
        BY <2>5 DEF x, y
<1>4. CASE SyncRead(h)
    <2>1. r.pc \in Syncs /\ "due" \in Syncs
        BY <1>4 DEF SyncRead, At, Syncs
    <2>2. \E x \in Good : Goto(h, x)
        BY <1>1, <1>3, <1>4, <2>1 DEF SyncRead, Step
    <2>3. NotesOK' /\ UNCHANGED <<row, market>>
        BY <1>1, <1>4, CalmOK, FaultOK DEF SyncRead
    <2> QED
        BY <1>1, <2>2, <2>3, GoOnHere
<1>5. CASE SyncDue(h)
    <2>1. r.pc \in Syncs /\ {"write", "mark"} \subseteq Syncs
        BY <1>5 DEF SyncDue, At, Syncs
    <2>0. PICK due \in {row.due, 0} :
              LET new == Payload(r, due)
              IN  Goto(h, [r EXCEPT !.seen = new,
                                    !.pc = IF (new.due = 0) = (due = 0) THEN "write" ELSE "mark"])
        BY <1>5 DEF SyncDue
    <2> DEFINE new == Payload(r, due)
    <2>2. new \in Row
        BY <1>1, PayloadOK
    <2>3. Goto(h, [r EXCEPT !.seen = new,
                            !.pc = IF (new.due = 0) = (due = 0) THEN "write" ELSE "mark"])
        BY <2>0
    <2> HIDE DEF new
    <2>4. \A pc : [r EXCEPT !.seen = new, !.pc = pc] = [r EXCEPT !.pc = pc, !.seen = new]
        BY <1>1 DEF Request
    <2>5. \E x \in Good : Goto(h, x)
        BY <1>3, <2>1, <2>2, <2>3, <2>4
    <2>6. NotesOK' /\ UNCHANGED <<row, market>>
        BY <1>1, <1>5, CalmOK, FaultOK DEF SyncDue
    <2> QED
        BY <1>1, <2>5, <2>6, GoOnHere
<1>6. CASE SyncMark(h)
    <2>1. r.pc \in Syncs /\ "write" \in Syncs
        BY <1>6 DEF SyncMark, At, Syncs
    <2>2. \E x \in Good : Goto(h, x)
        BY <1>1, <1>3, <1>6, <2>1 DEF SyncMark, Step
    <2>3. row' \in Row
        <3>1. [row EXCEPT !.due = 0] \in Row
            BY <1>1 DEF Row
        <3> QED
            BY <1>1, <1>6, <3>1, RowsOK DEF SyncMark
    <2>4. NotesOK' /\ UNCHANGED market
        BY <1>1, <1>6, CalmOK, FaultOK DEF SyncMark
    <2> QED
        BY <2>2, <2>3, <2>4, GoOnHere
<1>7. CASE SyncWrite(h)
    <2>1. r.pc \in Syncs
        BY <1>7 DEF SyncWrite, At, Syncs
    <2>2. Synced(r) \in Good /\ Goto(h, Synced(r))
        BY <1>1, <1>2, <1>7, <2>1, SyncedOK DEF SyncWrite
    <2>3. row' \in Row
        BY <1>1, <1>7, Fields DEF SyncWrite
    <2>4. NotesOK' /\ UNCHANGED market
        BY <1>1, <1>7, CalmOK, FaultOK DEF SyncWrite
    <2> QED
        BY <2>2, <2>3, <2>4, GoOnHere
<1> QED
    BY <1>4, <1>5, <1>6, <1>7 DEF Sync
-----------------------------------------------------------------------------
(* After a first payment *)

LEMMA ActivatingOK ==
    ASSUME Types, NEW r \in Request, r.hook.kind = "first", NEW s \in Subs
    PROVE  Activating(r, s) \in Good
<1>1. pay[r.hook.id].plan \in Plans \cup {Free}
    BY Fields, HookIs DEF Types, MarketOK, Payment
<1>2. [mollie[s] EXCEPT !.plan = pay[r.hook.id].plan] \in Sub
    BY <1>1, SubFields DEF Types, MarketOK
<1> QED
    BY <1>2, SyncingOK DEF Activating, Returns

\* What a created subscription makes of the market.
LEMMA CreateKeeps ==
    ASSUME Types, NEW s \in Subs, NEW plan \in Plans \cup {Free}, NEW from \in Nat,
           Create(s, plan, from)
    PROVE  MarketOK' /\ mollie'[s] \in Sub
<1>1. [st |-> "active", plan |-> plan, next |-> from] \in Sub
    BY DEF Sub
<1> QED
    BY <1>1 DEF Create, Types, MarketOK

LEMMA CancelKeeps ==
    ASSUME Types, NEW s \in Subs, CancelAt(s)
    PROVE  MarketOK'
<1>1. Canceled(mollie[s]) \in Sub
    BY SubFields DEF Types, MarketOK
<1> QED
    BY <1>1 DEF CancelAt, Types, MarketOK

LEMMA FirstKeeps == ASSUME Types, NEW h \in Handlers, First(h) PROVE Types'
<1> DEFINE r == req[h]
<1>1. r \in Request /\ RequestOK(r) /\ row \in Row /\ NotesOK
    BY Holds
<1>2. Answered(h) \in Good
    BY AnsweredOK
<1>3. r.pc \in Firsts
    BY <1>1 DEF First, LookExisting, GetExisting, ListExisting, Claim, Take, TakeAgain, CreateFirst,
                Release, At, Firsts
<1>4. r.hook.kind = "first" /\ r.hook.id \in Pays
    BY <1>1, <1>3, Fields, HookIs DEF RequestOK
<1>5. \A pc \in Firsts \ {"get"}, id \in Subs \cup Pays \cup {None} :
          [r EXCEPT !.pc = pc] \in Good /\ [r EXCEPT !.pc = pc, !.id = id] \in Good
    BY <1>1, <1>4, MoveFirst
<1>6. {"list", "claim", "take", "again", "create", "release"} \subseteq Firsts \ {"get"}
    BY DEF Firsts
<1>7. CASE LookExisting(h)
    <2>1. Real(row.sid) => [r EXCEPT !.pc = "get", !.id = row.sid] \in Good
        <3> SUFFICES ASSUME row.sid \in Subs PROVE [r EXCEPT !.pc = "get", !.id = row.sid] \in Good
            BY DEF Real
        <3> DEFINE x == [r EXCEPT !.pc = "get", !.id = row.sid]
        <3>1. x \in Request
            BY <1>1 DEF Request, Pcs
        <3>2. x.pc = "get" /\ x.id = row.sid /\ x.hook = r.hook
            BY <1>1 DEF Request
        <3> HIDE DEF x
        <3>3. x \in Good
            BY <1>4, <3>1, <3>2 DEF Good, RequestOK, Firsts, Renewals, Syncs
        <3> QED
            BY <3>3 DEF x
    <2>2. \E x \in Good : Goto(h, x)
        BY <1>5, <1>6, <1>7, <2>1 DEF LookExisting, Step
    <2>3. NotesOK' /\ UNCHANGED <<row, market>>
        BY <1>1, <1>7, CalmOK, FaultOK DEF LookExisting
    <2> QED
        BY <1>1, <2>2, <2>3, GoOnHere
<1>8. CASE GetExisting(h)
    <2>1. r.id \in Subs
        BY <1>1, <1>8 DEF GetExisting, At, RequestOK
    <2>2. Activating(r, r.id) \in Good
        BY <1>1, <1>4, <2>1, ActivatingOK
    <2>3. \E x \in Good : Goto(h, x)
        BY <1>5, <1>6, <1>8, <2>2 DEF GetExisting
    <2>4. NotesOK' /\ UNCHANGED <<row, market>>
        BY <1>1, <1>8, CalmOK, FaultOK DEF GetExisting
    <2> QED
        BY <1>1, <2>3, <2>4, GoOnHere
<1>9. CASE ListExisting(h)
    <2>1. \A s \in Subs : Activating(r, s) \in Good
        BY <1>1, <1>4, ActivatingOK
    <2>2. \E x \in Good : Goto(h, x)
        BY <1>5, <1>6, <1>9, <2>1 DEF ListExisting, Step
    <2>3. NotesOK' /\ UNCHANGED <<row, market>>
        BY <1>1, <1>9, CalmOK, FaultOK DEF ListExisting
    <2> QED
        BY <1>1, <2>2, <2>3, GoOnHere
<1>10. CASE Claim(h)
    <2>1. row.sid \in Subs \cup Pays \cup {None}
        BY <1>1, RowFields
    <2>2. \E x \in Good : Goto(h, x)
        BY <1>2, <1>5, <1>6, <1>10, <2>1 DEF Claim, Step
    <2>3. NotesOK' /\ UNCHANGED <<row, market>>
        BY <1>1, <1>10, CalmOK, FaultOK, HappensOK DEF Claim, Notes
    <2> QED
        BY <1>1, <2>2, <2>3, GoOnHere
<1>11. CASE Take(h)
    <2>1. \E x \in Good : Goto(h, x)
        BY <1>5, <1>6, <1>11 DEF Take
    <2>2. row' \in Row
        <3>1. [row EXCEPT !.sid = r.hook.id] \in Row
            BY <1>1, <1>4 DEF Row
        <3> QED
            BY <1>1, <1>11, <3>1 DEF Take, Hooking
    <2>3. NotesOK' /\ UNCHANGED market
        BY <1>1, <1>11, CalmOK, FaultOK DEF Take
    <2> QED
        BY <2>1, <2>2, <2>3, GoOnHere
<1>12. CASE TakeAgain(h)
    <2>1. \E x \in Good : Goto(h, x)
        BY <1>2, <1>5, <1>6, <1>12 DEF TakeAgain
    <2>2. NotesOK' /\ UNCHANGED <<row, market>>
        BY <1>1, <1>12, CalmOK, FaultOK DEF TakeAgain
    <2> QED
        BY <1>1, <2>1, <2>2, GoOnHere
<1>13. CASE CreateFirst(h)
    <2>1. NotesOK' /\ UNCHANGED row
        BY <1>1, <1>13, CalmOK, FaultOK DEF CreateFirst
    <2>2. CASE \E s \in Subs : /\ Create(s, pay[r.hook.id].plan, now + Interval)
                               /\ Goto(h, Syncing(r, s, mollie'[s], "done", TRUE, FALSE))
        <3>1. PICK s \in Subs : /\ Create(s, pay[r.hook.id].plan, now + Interval)
                                /\ Goto(h, Syncing(r, s, mollie'[s], "done", TRUE, FALSE))
            BY <2>2
        <3>2. pay[r.hook.id].plan \in Plans \cup {Free} /\ now + Interval \in Nat
            BY <1>4, NowIsNat, BoundsAreNat DEF Types, MarketOK, Payment
        <3>3. MarketOK' /\ mollie'[s] \in Sub
            BY <3>1, <3>2, CreateKeeps
        <3>4. Syncing(r, s, mollie'[s], "done", TRUE, FALSE) \in Good
            BY <1>1, <3>3, SyncingOK DEF Returns
        <3>5. RequestsOK'
            BY <3>1, <3>4, GoOn DEF Types
        <3> QED
            BY <1>1, <2>1, <3>3, <3>5 DEF Types
    <2>3. CASE Step(h, "release") /\ UNCHANGED market
        BY <1>1, <1>5, <1>6, <2>1, <2>3, GoOnHere DEF Step
    <2> QED
        BY <1>13, <2>2, <2>3 DEF CreateFirst, Hooking
<1>14. CASE Release(h)
    <2>1. row' \in Row
        <3>1. [row EXCEPT !.sid = None] \in Row
            BY <1>1 DEF Row
        <3> QED
            BY <1>1, <1>14, <3>1 DEF Release
    <2>2. Goto(h, Answered(h)) /\ NotesOK' /\ UNCHANGED market
        BY <1>1, <1>14, CalmOK, FaultOK DEF Release
    <2> QED
        BY <1>2, <2>1, <2>2, GoOnHere
<1> QED
    BY <1>7, <1>8, <1>9, <1>10, <1>11, <1>12, <1>13, <1>14 DEF First

-----------------------------------------------------------------------------
(* After a charge *)

LEMMA MoveRenewed ==
    ASSUME NEW r \in Request, r.hook.kind = "renewal", NEW pc \in Renewals, NEW w \in Row
    PROVE  /\ [r EXCEPT !.pc = pc] \in Good
           /\ [r EXCEPT !.seen = w, !.pc = pc] \in Good
<1> DEFINE x == [r EXCEPT !.pc = pc]
           y == [r EXCEPT !.seen = w, !.pc = pc]
<1>0. pc \in Pcs
    BY DEF Renewals, Pcs
<1>1. x \in Request /\ y \in Request
    BY <1>0 DEF Request
<1>2. x.pc = pc /\ y.pc = pc /\ x.hook = r.hook /\ y.hook = r.hook
    BY DEF Request
<1> HIDE DEF x, y
<1>3. RequestOK(x) /\ RequestOK(y)
    BY <1>2 DEF RequestOK, Firsts, Renewals, Syncs
<1>4. x \in Good /\ y \in Good
    BY <1>1, <1>3 DEF Good
<1> QED
    BY <1>4 DEF x, y

LEMMA RenewedKeeps == ASSUME Types, NEW h \in Handlers, Renewed(h) PROVE Types'
<1> DEFINE r == req[h]
<1>1. r \in Request /\ RequestOK(r) /\ row \in Row /\ NotesOK /\ row.due \in Nat
    BY Holds
<1>2. Answered(h) \in Good
    BY AnsweredOK
<1>3. r.pc \in Renewals
    BY DEF Renewed, LookRenewed, StampFailed, GetRenewed, At, Renewals
<1>4. r.hook.kind = "renewal" /\ r.hook.id \in Subs /\ r.hook.paid \in BOOLEAN
    BY <1>1, <1>3, Fields, HookIs DEF RequestOK
<1>5. \A pc \in Renewals : /\ [r EXCEPT !.pc = pc] \in Good
                           /\ [r EXCEPT !.seen = row, !.pc = pc] \in Good
    BY <1>1, <1>4, MoveRenewed
<1>6. {"getsub", "stamp"} \subseteq Renewals
    BY DEF Renewals
<1>7. CASE LookRenewed(h)
    <2>1. \E x \in Good : Goto(h, x)
        BY <1>2, <1>5, <1>6, <1>7 DEF LookRenewed, Step
    <2>2. NotesOK' /\ UNCHANGED <<row, market>>
        BY <1>1, <1>7, CalmOK, FaultOK DEF LookRenewed
    <2> QED
        BY <1>1, <2>1, <2>2, GoOnHere
<1>8. CASE StampFailed(h)
    <2>1. \E x \in Good : Goto(h, x)
        BY <1>5, <1>6, <1>8 DEF StampFailed, Step
    <2>2. NotesOK' /\ row' \in Row /\ UNCHANGED market
        BY <1>1, <1>8, CalmOK, FaultOK, RowsOK DEF StampFailed
    <2> QED
        BY <2>1, <2>2, GoOnHere
<1>9. CASE GetRenewed(h)
    <2>1. Syncing(r, r.hook.id, mollie[r.hook.id], "done", r.hook.paid, ~r.hook.paid) \in Good
        BY <1>1, <1>4, SyncingOK DEF Types, MarketOK, Returns
    <2>2. \E x \in Good : Goto(h, x)
        BY <1>2, <1>9, <2>1 DEF GetRenewed, Hooking
    <2>3. row' \in Row
        <3>1. r.seen \in Row
            BY <1>1, Fields
        <3>2. [r.seen EXCEPT !.plan = IF @ = Free THEN Basic ELSE @, !.st = "past_due",
                             !.due = row.due] \in Row
            BY <1>1, <3>1, PlansDistinct DEF Row
        <3> QED
            BY <1>1, <1>9, <3>2 DEF GetRenewed
    <2>4. NotesOK' /\ UNCHANGED market
        BY <1>1, <1>9, CalmOK, FaultOK DEF GetRenewed
    <2> QED
        BY <2>2, <2>3, <2>4, GoOnHere
<1> QED
    BY <1>7, <1>8, <1>9 DEF Renewed

-----------------------------------------------------------------------------
(* After the payment of another means of payment *)

LEMMA MandateKeeps == ASSUME Types, NEW h \in Handlers, Mandate(h) PROVE Types'
<1> DEFINE r == req[h]
<1>1. r \in Request /\ RequestOK(r) /\ row \in Row /\ NotesOK /\ row.due \in Nat
    BY Holds
<1>2. {"restore", "update"} \subseteq Plain
    BY DEF Plain, Pcs, Firsts, Renewals, Syncs
<1>3. CASE Entitle(h)
    <2> DEFINE e == Entitled(row)
               x == [r EXCEPT !.ent = e, !.id = e.sid,
                              !.pc = IF e.sid = None \/ e.soft THEN "restore" ELSE "update"]
    <2>1. e \in Row
        BY <1>1, RowsOK
    <2>2. e.sid \in Subs \cup Pays \cup {None}
        BY <2>1, RowFields
    <2>3. ASSUME NEW w \in Row, NEW id \in Subs \cup Pays \cup {None}, NEW pc \in {"restore", "update"}
          PROVE  [r EXCEPT !.ent = w, !.id = id, !.pc = pc] \in Good
        <3> DEFINE y == [r EXCEPT !.ent = w, !.id = id, !.pc = pc]
        <3>1. pc \in Plain /\ pc \in Pcs
            BY <1>2 DEF Plain
        <3>2. y \in Request /\ y.pc = pc
            BY <1>1, <3>1 DEF Request
        <3> HIDE DEF y
        <3>3. y \in Good
            BY <3>1, <3>2, PlainOK
        <3> QED
            BY <3>3 DEF y
    <2>4. x \in Good
        <3> HIDE DEF e
        <3> QED
            BY <2>1, <2>2, <2>3
    <2>5. Goto(h, x) /\ NotesOK' /\ UNCHANGED market
        BY <1>1, <1>3, CalmOK, FaultOK DEF Entitle
    <2>6. row' \in Row
        BY <1>1, <1>3, RowsOK DEF Entitle
    <2> QED
        BY <2>4, <2>5, <2>6, GoOnHere
<1>3a. CASE EntitleBlind(h)
    <2>1. PICK e \in Blind(row) : /\ Goto(h, [r EXCEPT !.ent = e, !.id = None, !.pc = "restore"])
                                  /\ row' = LoadedBlind(row, e)
        BY <1>3a DEF EntitleBlind
    <2> DEFINE y == [r EXCEPT !.ent = e, !.id = None, !.pc = "restore"]
    <2>2. e \in Row /\ row' \in Row
        BY <1>1, <2>1, BlindOK
    <2>3. "restore" \in Plain /\ "restore" \in Pcs
        BY <1>2 DEF Plain
    <2>4. y \in Request /\ y.pc = "restore"
        BY <1>1, <2>2, <2>3 DEF Request
    <2>5. Goto(h, y) /\ NotesOK' /\ UNCHANGED market
        BY <1>1, <1>3a, <2>1, FaultOK DEF EntitleBlind
    <2> HIDE DEF y
    <2>6. y \in Good
        BY <2>3, <2>4, PlainOK
    <2> QED
        BY <2>2, <2>5, <2>6, GoOnHere
<1>4. CASE UpdateMandate(h)
    <2>1. [r EXCEPT !.pc = "restore"] \in Good
        BY <1>1, <1>2, MoveOK, Fields
    <2>2. Real(r.id) => Syncing(r, r.id, mollie[r.id], "restore", FALSE, FALSE) \in Good
        BY <1>1, SyncingOK DEF Real, Types, MarketOK, Returns
    <2>3. \E x \in Good : Goto(h, x)
        BY <1>4, <2>1, <2>2 DEF UpdateMandate, Step
    <2>4. NotesOK' /\ UNCHANGED <<row, market>>
        BY <1>1, <1>4, CalmOK, FaultOK DEF UpdateMandate
    <2> QED
        BY <1>1, <2>3, <2>4, GoOnHere
<1>5. CASE Restore(h)
    <2>1. [r.ent EXCEPT !.due = row.due] \in Row
        BY <1>1, Fields DEF Row
    <2>2. row' \in Row
        BY <1>1, <1>5, <2>1 DEF Restore
    <2>3. Goto(h, Answered(h)) /\ NotesOK' /\ UNCHANGED market
        BY <1>1, <1>5, CalmOK, FaultOK DEF Restore
    <2> QED
        BY <2>2, <2>3, AnsweredOK, GoOnHere
<1> QED
    BY <1>3, <1>3a, <1>4, <1>5 DEF Mandate

-----------------------------------------------------------------------------
(* The webhook *)

LEMMA WebhookKeeps == ASSUME Types, NEW h \in Handlers, Webhook(h) PROVE Types'
<1> DEFINE r == req[h]
<1>1. r \in Request /\ RequestOK(r) /\ row \in Row /\ NotesOK /\ row.due \in Nat
    BY Holds
<1>2. Answered(h) \in Good
    BY AnsweredOK
<1>3. CASE Deliver(h)
    <2>1. PICK k \in hooks : /\ Begin(h, [Idle EXCEPT !.pc = "fetch", !.hook = k])
                             /\ Beside("overlap") \/ Fault("again")
                             /\ UNCHANGED row
        BY <1>3 DEF Deliver
    <2> DEFINE x == [Idle EXCEPT !.pc = "fetch", !.hook = k]
    <2>2. x \in Request /\ x.pc = "fetch"
        BY IdleOK DEF Request, Pcs, Types, MarketOK
    <2>3. "fetch" \in Plain
        BY DEF Plain, Pcs, Firsts, Renewals, Syncs
    <2> HIDE DEF x
    <2>4. x \in Good
        BY <2>2, <2>3, PlainOK
    <2>5. Goto(h, x) /\ UNCHANGED market
        BY <2>1 DEF Begin, x
    <2>6. NotesOK'
        BY <1>1, <2>1, BesideOK, FaultOK
    <2> QED
        BY <1>1, <2>1, <2>4, <2>5, <2>6, GoOnHere
<1>4. CASE Fetch(h)
    <2>1. CASE r.hook.kind = "first"
        <3>1. [r EXCEPT !.pc = "existing"] \in Good
            BY <1>1, <2>1, MoveFirst, Fields DEF Firsts
        <3> QED
            BY <1>1, <1>2, <1>4, <2>1, <3>1, CalmOK, FaultOK, GoOnHere DEF Fetch, Step, Hooking
    <2>2. CASE r.hook.kind = "renewal"
        <3>1. [r EXCEPT !.pc = "state"] \in Good
            BY <1>1, <2>2, MoveRenewed DEF Renewals
        <3> QED
            BY <1>1, <1>2, <1>4, <2>2, <3>1, CalmOK, FaultOK, GoOnHere DEF Fetch, Step, Hooking
    <2>3. CASE r.hook.kind \notin {"first", "renewal"}
        <3>1. "entitle" \in Plain
            BY DEF Plain, Pcs, Firsts, Renewals, Syncs
        <3>2. [r EXCEPT !.pc = "entitle"] \in Good
            BY <1>1, <3>1, MoveOK, Fields
        <3> QED
            BY <1>1, <1>2, <1>4, <2>3, <3>2, CalmOK, FaultOK, GoOnHere DEF Fetch, Step, Hooking
    <2> QED
        BY <2>1, <2>2, <2>3
<1>5. CASE First(h)
    BY <1>5, FirstKeeps
<1>6. CASE Renewed(h)
    BY <1>6, RenewedKeeps
<1>7. CASE Mandate(h)
    BY <1>7, MandateKeeps
<1>8. CASE Done(h)
    <2>1. Goto(h, Idle) /\ hooks' \subseteq hooks
        BY <1>8 DEF Done, End
    <2>2. RequestsOK'
        BY <2>1, IdleOK, GoOn DEF Types
    <2>3. NotesOK'
        BY <1>1, <1>8, CalmOK, FaultOK DEF Done
    <2> QED
        BY <1>8, <2>1, <2>2, <2>3 DEF Done, Types, MarketOK
<1> QED
    BY <1>3, <1>4, <1>5, <1>6, <1>7, <1>8 DEF Webhook
-----------------------------------------------------------------------------
(* The restaurant's requests *)

\* A request that starts.
LEMMA StartOK ==
    ASSUME Types, NEW h \in Handlers, NEW op, NEW r \in Good, Start(h, op, r)
    PROVE  Types'
<1>1. row' \in Row
    BY RowsOK, Holds DEF Start
<1>2. NotesOK'
    BY Holds, CalmOK, FaultOK DEF Start
<1> QED
    BY <1>1, <1>2, GoOnHere DEF Start, Begin

\* It starts at a statement that needs nothing, with what it has read.
LEMMA NewOK ==
    ASSUME NEW pc \in Plain, NEW plan \in Plans \cup {Free}, NEW id \in Subs \cup Pays \cup {None},
           NEW e \in Row
    PROVE  /\ [Idle EXCEPT !.pc = pc] \in Good
           /\ [Idle EXCEPT !.pc = pc, !.id = id] \in Good
           /\ [Idle EXCEPT !.pc = pc, !.plan = plan] \in Good
           /\ [Idle EXCEPT !.pc = pc, !.plan = plan, !.id = id] \in Good
           /\ [Idle EXCEPT !.pc = pc, !.ent = e] \in Good
           /\ [Idle EXCEPT !.pc = pc, !.plan = plan, !.id = id, !.ent = e] \in Good
<1> DEFINE New == {[Idle EXCEPT !.pc = pc], [Idle EXCEPT !.pc = pc, !.id = id],
                   [Idle EXCEPT !.pc = pc, !.plan = plan],
                   [Idle EXCEPT !.pc = pc, !.plan = plan, !.id = id],
                   [Idle EXCEPT !.pc = pc, !.ent = e],
                   [Idle EXCEPT !.pc = pc, !.plan = plan, !.id = id, !.ent = e]}
<1>1. pc \in Pcs
    BY DEF Plain
<1>2. \A x \in New : x \in Request /\ x.pc = pc
    BY <1>1, IdleOK DEF Request
<1> HIDE DEF New
<1>3. \A x \in New : x \in Good
    BY <1>2, PlainOK
<1> QED
    BY <1>3 DEF New

\* These statements need nothing.
LEMMA ArePlain ==
    {"idle", "cget", "cust", "cpay", "sget", "swrite", "recreate", "patch", "hget", "missing", "hwrite",
     "cut", "cutget", "fin", "finget", "finwrite", "vstamp"} \subseteq Plain
BY DEF Plain, Pcs, Firsts, Renewals, Syncs

\* These need a subscription.
LEMMA NamedOK ==
    ASSUME NEW r \in Request, r.id \in Subs, NEW pc \in {"ccancel", "cutcancel"}
    PROVE  [r EXCEPT !.pc = pc] \in Good
<1> DEFINE x == [r EXCEPT !.pc = pc]
<1>1. x \in Request
    BY DEF Request, Pcs
<1>2. x.pc = pc /\ x.id = r.id
    BY DEF Request
<1> HIDE DEF x
<1>3. x \in Good
    BY <1>1, <1>2 DEF Good, RequestOK, Firsts, Renewals, Syncs
<1> QED
    BY <1>3 DEF x

LEMMA CheckoutsKeep == ASSUME Types, NEW h \in Handlers, Checkouts(h) PROVE Types'
<1> DEFINE r == req[h]
<1>1. /\ r \in Request /\ RequestOK(r) /\ row \in Row /\ NotesOK
      /\ \A s \in Subs : mollie[s] \in Sub /\ Canceled(mollie[s]) \in Sub
    BY Holds
<1>2. [r EXCEPT !.pc = "cpay", !.id = None] \in Good
    BY <1>1, ArePlain, MoveOK
<1>3. CASE Checkout(h)
    <2>1. Entitled(row).sid \in Subs \cup Pays \cup {None}
        BY <1>1, RowsOK, RowFields
    <2>2. Booked \subseteq Plans \cup {Free}
        BY PlansDistinct
    <2>3. \E x \in Good : Start(h, "checkout", x)
        BY <1>1, <1>3, <2>1, <2>2, NewOK, ArePlain DEF Checkout
    <2> QED
        BY <2>3, StartOK
<1>4. CASE CheckoutGet(h)
    <2>1. Real(r.id) => [r EXCEPT !.pc = "ccancel"] \in Good
        BY <1>1, NamedOK DEF Real
    <2>2. \E x \in Good : Goto(h, x)
        BY <1>2, <1>4, <2>1 DEF CheckoutGet
    <2>3. NotesOK' /\ UNCHANGED <<row, market>>
        BY <1>1, <1>4, CalmOK, FaultOK DEF CheckoutGet
    <2> QED
        BY <1>1, <2>2, <2>3, GoOnHere
<1>5. CASE CheckoutCancel(h)
    <2>1. r.id \in Subs
        BY <1>1, <1>5 DEF CheckoutCancel, At, RequestOK
    <2>2. Syncing(r, r.id, Canceled(mollie[r.id]), "cpay", FALSE, FALSE) \in Good
        BY <1>1, <2>1, SyncingOK DEF Returns
    <2>3. \E x \in Good : Goto(h, x)
        BY <1>2, <1>5, <2>2 DEF CheckoutCancel
    <2>4. MarketOK'
        BY <1>5, <2>1, CancelKeeps, MarketStays DEF CheckoutCancel, Types
    <2>5. NotesOK' /\ UNCHANGED row
        BY <1>1, <1>5, CalmOK, FaultOK DEF CheckoutCancel
    <2> QED
        BY <1>1, <2>3, <2>4, <2>5, GoOn DEF Types
<1>5a. CASE CheckoutBlind(h)
    <2>1. PICK plan \in Booked, e \in Blind(row) :
              /\ Begin(h, [Idle EXCEPT !.pc = "cust", !.plan = plan, !.ent = e])
              /\ row' = LoadedBlind(row, e)
        BY <1>5a DEF CheckoutBlind
    <2>2. e \in Row /\ row' \in Row
        BY <1>1, <2>1, BlindOK
    <2>3. plan \in Plans \cup {Free} /\ "cust" \in Plain
        BY PlansDistinct, ArePlain
    <2> DEFINE y == [Idle EXCEPT !.pc = "cust", !.plan = plan, !.ent = e]
    <2>4. y \in Request /\ y.pc = "cust"
        BY <2>2, <2>3, IdleOK DEF Request, Plain
    <2>5. Goto(h, y) /\ UNCHANGED market /\ NotesOK'
        BY <1>1, <1>5a, <2>1, FaultOK DEF CheckoutBlind, Begin
    <2> HIDE DEF y
    <2>6. y \in Good
        BY <2>3, <2>4, PlainOK
    <2> QED
        BY <2>2, <2>5, <2>6, GoOnHere
<1>5b. CASE CheckoutCustomer(h)
    <2> DEFINE y == [r EXCEPT !.pc = "cpay", !.ent = NewRow]
    <2>1. "cpay" \in Plain /\ "cpay" \in Pcs
        BY ArePlain DEF Plain
    <2>2. y \in Request /\ y.pc = "cpay"
        BY <1>1, <2>1, NewRowOK DEF Request
    <2>3. r.ent \in Row
        BY <1>1, Fields
    <2>4. r.ent.plan \in Plans \cup {Free} /\ r.ent.st \in {"active", "incomplete", "past_due", "canceled"}
        BY <2>3, RowFields
    <2>5. [row EXCEPT !.plan = r.ent.plan, !.st = r.ent.st, !.sid = None, !.end = 0] \in Row
        BY <1>1, <2>4 DEF Row
    <2>6. row' \in Row /\ Goto(h, y) /\ UNCHANGED market /\ NotesOK'
        BY <1>1, <1>5b, <2>5, CalmOK, FaultOK DEF CheckoutCustomer
    <2> HIDE DEF y
    <2>7. y \in Good
        BY <2>1, <2>2, PlainOK
    <2> QED
        BY <2>6, <2>7, GoOnHere
<1>6. CASE CheckoutPay(h)
    <2>1. r.plan \in Plans \cup {Free}
        BY <1>1, Fields
    <2>2. pay' \in [Pays -> Payment]
        BY <1>6, <2>1 DEF CheckoutPay, Types, MarketOK, Payment
    <2>3. row' \in Row
        <3>1. [row EXCEPT !.plan = r.plan, !.st = "incomplete", !.end = 0] \in Row
            BY <1>1, <2>1 DEF Row
        <3> QED
            BY <1>1, <1>6, <3>1 DEF CheckoutPay
    <2>4. RequestsOK'
        BY <1>6, IdleOK, GoOn DEF CheckoutPay, End, Types
    <2>5. NotesOK' /\ UNCHANGED <<mollie, hooks, now, paidUntil, owed>>
        BY <1>1, <1>6, CalmOK, FaultOK DEF CheckoutPay
    <2> QED
        BY <2>2, <2>3, <2>4, <2>5 DEF Types, MarketOK
<1> QED
    BY <1>3, <1>4, <1>5, <1>5a, <1>5b, <1>6 DEF Checkouts

LEMMA ManagingKeeps == ASSUME Types, NEW h \in Handlers, Managing(h) PROVE Types'
<1> DEFINE r == req[h]
           e == Entitled(row)
<1>1. /\ r \in Request /\ RequestOK(r) /\ row \in Row /\ NotesOK /\ row.due \in Nat
      /\ \A s \in Subs : mollie[s] \in Sub
    BY Holds
<1>2. /\ e \in Row /\ e.sid \in Subs \cup Pays \cup {None} /\ e.plan \in Plans \cup {Free}
    BY <1>1, RowsOK, RowFields
<1>3. CASE CancelPlan(h)
    BY <1>2, <1>3, NewOK, ArePlain, StartOK DEF CancelPlan
<1>4. CASE CancelGet(h)
    <2>1. [r EXCEPT !.pc = "swrite"] \in Good
        BY <1>1, ArePlain, MoveOK, Fields
    <2>2. ASSUME Real(r.ent.sid), NEW end \in Nat, NEW pc \in {"scancel", "swrite"}
          PROVE  [r EXCEPT !.pc = pc, !.ent.end = end] \in Good
        <3> DEFINE x == [r EXCEPT !.pc = pc, !.ent.end = end]
        <3>1. x \in Request
            <4>1. [r.ent EXCEPT !.end = end] \in Row
                BY <1>1, Fields DEF Row
            <4>2. pc \in Pcs
                BY DEF Pcs
            <4> QED
                BY <1>1, <4>1, <4>2 DEF Request
        <3>2. x.pc = pc /\ x.ent.sid = r.ent.sid
            BY <1>1, Fields DEF Request, Row
        <3> HIDE DEF x
        <3>3. x \in Good
            BY <2>2, <3>1, <3>2 DEF Good, RequestOK, Firsts, Renewals, Syncs, Real
        <3> QED
            BY <3>3 DEF x
    <2>3. Real(r.ent.sid) => mollie[r.ent.sid].next \in Nat /\ r.ent.end \in Nat
        BY <1>1, Fields, RowFields, SubFields DEF Real
    <2>4. \E x \in Good : Goto(h, x)
        BY <1>4, <2>1, <2>2, <2>3 DEF CancelGet, Step
    <2>5. NotesOK' /\ UNCHANGED <<row, market>>
        BY <1>1, <1>4, CalmOK DEF CancelGet
    <2> QED
        BY <1>1, <2>4, <2>5, GoOnHere
<1>5. CASE CancelMollie(h)
    <2>1. r.ent.sid \in Subs
        BY <1>1, <1>5 DEF CancelMollie, At, RequestOK
    <2>2. MarketOK'
        BY <1>5, <2>1, CancelKeeps DEF CancelMollie
    <2>3. [r EXCEPT !.pc = "swrite"] \in Good
        BY <1>1, ArePlain, MoveOK, Fields
    <2>4. RequestsOK'
        BY <1>5, <2>3, GoOn DEF CancelMollie, Step, Types
    <2>5. NotesOK' /\ UNCHANGED row
        BY <1>1, <1>5, CalmOK DEF CancelMollie
    <2> QED
        BY <1>1, <2>2, <2>4, <2>5 DEF Types
<1>6. CASE CancelWrite(h)
    <2>1. [r.ent EXCEPT !.soft = TRUE, !.due = row.due] \in Row
        BY <1>1, Fields DEF Row
    <2>2. row' \in Row /\ Goto(h, Idle) /\ NotesOK' /\ UNCHANGED market
        BY <1>1, <1>6, <2>1, CalmOK DEF CancelWrite, End
    <2> QED
        BY <2>2, IdleOK, GoOnHere
<1>7. CASE UndoCancel(h)
    BY <1>2, <1>7, NewOK, ArePlain, StartOK DEF UndoCancel
<1>8. CASE ChangePlan(h)
    <2>1. \E x \in Good : Start(h, "change", x)
        BY <1>2, <1>8, NewOK, ArePlain DEF ChangePlan
    <2> QED
        BY <2>1, StartOK
<1>9. CASE Recreate(h)
    <2>1. PICK s \in Subs : /\ Create(s, r.plan, Later(r.ent.end, now))
                            /\ Goto(h, Syncing(Idle, s, mollie'[s], "idle", FALSE, FALSE))
        BY <1>9 DEF Recreate
    <2>2. r.plan \in Plans \cup {Free} /\ Later(r.ent.end, now) \in Nat
        BY <1>1, Fields, RowFields, NowIsNat DEF Later
    <2>3. MarketOK' /\ mollie'[s] \in Sub
        BY <2>1, <2>2, CreateKeeps
    <2>4. Syncing(Idle, s, mollie'[s], "idle", FALSE, FALSE) \in Good
        BY <2>3, IdleOK, SyncingOK DEF Returns
    <2>5. RequestsOK'
        BY <2>1, <2>4, GoOn DEF Types
    <2>6. NotesOK' /\ UNCHANGED row
        BY <1>1, <1>9, HappensOK DEF Recreate, Notes
    <2> QED
        BY <1>1, <2>3, <2>5, <2>6 DEF Types
<1>10. CASE Patch(h)
    <2>1. r.id \in Subs /\ r.plan \in Plans \cup {Free}
        BY <1>1, <1>10, Fields DEF Patch, Real
    <2>2. [mollie[r.id] EXCEPT !.plan = r.plan] \in Sub
        BY <1>1, <2>1, SubFields
    <2>3. MarketOK' /\ mollie'[r.id] \in Sub
        BY <1>10, <2>1, <2>2 DEF Patch, Types, MarketOK
    <2>4. Syncing(Idle, r.id, mollie'[r.id], "idle", FALSE, FALSE) \in Good
        BY <2>1, <2>3, IdleOK, SyncingOK DEF Returns
    <2>5. RequestsOK'
        BY <1>10, <2>4, GoOn DEF Patch, Types
    <2>6. NotesOK' /\ UNCHANGED row
        BY <1>1, <1>10, CalmOK DEF Patch
    <2> QED
        BY <1>1, <2>3, <2>5, <2>6 DEF Types
<1>11. CASE PatchRefused(h)
    <2>1. Goto(h, Idle) /\ NotesOK' /\ UNCHANGED <<row, market>>
        BY <1>1, <1>11, CalmOK DEF PatchRefused, End
    <2> QED
        BY <1>1, <2>1, IdleOK, GoOnHere
<1> QED
    BY <1>3, <1>4, <1>5, <1>6, <1>7, <1>8, <1>9, <1>10, <1>11 DEF Managing

-----------------------------------------------------------------------------
(* The health check, visits *)

LEMMA HealthChecksKeep == ASSUME Types, NEW h \in Handlers, HealthChecks(h) PROVE Types'
<1> DEFINE r == req[h]
<1>1. /\ r \in Request /\ RequestOK(r) /\ row \in Row /\ NotesOK
      /\ row.sid \in Subs \cup Pays \cup {None} /\ r.id \in Subs \cup Pays \cup {None}
      /\ \A s \in Subs : mollie[s] \in Sub /\ Canceled(mollie[s]) \in Sub
    BY Holds, RowFields, Fields
<1>2. \A pc \in Plain, id \in Subs \cup Pays \cup {None} :
          [r EXCEPT !.pc = pc] \in Good /\ [r EXCEPT !.pc = pc, !.id = id] \in Good
    BY <1>1, MoveOK
<1>3. CASE Health(h)
    <2>1. \E x \in Good : Start(h, "health", x)
        BY <1>1, <1>3, NewOK, NewRowOK, ArePlain DEF Health
    <2> QED
        BY <2>1, StartOK
<1>4. CASE HealthGet(h)
    <2>1. Real(r.id) => Syncing(r, r.id, mollie[r.id], "cut", FALSE, FALSE) \in Good
        BY <1>1, SyncingOK DEF Real, Returns
    <2>2. \E x \in Good : Goto(h, x)
        BY <1>2, <1>4, <2>1, ArePlain DEF HealthGet
    <2>3. NotesOK' /\ UNCHANGED <<row, market>>
        BY <1>1, <1>4, HappensOK, FaultOK DEF HealthGet, Notes
    <2> QED
        BY <1>1, <2>2, <2>3, GoOnHere
<1>5. CASE HealthMissing(h)
    <2>1. \E x \in Good : Goto(h, x)
        BY <1>2, <1>5, ArePlain DEF HealthMissing, Step
    <2>2. NotesOK' /\ UNCHANGED <<row, market>>
        BY <1>1, <1>5, CalmOK, FaultOK DEF HealthMissing
    <2> QED
        BY <1>1, <2>1, <2>2, GoOnHere
<1>6. CASE HealthWrite(h)
    <2>1. \E x \in Good : Goto(h, x)
        BY <1>2, <1>6, ArePlain DEF HealthWrite
    <2>2. row' \in Row /\ NotesOK' /\ UNCHANGED market
        BY <1>1, <1>6, RowsOK, CalmOK, FaultOK DEF HealthWrite
    <2> QED
        BY <2>1, <2>2, GoOnHere
<1>7. CASE Cut(h)
    <2>1. \E x \in Good : Goto(h, x)
        BY <1>1, <1>2, <1>7, ArePlain DEF Cut
    <2> QED
        BY <1>1, <1>7, <2>1, CalmOK, GoOnHere DEF Cut
<1>8. CASE CutGet(h)
    <2>1. Real(r.id) => /\ [r EXCEPT !.pc = "cutcancel"] \in Good
                        /\ Syncing(r, r.id, mollie[r.id], "fin", mollie[r.id].st = "active", FALSE)
                               \in Good
        BY <1>1, NamedOK, SyncingOK DEF Real, Returns
    <2>2. \E x \in Good : Goto(h, x)
        BY <1>2, <1>8, <2>1, ArePlain DEF CutGet
    <2>3. NotesOK' /\ UNCHANGED <<row, market>>
        BY <1>1, <1>8, CalmOK, FaultOK DEF CutGet
    <2> QED
        BY <1>1, <2>2, <2>3, GoOnHere
<1>9. CASE CutCancel(h)
    <2>1. r.id \in Subs
        BY <1>1, <1>9 DEF CutCancel, At, RequestOK
    <2>2. Syncing(r, r.id, Canceled(mollie[r.id]), "fin", FALSE, FALSE) \in Good
        BY <1>1, <2>1, SyncingOK DEF Returns
    <2>3. \E x \in Good : Goto(h, x)
        BY <1>2, <1>9, <2>2, ArePlain DEF CutCancel
    <2>4. MarketOK'
        BY <1>9, <2>1, CancelKeeps, MarketStays DEF CutCancel, Types
    <2>5. NotesOK' /\ UNCHANGED row
        BY <1>1, <1>9, CalmOK, FaultOK DEF CutCancel
    <2> QED
        BY <1>1, <2>3, <2>4, <2>5, GoOn DEF Types
<1>10. CASE Fin(h)
    <2>1. \E x \in Good : Goto(h, x)
        BY <1>1, <1>2, <1>10, IdleOK, ArePlain DEF Fin
    <2> QED
        BY <1>1, <1>10, <2>1, CalmOK, GoOnHere DEF Fin
<1>11. CASE FinCancel(h)
    <2>1. \E x \in Good : Goto(h, x)
        BY <1>2, <1>11, ArePlain DEF FinCancel, Step
    <2>2. MarketOK'
        BY <1>11, CancelKeeps, MarketStays DEF FinCancel, Real, Types
    <2>3. NotesOK' /\ UNCHANGED row
        BY <1>1, <1>11, CalmOK, FaultOK DEF FinCancel
    <2> QED
        BY <1>1, <2>1, <2>2, <2>3, GoOn DEF Types
<1>12. CASE FinWrite(h)
    <2>1. row' \in Row /\ Goto(h, Idle) /\ NotesOK' /\ UNCHANGED market
        BY <1>1, <1>12, RowsOK, CalmOK DEF FinWrite, End
    <2> QED
        BY <2>1, IdleOK, GoOnHere
<1> QED
    BY <1>3, <1>4, <1>5, <1>6, <1>7, <1>8, <1>9, <1>10, <1>11, <1>12 DEF HealthChecks

LEMMA VisitsKeep ==
    ASSUME Types, NEW h \in Handlers, Visit(h) \/ VisitBlind(h) \/ VisitStamp(h)
    PROVE  Types'
<1>1. row \in Row /\ row.sid \in Subs \cup Pays \cup {None} /\ NotesOK
    BY Holds, RowFields
<1>2. CASE Visit(h)
    <2>1. \E x \in Good : Start(h, "visit", x)
        BY <1>1, <1>2, NewOK, NewRowOK, ArePlain DEF Visit
    <2> QED
        BY <2>1, StartOK
<1>2a. CASE VisitBlind(h)
    <2>1. [Idle EXCEPT !.pc = "finwrite"] \in Good
        BY NewOK, NewRowOK, ArePlain
    <2>2. \E x \in Good : Goto(h, x)
        BY <1>2a, <2>1 DEF VisitBlind, Begin
    <2>3. NotesOK' /\ UNCHANGED <<row, market>>
        BY <1>1, <1>2a, FaultOK DEF VisitBlind, Begin
    <2> QED
        BY <1>1, <2>2, <2>3, GoOnHere
<1>3. CASE VisitStamp(h)
    <2>1. row' \in Row /\ Goto(h, Idle) /\ NotesOK' /\ UNCHANGED market
        BY <1>1, <1>3, RowsOK, CalmOK DEF VisitStamp, End
    <2> QED
        BY <2>1, IdleOK, GoOnHere
<1> QED
    BY <1>2, <1>2a, <1>3

\* What Mollie does not find.
LEMMA NotFoundKeeps == ASSUME Types, NEW h \in Handlers, NotFound(h) PROVE Types'
<1> DEFINE r == req[h]
<1>1. r \in Request /\ RequestOK(r) /\ row \in Row /\ NotesOK
    BY Holds
<1>2. \A pc \in Plain, id \in Subs \cup Pays \cup {None} :
          [r EXCEPT !.pc = pc, !.id = id] \in Good
    BY <1>1, MoveOK
<1>3. r.hook.kind = "first" => \A pc \in {"list", "claim"}, id \in Subs \cup Pays \cup {None} :
          [r EXCEPT !.pc = pc, !.id = id] \in Good
    BY <1>1, MoveFirst DEF Firsts
<1>4. r.id \in Subs \cup Pays \cup {None}
    BY <1>1, Fields
<1>5. r.pc \in {"get", "list"} => r.hook.kind = "first"
    BY <1>1 DEF RequestOK, Firsts
<1>6. {"restore", "cpay", "swrite", "missing", "fin", "finwrite"} \subseteq Plain
    BY ArePlain DEF Plain, Pcs, Firsts, Renewals, Syncs
<1> DEFINE on(pc) == [r EXCEPT !.pc = pc, !.id = IF pc \in {"list", "cpay", "fin"} THEN None ELSE r.id]
<1>7. \A pc \in {"restore", "cpay", "swrite", "missing", "fin", "finwrite"} : on(pc) \in Good
    BY <1>2, <1>4, <1>6
<1>8. r.hook.kind = "first" => \A pc \in {"list", "claim"} : on(pc) \in Good
    BY <1>3, <1>4
<1>9. \/ \E pc \in {"restore", "cpay", "swrite", "missing", "fin", "finwrite"} : Goto(h, on(pc))
      \/ r.pc \in {"get", "list"} /\ \E pc \in {"list", "claim"} : Goto(h, on(pc))
      \/ Goto(h, Idle) \/ Goto(h, Answered(h))
    BY DEF NotFound, End
<1>10. \E x \in Good : Goto(h, x)
    BY <1>5, <1>7, <1>8, <1>9, IdleOK, AnsweredOK
<1>11. row' \in Row
    BY <1>1, RowsOK DEF NotFound
<1>12. NotesOK' /\ UNCHANGED market
    BY <1>1, CalmOK DEF NotFound
<1> QED
    BY <1>10, <1>11, <1>12, GoOnHere

LEMMA VanishKeeps == ASSUME Types, NEW h \in Handlers, Vanish(h) PROVE Types'
<1>1. Goto(h, Idle) /\ UNCHANGED <<row, market>> /\ NotesOK'
    BY Holds, FaultOK DEF Vanish, End
<1> QED
    BY <1>1, IdleOK, Holds, GoOnHere

-----------------------------------------------------------------------------

LEMMA InitTypes == Init => Types
<1> SUFFICES ASSUME Init PROVE Types
    OBVIOUS
<1>1. RequestsOK
    BY IdleOK DEF Init, RequestsOK
<1>2. MarketOK
    BY NoSubOK, BoundsAreNat DEF Init, MarketOK, Payment
<1> QED
    BY <1>1, <1>2, NewRowOK, BoundsAreNat DEF Init, Types, NotesOK

LEMMA NextTypes == Types /\ [Next]_vars => Types'
<1> SUFFICES ASSUME Types, [Next]_vars PROVE Types'
    OBVIOUS
<1>1. CASE Next
    BY <1>1, MarketKeeps, WebhookKeeps, SyncKeeps, CheckoutsKeep, ManagingKeeps, HealthChecksKeep,
       VisitsKeep, NotFoundKeeps, VanishKeeps DEF Next
<1>2. CASE UNCHANGED vars
    BY <1>2 DEF vars, market, Types, MarketOK, RequestsOK, NotesOK
<1> QED
    BY <1>1, <1>2

\* The row, the subscriptions and the calls of Mollie, and what every request holds at
\* each of its statements have their types, whatever meets and whatever fails.
THEOREM TypeCorrect == Spec => []TypeOK
<1>1. Spec => []Types
    BY InitTypes, NextTypes, PTL DEF Spec
<1> QED
    BY <1>1, TypesAreTypeOK, PTL
-----------------------------------------------------------------------------
(* One subscription *)

\* No subscription ends: nobody cancels, the health check does not run, no grace runs
\* out.  Mollie calls once for a payment at a time and lists what it has, and has the
\* restaurant under one customer.
NothingEnds ==
    /\ Ops \subseteq {"checkout", "change", "visit"}
    /\ MaxTime <= Grace
    /\ {"again", "list", "customer"} \cap Allowed = {}

Exists(s) == mollie[s].st # "none"
SomeSub == \E s \in Subs : Exists(s)
Waiting(r) == r.pc \in {"claim", "take", "again"}

RowGood(w) ==
    /\ ~w.soft /\ w.st # "canceled"
    /\ w.sid \in Subs => Exists(w.sid) /\ w.plan # Free

HookGood(k) ==
    /\ k.kind # "mandate"
    /\ k.kind = "renewal" => Exists(k.id)
    /\ k.kind = "first" => pay[k.id].st # "none"

Charged ==
    /\ \A s \in Subs : mollie[s].st # "canceled" /\ (Exists(s) => mollie[s].plan # Free)
    /\ \A p \in Pays : pay[p].st # "none" => pay[p].plan # Free
    /\ \A k \in hooks : HookGood(k)

\* What a request holds.
Stations == {"idle", "fetch", "done", "cpay", "patch", "vstamp"} \cup Firsts \cup Renewals \cup Syncs
Carried(r) ==
    /\ r.pc \in Stations
    /\ HookGood(r.hook)
    /\ r.pc = "fetch" => r.hook.kind \in {"first", "renewal"}
    /\ r.pc \in {"fetch", "state"} => r.seen = NewRow
    /\ r.pc \in {"stamp", "getsub"} => r.seen = NewRow \/ (RowGood(r.seen) /\ r.seen.sid # None)
    /\ r.pc = "get" => Exists(r.id)
    /\ r.pc = "take" => r.id = None
    /\ r.pc \in {"cpay", "patch"} => r.plan # Free
    /\ r.pc \in Syncs => /\ Exists(r.id) /\ r.ret \in {"idle", "done"}
                         /\ r.sub.st \in {"active", "suspended"} /\ r.sub.plan # Free
    /\ r.pc \in {"mark", "write"} => r.seen.sid = r.id /\ RowGood(r.seen)

\* Who creates has the claim, and there is nothing yet; nor is there for a request that
\* waits for the claim that is its payment's already.
Claims(r) ==
    /\ r.pc \in {"create", "release"} => row.sid = r.hook.id /\ ~SomeSub
    /\ Waiting(r) /\ row.sid = r.hook.id => ~SomeSub

\* No request puts back the claim of one that waits.
Forgets(r, q) == Waiting(r) /\ q.pc \in {"stamp", "getsub"} => q.seen.sid # r.hook.id

Once == \A g, h \in Handlers : req[g].hook = req[h].hook /\ req[g].hook # NoHook => g = h
OneExists == \A s, t \in Subs : Exists(s) /\ Exists(t) => s = t
Named == SomeSub => row.sid # None

Single ==
    /\ Charged /\ RowGood(row) /\ Named /\ OneExists /\ Once
    /\ \A h \in Handlers : Carried(req[h]) /\ Claims(req[h])
    /\ \A g, h \in Handlers : Forgets(req[g], req[h])

\* What no step takes back.
Grows ==
    /\ \A s \in Subs : Exists(s) => Exists(s)'
    /\ \A p \in Pays : pay[p].st # "none" => pay'[p].st # "none"

LEMMA CarriedStays ==
    ASSUME Grows, NEW r \in Good, Carried(r)
    PROVE  Carried(r)'
<1>1. r \in Request /\ RequestOK(r) /\ r.hook \in Hook \cup {NoHook}
    BY Fields DEF Good
<1>2. HookGood(r.hook)'
    BY <1>1, HookIs DEF Carried, HookGood, Grows
<1>3. \A w \in Row : RowGood(w) => RowGood(w)'
    BY DEF RowGood, Grows
<1>4. r.seen \in Row
    BY <1>1, Fields
<1>5. r.pc \in {"get"} \cup Syncs => r.id \in Subs
    BY <1>1 DEF RequestOK
<1> QED
    BY <1>2, <1>3, <1>4, <1>5 DEF Carried, Grows

\* A first payment and its call are known by each other.
LEMMA FirstHook ==
    ASSUME Types, NEW h \in Handlers, req[h].pc \in Firsts
    PROVE  /\ req[h].hook.id \in Pays
           /\ req[h].hook = [kind |-> "first", id |-> req[h].hook.id, paid |-> TRUE]
<1>1. req[h].hook \in Hook \cup {NoHook} /\ req[h].hook.kind = "first"
    BY GoodIs, Fields DEF RequestOK
<1>2. req[h].hook \in [kind: {"first"}, id: Pays, paid: {TRUE}]
    <2>1. req[h].hook \notin [kind: {"renewal"}, id: Subs, paid: BOOLEAN]
        BY <1>1
    <2>2. req[h].hook \notin [kind: {"mandate"}, id: {None}, paid: {TRUE}]
        BY <1>1
    <2>3. req[h].hook # NoHook
        BY <1>1 DEF NoHook
    <2> QED
        BY <1>1, <2>1, <2>2, <2>3 DEF Hook
<1> QED
    BY <1>2

\* Two requests for one first payment are one.
LEMMA SameRequest ==
    ASSUME Types, Single, NEW g \in Handlers, NEW h \in Handlers,
           req[g].pc \in Firsts, req[h].pc \in Firsts, req[g].hook.id = req[h].hook.id
    PROVE  g = h
<1>1. req[g].hook = req[h].hook
    BY FirstHook
<1>2. req[g].hook.kind = "first" /\ NoHook.kind = "none"
    BY GoodIs DEF RequestOK, NoHook
<1> QED
    BY <1>1, <1>2 DEF Single, Once

\* A charge belongs to a subscription.
LEMMA RenewalExists ==
    ASSUME Types, Single, NEW h \in Handlers, req[h].pc \in Renewals
    PROVE  req[h].hook.id \in Subs /\ Exists(req[h].hook.id) /\ SomeSub
<1>1. req[h].hook \in Hook \cup {NoHook} /\ req[h].hook.kind = "renewal"
    BY GoodIs, Fields DEF RequestOK
<1> QED
    BY <1>1, HookIs DEF Single, Carried, HookGood, SomeSub

\* A step of one request, whatever it does.
LEMMA StepTaken ==
    ASSUME Types, Single, NEW h \in Handlers, NEW r \in Good, Goto(h, r), Grows,
           Charged', RowGood(row)', Named', OneExists', Once',
           Carried(r)', Claims(r)',
           \A g \in Handlers : g # h => Claims(req[g])',
           \A g \in Handlers : g # h => Forgets(r, req[g]) /\ Forgets(req[g], r)
    PROVE  Single'
<1>1. req' = [req EXCEPT ![h] = r] /\ req \in [Handlers -> Good]
    BY DEF Goto, Types, RequestsOK
<1>2. Forgets(r, r)
    BY DEF Forgets, Waiting
<1>3. ASSUME NEW g \in Handlers PROVE Carried(req[g])' /\ Claims(req[g])'
    <2>1. CASE g = h
        <3>1. req'[g] = r
            BY <1>1, <2>1
        <3> QED
            BY <3>1 DEF Carried, Claims
    <2>2. CASE g # h
        <3>1. PICK q \in Good : q = req[g] /\ Carried(q)
            BY <1>1 DEF Single
        <3>2. req'[g] = q
            BY <1>1, <2>2, <3>1
        <3>3. Carried(q)'
            BY <3>1, CarriedStays
        <3> QED
            BY <2>2, <3>2, <3>3
    <2> QED
        BY <2>1, <2>2
<1>4. ASSUME NEW g \in Handlers, NEW k \in Handlers PROVE Forgets(req[g], req[k])'
    <2>1. req'[g] = (IF g = h THEN r ELSE req[g]) /\ req'[k] = (IF k = h THEN r ELSE req[k])
        BY <1>1
    <2> QED
        BY <1>2, <2>1 DEF Forgets, Waiting, Single
<1> QED
    BY <1>3, <1>4 DEF Single

\* A step that leaves the claim and the subscriptions alone, to a statement that is
\* neither about the claim nor about a charge.
LEMMA StepAside ==
    ASSUME Types, Single, NEW h \in Handlers, NEW r \in Good, Goto(h, r),
           \A s \in Subs : Exists(s)' = Exists(s), Grows,
           Charged', RowGood(row)', row'.sid = row.sid,
           r.hook \in {req[h].hook, NoHook}, Carried(r),
           r.pc \notin {"create", "release", "stamp", "getsub"}, Waiting(r) => Waiting(req[h])
    PROVE  Single'
<1>1. SomeSub' = SomeSub /\ OneExists' /\ Named'
    BY DEF Single, SomeSub, OneExists, Named
<1>2. Once'
    BY DEF Once, Single, Goto, Types, RequestsOK
<1>3. Carried(r)'
    BY CarriedStays
<1>4. Waiting(r) => r.hook = req[h].hook
    <2>1. Waiting(r) => r.hook.kind = "first"
        BY DEF Waiting, Good, RequestOK, Firsts
    <2> QED
        BY <2>1 DEF NoHook
<1>5. Claims(r)'
    BY <1>1, <1>4 DEF Claims, Single
<1>6. \A g \in Handlers : g # h => Claims(req[g])'
    <2> SUFFICES ASSUME NEW g \in Handlers, g # h PROVE Claims(req[g])'
        OBVIOUS
    <2>1. req'[g] = req[g]
        BY DEF Goto, Types, RequestsOK
    <2> QED
        BY <1>1, <2>1 DEF Claims, Waiting, Single
<1>7. \A g \in Handlers : Forgets(r, req[g]) /\ Forgets(req[g], r)
    BY <1>4 DEF Forgets, Single
<1> QED
    BY <1>1, <1>2, <1>3, <1>5, <1>6, <1>7, StepTaken
-----------------------------------------------------------------------------
(* Steps while nothing ends *)

\* The row as it was, or with another stamp.
LEMMA RowStays ==
    ASSUME Single, NEW w \in Row, RowGood(w)
    PROVE  /\ ~PeriodOver(w) /\ Entitled(w) = w /\ Loaded(w) \in {w, Stamped(w)}
           /\ RowGood(Stamped(w)) /\ Stamped(w).sid = w.sid
<1>1. ~PeriodOver(w)
    BY DEF RowGood, PeriodOver
<1>2. Stamped(w).soft = w.soft /\ Stamped(w).st = w.st /\ Stamped(w).sid = w.sid
        /\ Stamped(w).plan = w.plan
    BY DEF Stamped, Row
<1> QED
    BY <1>1, <1>2 DEF Entitled, Loaded, RowGood

LEMMA NoGraceOver ==
    ASSUME Types, NothingEnds, NEW w \in Row
    PROVE  ~GraceOver(w)
<1>1. w.due \in Nat /\ now \in Nat /\ now <= MaxTime /\ Grace \in Nat /\ MaxTime \in Nat
    BY RowFields, BoundsAreNat DEF Types, MarketOK
<1> QED
    BY <1>1 DEF GraceOver, NothingEnds

LEMMA NoHookGood == HookGood(NoHook)
BY DEF HookGood, NoHook

LEMMA IdleCarried == Carried(Idle) /\ Claims(Idle)
BY NoHookGood DEF Carried, Claims, Idle, Stations, Waiting, Firsts, Renewals, Syncs

LEMMA AnsweredCarried ==
    ASSUME Types, Single, NEW h \in Handlers
    PROVE  Carried(Answered(h)) /\ Answered(h).pc = "done" /\ Answered(h).hook = req[h].hook
<1>1. Answered(h).pc = "done" /\ Answered(h).hook = req[h].hook
    BY IdleOK DEF Answered, Hooking, Request
<1>2. HookGood(req[h].hook)
    BY DEF Single, Carried
<1> QED
    BY <1>1, <1>2 DEF Carried, Stations, Firsts, Renewals, Syncs, Waiting

\* What Single says of the market and the row where they are not touched.
LEMMA Untouched ==
    ASSUME Single, UNCHANGED market
    PROVE  /\ Grows /\ Charged' /\ \A s \in Subs : Exists(s)' = Exists(s)
           /\ \A w : RowGood(w) => RowGood(w)'
           /\ OneExists' /\ SomeSub' = SomeSub
BY DEF market, Grows, Exists, Charged, HookGood, Single, RowGood, OneExists, SomeSub

\* A step to a statement that is not about the claim nor about a charge, where the
\* market and the row are left alone.
LEMMA StepBy ==
    ASSUME Types, Single, NEW h \in Handlers, NEW r \in Good, Goto(h, r), UNCHANGED market,
           row' \in {row, Stamped(row)},
           r.hook \in {req[h].hook, NoHook}, Carried(r),
           r.pc \notin {"create", "release", "stamp", "getsub"}, Waiting(r) => Waiting(req[h])
    PROVE  Single'
<1>1. row \in Row /\ RowGood(row)
    BY DEF Types, Single
<1>2. RowGood(row') /\ row'.sid = row.sid
    BY <1>1, RowStays
<1>3. RowGood(row)'
    BY <1>2, Untouched
<1> QED
    BY <1>2, <1>3, Untouched, StepAside

LEMMA IdleStep ==
    ASSUME Types, Single, NEW h \in Handlers, Goto(h, Idle), UNCHANGED market,
           row' \in {row, Stamped(row)}
    PROVE  Single'
<1>1. Idle.hook = NoHook /\ Idle.pc = "idle"
    BY DEF Idle
<1> QED
    BY <1>1, IdleOK, IdleCarried, StepBy DEF Waiting

LEMMA AnsweredStep ==
    ASSUME Types, Single, NEW h \in Handlers, Goto(h, Answered(h)), UNCHANGED <<row, market>>
    PROVE  Single'
BY AnsweredOK, AnsweredCarried, StepBy DEF Waiting

\* What the market does leaves the requests alone.
LEMMA MarketStep ==
    ASSUME Types, Single, UNCHANGED <<row, req>>, Grows, \A s \in Subs : Exists(s)' = Exists(s),
           Charged'
    PROVE  Single'
<1>1. SomeSub' = SomeSub /\ OneExists' /\ Named' /\ RowGood(row)' /\ Once'
    BY DEF Single, SomeSub, OneExists, Named, RowGood, Once, Types
<1>2. ASSUME NEW h \in Handlers PROVE Carried(req[h])' /\ Claims(req[h])'
    <2>1. PICK r \in Good : r = req[h] /\ Carried(r) /\ Claims(r)
        BY DEF Single, Types, RequestsOK
    <2>2. Carried(r)'
        BY <2>1, CarriedStays
    <2>3. Claims(r)'
        BY <1>1, <2>1 DEF Claims, Waiting
    <2> QED
        BY <2>1, <2>2, <2>3
<1>3. \A g, h \in Handlers : Forgets(req[g], req[h])'
    BY DEF Single, Forgets, Waiting
<1> QED
    BY <1>1, <1>2, <1>3 DEF Single

LEMMA MarketSingle == ASSUME Types, NothingEnds, Single, Market PROVE Single'
<1>1. ASSUME NEW p \in Pays, PayFirst(p) PROVE Single'
    <2>1. /\ UNCHANGED <<row, req, mollie>> /\ pay[p].st = "open"
          /\ pay' = [pay EXCEPT ![p].st = "paid"]
          /\ hooks' = hooks \cup {[kind |-> "first", id |-> p, paid |-> TRUE]}
        BY <1>1 DEF PayFirst
    <2>2. \A q \in Pays : pay'[q].plan = pay[q].plan /\ (pay'[q].st = "none" <=> pay[q].st = "none")
        BY <2>1 DEF Types, MarketOK, Payment
    <2>3. Grows /\ \A s \in Subs : Exists(s)' = Exists(s)
        BY <2>1, <2>2 DEF Grows, Exists
    <2>4. \A k \in hooks' : HookGood(k)'
        <3> SUFFICES ASSUME NEW k \in hooks' PROVE HookGood(k)'
            OBVIOUS
        <3>1. CASE k \in hooks
            <4>1. k.kind = "first" => k.id \in Pays
                BY <3>1, HookIs DEF Types, MarketOK
            <4> QED
                BY <2>1, <2>2, <3>1, <4>1 DEF Single, Charged, HookGood, Exists
        <3>2. CASE k = [kind |-> "first", id |-> p, paid |-> TRUE]
            BY <2>1, <2>2, <3>2 DEF HookGood
        <3> QED
            BY <2>1, <3>1, <3>2
    <2>5. Charged'
        BY <2>1, <2>2, <2>4 DEF Charged, Single, Exists
    <2> QED
        BY <2>1, <2>3, <2>5, MarketStep
<1>2. ASSUME NEW s \in Subs, Charge(s) \/ Recover(s) PROVE Single'
    <2>1. /\ UNCHANGED <<row, req, pay>> /\ mollie[s].st \in {"active", "suspended"}
          /\ \E paid \in BOOLEAN : hooks' = Renewal(s, paid)
        BY <1>2 DEF Charge, Recover
    <2>2. \A t \in Subs : /\ mollie'[t].plan = mollie[t].plan
                          /\ mollie'[t].st \in {mollie[t].st, "active", "suspended"}
                          /\ mollie'[t].st = "none" <=> mollie[t].st = "none"
        <3>1. PICK m \in Sub : /\ mollie' = [mollie EXCEPT ![s] = m] /\ m.plan = mollie[s].plan
                              /\ m.st \in {"active", "suspended"}
            <4>1. mollie[s] \in Sub /\ mollie[s].next + Interval \in Nat /\ now + Interval \in Nat
                BY SubFields, NowIsNat, BoundsAreNat DEF Types, MarketOK
            <4> DEFINE a == [mollie[s] EXCEPT !.next = mollie[s].next + Interval]
                       b == [mollie[s] EXCEPT !.st = "suspended", !.next = 0]
                       c == [mollie[s] EXCEPT !.st = "active", !.next = now + Interval]
            <4>2. \A m \in {a, b, c} : /\ m \in Sub /\ m.plan = mollie[s].plan
                                       /\ m.st \in {mollie[s].st, "active", "suspended"}
                <5>1. a \in Sub /\ a.plan = mollie[s].plan /\ a.st = mollie[s].st
                    BY <4>1 DEF Sub
                <5>2. b \in Sub /\ b.plan = mollie[s].plan /\ b.st = "suspended"
                    BY <4>1 DEF Sub
                <5>3. c \in Sub /\ c.plan = mollie[s].plan /\ c.st = "active"
                    BY <4>1 DEF Sub
                <5> HIDE DEF a, b, c
                <5> QED
                    BY <5>1, <5>2, <5>3
            <4>3. \E m \in {a, b, c} : mollie' = [mollie EXCEPT ![s] = m]
                BY <1>2 DEF Charge, Recover
            <4> HIDE DEF a, b, c
            <4> QED
                BY <2>1, <4>2, <4>3
        <3> QED
            BY <2>1, <3>1 DEF Types, MarketOK
    <2>3. Grows /\ \A t \in Subs : Exists(t)' = Exists(t)
        BY <2>1, <2>2 DEF Grows, Exists
    <2>4. \A k \in hooks' : HookGood(k)'
        <3> SUFFICES ASSUME NEW k \in hooks' PROVE HookGood(k)'
            OBVIOUS
        <3>1. CASE k \in hooks
            <4>1. k.kind = "renewal" => k.id \in Subs
                BY <3>1, HookIs DEF Types, MarketOK
            <4> QED
                BY <2>1, <2>3, <3>1, <4>1 DEF Single, Charged, HookGood
        <3>2. CASE \E paid \in BOOLEAN : k = [kind |-> "renewal", id |-> s, paid |-> paid]
            BY <2>1, <2>3, <3>2 DEF HookGood, Exists
        <3> QED
            BY <2>1, <3>1, <3>2 DEF Renewal
    <2>5. Charged'
        BY <2>1, <2>2, <2>3, <2>4 DEF Charged, Single, Exists
    <2> QED
        BY <2>1, <2>3, <2>5, MarketStep
<1>3. CASE NewMandate
    BY <1>3 DEF NewMandate, NothingEnds
<1>4. CASE Tick
    <2>1. UNCHANGED <<row, req, mollie, pay, hooks>>
        BY <1>4 DEF Tick
    <2>2. Grows /\ Charged' /\ \A s \in Subs : Exists(s)' = Exists(s)
        BY <2>1 DEF Grows, Exists, Charged, HookGood, Single
    <2> QED
        BY <2>1, <2>2, MarketStep
<1> QED
    BY <1>1, <1>2, <1>3, <1>4 DEF Market
\* What a request holds at the statement it goes on to, in the webhook.
LEMMA FirstMove ==
    ASSUME NEW r \in Request, r.hook.kind = "first", Carried(r),
           NEW pc \in {"list", "claim", "again", "create", "release"},
           NEW id \in Subs \cup Pays \cup {None}
    PROVE  /\ Carried([r EXCEPT !.pc = pc]) /\ Carried([r EXCEPT !.pc = pc, !.id = id])
           /\ Carried([r EXCEPT !.pc = "take", !.id = None])
<1> DEFINE x == [r EXCEPT !.pc = pc]
           y == [r EXCEPT !.pc = pc, !.id = id]
           z == [r EXCEPT !.pc = "take", !.id = None]
<1>1. /\ x.pc = pc /\ y.pc = pc /\ z.pc = "take" /\ z.id = None
      /\ x.hook = r.hook /\ y.hook = r.hook /\ z.hook = r.hook
    BY DEF Request
<1>2. HookGood(r.hook)
    BY DEF Carried
<1> HIDE DEF x, y, z
<1>3. Carried(x) /\ Carried(y) /\ Carried(z)
    BY <1>1, <1>2 DEF Carried, Stations, Firsts, Renewals, Syncs
<1> QED
    BY <1>3 DEF x, y, z

LEMMA SyncingCarried ==
    ASSUME NEW r \in Request, HookGood(r.hook), NEW s \in Subs, NEW sub \in Sub,
           NEW ret \in {"idle", "done"}, NEW clear \in BOOLEAN, NEW keep \in BOOLEAN,
           Exists(s), sub.st \in {"active", "suspended"}, sub.plan # Free
    PROVE  /\ Carried(Syncing(r, s, sub, ret, clear, keep))
           /\ Syncing(r, s, sub, ret, clear, keep).pc = "sync"
           /\ Syncing(r, s, sub, ret, clear, keep).hook = r.hook
<1> DEFINE x == Syncing(r, s, sub, ret, clear, keep)
<1>1. x.pc = "sync" /\ x.id = s /\ x.ret = ret /\ x.sub = sub /\ x.hook = r.hook
    BY DEF Syncing, Request
<1> HIDE DEF x
<1>2. Carried(x)
    BY <1>1 DEF Carried, Stations, Firsts, Renewals, Syncs
<1> QED
    BY <1>1, <1>2 DEF x

\* What exists is open, as Mollie has it.
LEMMA ExistsIsOpen ==
    ASSUME Types, Single, NEW s \in Subs
    PROVE  /\ Exists(s) <=> Open(s)
           /\ Exists(s) => mollie[s].st \in {"active", "suspended"} /\ mollie[s].plan # Free
<1>1. mollie[s] \in Sub
    BY DEF Types, MarketOK
<1> QED
    BY <1>1, SubFields DEF Single, Charged, Exists, Open

\* The claim of a first payment changes hands, or the subscription is created.
LEMMA FirstSingle == ASSUME Types, NothingEnds, Single, NEW h \in Handlers, First(h) PROVE Single'
<1> DEFINE r == req[h]
           p == req[h].hook.id
<1>1. /\ r \in Request /\ RequestOK(r) /\ r \in Good /\ row \in Row /\ RowGood(row)
      /\ Carried(r) /\ Claims(r)
    BY Holds DEF Good, Single
<1>2. r.pc \in Firsts
    BY DEF First, LookExisting, GetExisting, ListExisting, Claim, Take, TakeAgain, CreateFirst,
           Release, At, Firsts
<1>3. /\ r.hook.kind = "first" /\ p \in Pays /\ HookGood(r.hook)
    BY <1>1, <1>2, FirstHook DEF RequestOK, Carried
<1>4. /\ pay[p].plan # Free /\ pay[p].plan \in Plans \cup {Free}
    BY <1>3 DEF HookGood, Single, Charged, Types, MarketOK, Payment
<1>5. \A pc \in {"list", "claim", "again", "create", "release"}, id \in Subs \cup Pays \cup {None} :
          /\ Carried([r EXCEPT !.pc = pc]) /\ Carried([r EXCEPT !.pc = pc, !.id = id])
          /\ Carried([r EXCEPT !.pc = "take", !.id = None])
    BY <1>1, <1>3, FirstMove
<1>6. \A pc \in Firsts \ {"get"}, id \in Subs \cup Pays \cup {None} :
          /\ [r EXCEPT !.pc = pc] \in Good /\ [r EXCEPT !.pc = pc, !.id = id] \in Good
    BY <1>1, <1>3, MoveFirst
<1>7. ASSUME NEW pc \in {"list", "claim", "again", "create", "release"}
      PROVE  /\ \E x \in Good : /\ x = [r EXCEPT !.pc = pc] /\ Carried(x)
                               /\ x.pc = pc /\ x.hook = r.hook
             /\ \E x \in Good : /\ x = [r EXCEPT !.pc = pc, !.id = None] /\ Carried(x)
                               /\ x.pc = pc /\ x.hook = r.hook
    <2>1. None \in Subs \cup Pays \cup {None} /\ pc \in Firsts \ {"get"}
        BY DEF Firsts
    <2>2. /\ [r EXCEPT !.pc = pc].pc = pc /\ [r EXCEPT !.pc = pc].hook = r.hook
          /\ [r EXCEPT !.pc = pc, !.id = None].pc = pc
          /\ [r EXCEPT !.pc = pc, !.id = None].hook = r.hook
        BY <1>1 DEF Request
    <2> QED
        BY <1>5, <1>6, <2>1, <2>2
<1>8. \E x \in Good : /\ x = [r EXCEPT !.pc = "take", !.id = None] /\ Carried(x)
                      /\ x.pc = "take" /\ x.hook = r.hook
    <2>1. None \in Subs \cup Pays \cup {None} /\ "take" \in Firsts \ {"get"}
        BY DEF Firsts
    <2>2. /\ [r EXCEPT !.pc = "take", !.id = None].pc = "take"
          /\ [r EXCEPT !.pc = "take", !.id = None].hook = r.hook
        BY <1>1 DEF Request
    <2> QED
        BY <1>5, <1>6, <2>1, <2>2
<1>9. ~SomeSub => \A g \in Handlers : req[g].pc \notin {"stamp", "getsub"}
    BY RenewalExists DEF Renewals
\* Another request with the claim, or waiting for the claim of this payment.
<1>10. ASSUME NEW g \in Handlers, g # h, req[g].pc \in Firsts PROVE req[g].hook.id # p
    BY <1>2, <1>10, SameRequest
<1>11. ASSUME NEW g \in Handlers, Waiting(req[g]) \/ req[g].pc \in {"create", "release"}
       PROVE  req[g].pc \in Firsts
    BY <1>11 DEF Waiting, Firsts
\* A step that keeps the payment and does not change the subscriptions.
<1>12. ASSUME NEW x \in Good, Goto(h, x), UNCHANGED market, row' \in Row, RowGood(row'),
              x.hook = r.hook, Carried(x), Claims(x)', Named',
              x.pc \notin {"stamp", "getsub"},
              Waiting(x) /\ ~Waiting(r) => ~SomeSub,
              \A g \in Handlers : g # h => Claims(req[g])'
       PROVE  Single'
    <2>1. Grows /\ Charged' /\ OneExists' /\ RowGood(row)'
        BY <1>12, Untouched
    <2>2. Once'
        BY <1>12 DEF Once, Single, Goto, Types, RequestsOK
    <2>3. Carried(x)'
        BY <1>12, <2>1, CarriedStays
    <2>4. \A g \in Handlers : Forgets(x, req[g]) /\ Forgets(req[g], x)
        BY <1>9, <1>12 DEF Forgets, Single
    <2> QED
        BY <1>12, <2>1, <2>2, <2>3, <2>4, StepTaken
\* The others, when the row does not name another payment.
<1>13. ASSUME row'.sid = row.sid, UNCHANGED market, NEW g \in Handlers, req'[g] = req[g]
       PROVE  Claims(req[g])'
    BY <1>13, Untouched DEF Claims, Waiting, Single
<1>14. ASSUME NEW x, Goto(h, x), NEW g \in Handlers, g # h PROVE req'[g] = req[g]
    BY <1>14 DEF Goto, Types, RequestsOK
<1>15. CASE LookExisting(h)
    <2>1. UNCHANGED <<row, market>>
        BY <1>15 DEF LookExisting
    <2>2. CASE Goto(h, [r EXCEPT !.pc = "list"])
        <3>1. PICK x \in Good : /\ x = [r EXCEPT !.pc = "list"] /\ Carried(x)
                               /\ x.pc = "list" /\ x.hook = r.hook
            BY <1>7
        <3> QED
            BY <2>1, <2>2, <3>1, StepBy DEF Waiting
    <2>3. CASE Real(row.sid) /\ Goto(h, [r EXCEPT !.pc = "get", !.id = row.sid])
        <3> DEFINE x == [r EXCEPT !.pc = "get", !.id = row.sid]
        <3>1. x.pc = "get" /\ x.id = row.sid /\ x.hook = r.hook /\ row.sid \in Subs
            BY <1>1, <2>3 DEF Request, Real
        <3>2. x \in Request
            BY <1>1, <3>1 DEF Request, Pcs
        <3> HIDE DEF x
        <3>3. x \in Good
            BY <1>3, <3>1, <3>2 DEF Good, RequestOK, Firsts, Renewals, Syncs
        <3>4. Carried(x)
            BY <1>1, <1>3, <3>1 DEF Carried, Stations, Firsts, Renewals, Syncs, RowGood
        <3>5. Goto(h, x)
            BY <2>3 DEF x
        <3> QED
            BY <2>1, <3>1, <3>3, <3>4, <3>5, StepBy DEF Waiting
    <2> QED
        BY <1>15, <2>2, <2>3 DEF LookExisting, Step
<1>16. ASSUME NEW s \in Subs, Open(s), Goto(h, Activating(r, s)), UNCHANGED <<row, market>>
       PROVE  Single'
    <2> DEFINE m == [mollie[s] EXCEPT !.plan = pay[p].plan]
               x == Syncing(r, s, m, "done", TRUE, FALSE)
    <2>1. m \in Sub /\ m.st = mollie[s].st /\ m.plan = pay[p].plan
        BY <1>4, SubFields DEF Types, MarketOK, Sub
    <2>2. Exists(s) /\ m.st \in {"active", "suspended"} /\ m.plan # Free
        BY <1>4, <1>16, <2>1, ExistsIsOpen
    <2> HIDE DEF m
    <2>3. Carried(x) /\ x.pc = "sync" /\ x.hook = r.hook
        BY <1>1, <1>3, <2>1, <2>2, SyncingCarried
    <2>4. x \in Good
        BY <1>1, <2>1, SyncingOK DEF Returns
    <2>5. Goto(h, x)
        BY <1>16 DEF Activating, m
    <2> HIDE DEF x
    <2> QED
        BY <1>16, <2>3, <2>4, <2>5, StepBy DEF Waiting
<1>17. CASE GetExisting(h)
    <2>1. r.id \in Subs /\ UNCHANGED <<row, market>>
        BY <1>1, <1>17 DEF GetExisting, At, RequestOK
    <2>2. CASE Goto(h, [r EXCEPT !.pc = "list", !.id = None])
        <3>1. PICK x \in Good : /\ x = [r EXCEPT !.pc = "list", !.id = None] /\ Carried(x)
                               /\ x.pc = "list" /\ x.hook = r.hook
            BY <1>7
        <3> QED
            BY <2>1, <2>2, <3>1, StepBy DEF Waiting
    <2> QED
        BY <1>16, <1>17, <2>1, <2>2 DEF GetExisting
<1>18. CASE ListExisting(h)
    <2>1. UNCHANGED <<row, market>> /\ ~Fault("list")
        BY <1>18 DEF ListExisting, Fault, NothingEnds
    <2>2. CASE (\A s \in Subs : ~Open(s)) /\ Goto(h, [r EXCEPT !.pc = "claim"])
        <3>1. ~SomeSub
            BY <2>2, ExistsIsOpen DEF SomeSub
        <3>2. PICK x \in Good : /\ x = [r EXCEPT !.pc = "claim"] /\ Carried(x)
                               /\ x.pc = "claim" /\ x.hook = r.hook
            BY <1>7
        <3>3. Goto(h, x)
            BY <3>2, <2>2
        <3>4. Claims(x)' /\ Named'
            BY <2>1, <3>1, <3>2, Untouched DEF Claims, Waiting, Named
        <3> QED
            BY <1>1, <1>12, <1>13, <1>14, <2>1, <3>1, <3>2, <3>3, <3>4
    <2> QED
        BY <1>16, <1>18, <2>1, <2>2 DEF ListExisting, Step
<1>19. CASE Claim(h)
    <2>1. UNCHANGED <<row, market>> /\ r.pc = "claim" /\ Waiting(r)
        BY <1>19 DEF Claim, At, Waiting
    <2>2. CASE Goto(h, Answered(h))
        BY <2>1, <2>2, AnsweredStep
    <2>3. CASE row.sid = p /\ Goto(h, [r EXCEPT !.pc = "create"])
        <3>1. ~SomeSub
            BY <1>1, <2>1, <2>3 DEF Claims
        <3>2. PICK x \in Good : /\ x = [r EXCEPT !.pc = "create"] /\ Carried(x)
                               /\ x.pc = "create" /\ x.hook = r.hook
            BY <1>7
        <3>3. Goto(h, x)
            BY <3>2, <2>3
        <3>4. Claims(x)' /\ Named'
            BY <2>1, <2>3, <3>1, <3>2, Untouched DEF Claims, Waiting, Named
        <3> QED
            BY <1>1, <1>12, <1>13, <1>14, <2>1, <3>2, <3>3, <3>4 DEF Waiting
    <2>4. CASE Goto(h, [r EXCEPT !.pc = "take", !.id = None])
        <3>1. PICK x \in Good : /\ x = [r EXCEPT !.pc = "take", !.id = None] /\ Carried(x)
                               /\ x.pc = "take" /\ x.hook = r.hook
            BY <1>8
        <3> QED
            BY <2>1, <2>4, <3>1, StepBy DEF Waiting
    <2>5. CASE row.sid \notin Pays /\ ~(Real(row.sid) /\ OpenRow)
        <3>1. row.sid = None
            BY <1>1, <2>5, RowFields DEF RowGood, Real, OpenRow
        <3> QED
            BY <1>3, <1>19, <2>2, <2>4, <2>5, <3>1, IdsDistinct DEF Claim, Hooking
    <2> QED
        BY <1>19, <2>2, <2>3, <2>4, <2>5 DEF Claim, Step, Hooking
<1>20. CASE Take(h)
    <2>1. r.pc = "take" /\ Waiting(r) /\ r.id = None /\ UNCHANGED market
        BY <1>1, <1>20 DEF Take, At, Waiting, Carried
    <2>2. CASE /\ row.sid = None /\ row' = [row EXCEPT !.sid = p]
               /\ Goto(h, [r EXCEPT !.pc = "create", !.id = None])
        <3>1. ~SomeSub /\ ~SomeSub'
            BY <2>1, <2>2, Untouched DEF Single, Named
        <3>2. PICK x \in Good : /\ x = [r EXCEPT !.pc = "create", !.id = None] /\ Carried(x)
                               /\ x.pc = "create" /\ x.hook = r.hook
            BY <1>7
        <3>3. Goto(h, x)
            BY <3>2, <2>2
        <3>4. row' \in Row /\ row'.sid = p /\ row'.soft = row.soft /\ row'.st = row.st
            BY <1>1, <1>3, <2>2 DEF Row
        <3>5. RowGood(row')
            BY <1>1, <1>3, <3>4, IdsDistinct DEF RowGood
        <3>6. Claims(x)' /\ Named'
            BY <3>1, <3>2, <3>4 DEF Claims, Waiting, Named
        <3>7. ASSUME NEW g \in Handlers, g # h PROVE Claims(req[g])'
            <4>1. req'[g] = req[g]
                BY <1>14, <3>3, <3>7
            <4>2. req[g].pc \notin {"create", "release"}
                <5>1. SUFFICES ASSUME req[g].pc \in {"create", "release"} PROVE FALSE
                    OBVIOUS
                <5>2. req[g].hook.id \in Pays /\ row.sid = req[g].hook.id
                    BY <1>11, <5>1, FirstHook DEF Single, Claims
                <5> QED
                    BY <2>2, <5>2, IdsDistinct
            <4> QED
                BY <3>1, <4>1, <4>2 DEF Claims
        <3> QED
            BY <1>12, <2>1, <3>2, <3>3, <3>4, <3>5, <3>6, <3>7 DEF Waiting
    <2>3. CASE UNCHANGED row /\ Goto(h, [r EXCEPT !.pc = "again", !.id = None])
        <3>1. PICK x \in Good : /\ x = [r EXCEPT !.pc = "again", !.id = None] /\ Carried(x)
                               /\ x.pc = "again" /\ x.hook = r.hook
            BY <1>7
        <3> QED
            BY <2>1, <2>3, <3>1, StepBy DEF Waiting
    <2> QED
        BY <1>20, <2>1, <2>2, <2>3 DEF Take, Hooking
<1>21. CASE TakeAgain(h)
    <2>1. UNCHANGED <<row, market>> /\ r.pc = "again" /\ Waiting(r)
        BY <1>21 DEF TakeAgain, At, Waiting
    <2>2. CASE row.sid = p
        <3>1. ~SomeSub
            BY <1>1, <2>1, <2>2 DEF Claims
        <3>2. PICK x \in Good : /\ x = [r EXCEPT !.pc = "create"] /\ Carried(x)
                               /\ x.pc = "create" /\ x.hook = r.hook
            BY <1>7
        <3>3. CASE Goto(h, x)
            <4>1. Claims(x)' /\ Named'
                BY <2>1, <2>2, <3>1, <3>2, Untouched DEF Claims, Waiting, Named
            <4> QED
                BY <1>1, <1>12, <1>13, <1>14, <2>1, <3>2, <3>3, <4>1 DEF Waiting
        <3>4. CASE Goto(h, Answered(h))
            BY <2>1, <3>4, AnsweredStep
        <3> QED
            BY <1>21, <2>2, <3>2, <3>3, <3>4 DEF TakeAgain, Hooking
    <2>3. CASE row.sid # p
        BY <1>21, <2>1, <2>3, AnsweredStep DEF TakeAgain, Hooking
    <2> QED
        BY <2>2, <2>3
<1>22. CASE CreateFirst(h)
    <2>1. UNCHANGED row /\ r.pc = "create" /\ row.sid = p /\ ~SomeSub
        BY <1>1, <1>22 DEF CreateFirst, At, Claims
    <2>2. CASE \E s \in Subs : /\ Create(s, pay[p].plan, now + Interval)
                               /\ Goto(h, Syncing(r, s, mollie'[s], "done", TRUE, FALSE))
        <3>1. PICK s \in Subs : /\ Create(s, pay[p].plan, now + Interval)
                                /\ Goto(h, Syncing(r, s, mollie'[s], "done", TRUE, FALSE))
            BY <2>2
        <3> DEFINE m == [st |-> "active", plan |-> pay[p].plan, next |-> now + Interval]
        <3>2. /\ mollie' = [mollie EXCEPT ![s] = m] /\ UNCHANGED <<pay, hooks>>
              /\ m.st = "active" /\ m.plan = pay[p].plan
            BY <3>1 DEF Create
        <3>3. m \in Sub /\ mollie'[s] = m
            BY <1>4, <3>2, NowIsNat, BoundsAreNat DEF Sub, Types, MarketOK
        <3> HIDE DEF m
        <3>4. \A t \in Subs : ~Exists(t) /\ (Exists(t)' <=> t = s)
            BY <2>1, <3>2, <3>3 DEF SomeSub, Exists, Types, MarketOK
        <3>5. Grows /\ OneExists' /\ Named' /\ RowGood(row)'
            BY <1>1, <1>3, <2>1, <3>2, <3>4, IdsDistinct
                DEF Grows, OneExists, Named, RowGood
        <3>6. Charged'
            <4>1. \A k \in hooks : k.kind = "renewal" => k.id \in Subs
                BY HookIs DEF Types, MarketOK
            <4>2. \A t \in Subs : t # s => mollie'[t] = mollie[t]
                BY <3>2 DEF Types, MarketOK
            <4> QED
                BY <1>4, <3>2, <3>3, <3>4, <4>1, <4>2 DEF Charged, Single, HookGood
        <3>7. PICK x \in Good : /\ x = Syncing(r, s, m, "done", TRUE, FALSE)
                               /\ x.pc = "sync" /\ x.hook = r.hook /\ x.id = s /\ x.ret = "done"
                               /\ x.sub = m
            <4>1. Syncing(r, s, m, "done", TRUE, FALSE) \in Good
                BY <1>1, <3>3, SyncingOK DEF Returns
            <4>2. /\ Syncing(r, s, m, "done", TRUE, FALSE).pc = "sync"
                  /\ Syncing(r, s, m, "done", TRUE, FALSE).hook = r.hook
                  /\ Syncing(r, s, m, "done", TRUE, FALSE).id = s
                  /\ Syncing(r, s, m, "done", TRUE, FALSE).ret = "done"
                  /\ Syncing(r, s, m, "done", TRUE, FALSE).sub = m
                BY <1>1 DEF Syncing, Request
            <4> QED
                BY <4>1, <4>2
        <3>8. Goto(h, x)
            BY <3>1, <3>3, <3>7
        <3>9. Carried(x)'
            BY <1>3, <1>4, <3>2, <3>4, <3>5, <3>7
                DEF Carried, Stations, Firsts, Renewals, Syncs, HookGood
        <3>10. Claims(x)' /\ \A g \in Handlers : Forgets(x, req[g]) /\ Forgets(req[g], x)
            BY <3>7 DEF Claims, Waiting, Forgets
        <3>11. Once'
            BY <3>7, <3>8 DEF Once, Single, Goto, Types, RequestsOK
        <3>12. ASSUME NEW g \in Handlers, g # h PROVE Claims(req[g])'
            <4>1. req'[g] = req[g]
                BY <1>14, <3>8, <3>12
            <4>2. req[g].pc \in Firsts => row.sid # req[g].hook.id
                BY <1>10, <2>1, <3>12
            <4>3. req[g].pc \notin {"create", "release"}
                BY <1>11, <4>2 DEF Single, Claims
            <4> QED
                BY <1>11, <2>1, <4>1, <4>2, <4>3 DEF Claims, Waiting
        <3> QED
            BY <3>5, <3>6, <3>7, <3>8, <3>9, <3>10, <3>11, <3>12, StepTaken
    <2>3. CASE Goto(h, [r EXCEPT !.pc = "release"]) /\ UNCHANGED market
        <3>1. PICK x \in Good : /\ x = [r EXCEPT !.pc = "release"] /\ Carried(x)
                               /\ x.pc = "release" /\ x.hook = r.hook
            BY <1>7
        <3>2. Goto(h, x)
            BY <3>1, <2>3
        <3>3. Claims(x)' /\ Named'
            BY <2>1, <2>3, <3>1, Untouched DEF Claims, Waiting, Named
        <3> QED
            BY <1>1, <1>12, <1>13, <1>14, <2>1, <2>3, <3>1, <3>2, <3>3 DEF Waiting
    <2> QED
        BY <1>22, <2>2, <2>3 DEF CreateFirst, Hooking, Step
<1>23. CASE Release(h) /\ row' # row
    <2>1. /\ r.pc = "release" /\ row.sid = p /\ ~SomeSub /\ UNCHANGED market
          /\ row' = [row EXCEPT !.sid = None] /\ Goto(h, Answered(h))
        BY <1>1, <1>23 DEF Release, At, Claims, Hooking
    <2>2. /\ row' \in Row /\ row'.sid = None /\ row'.soft = row.soft /\ row'.st = row.st
        BY <1>1, <2>1 DEF Row
    <2>3. RowGood(row') /\ ~SomeSub'
        BY <1>1, <2>1, <2>2, Untouched, IdsDistinct DEF RowGood
    <2>4. Answered(h) \in Good /\ Carried(Answered(h)) /\ Answered(h).pc = "done" /\ Answered(h).hook = r.hook
        BY AnsweredOK, AnsweredCarried
    <2>5. PICK x \in Good : x = Answered(h)
        BY <2>4
    <2>6. Claims(x)' /\ Named'
        BY <2>3, <2>4, <2>5 DEF Claims, Waiting, Named
    <2>7. ASSUME NEW g \in Handlers, g # h PROVE Claims(req[g])'
        <3>1. req'[g] = req[g]
            BY <1>14, <2>1, <2>7
        <3>2. req[g].pc \notin {"create", "release"}
            BY <1>10, <1>11, <2>1, <2>7 DEF Single, Claims
        <3> QED
            BY <2>3, <3>1, <3>2 DEF Claims
    <2> QED
        BY <1>12, <2>1, <2>2, <2>3, <2>4, <2>5, <2>6, <2>7 DEF Waiting
<1>24. CASE Release(h) /\ row' = row
    BY <1>24, AnsweredStep DEF Release
<1> QED
    BY <1>15, <1>17, <1>18, <1>19, <1>20, <1>21, <1>22, <1>23, <1>24 DEF First
\* After a charge.
LEMMA RenewedSingle == ASSUME Types, NothingEnds, Single, NEW h \in Handlers, Renewed(h) PROVE Single'
<1> DEFINE r == req[h]
           s == req[h].hook.id
<1>1. /\ r \in Request /\ RequestOK(r) /\ r \in Good /\ row \in Row /\ RowGood(row)
      /\ Carried(r) /\ row.due \in Nat
    BY Holds DEF Good, Single
<1>2. r.pc \in Renewals
    BY DEF Renewed, LookRenewed, StampFailed, GetRenewed, At, Renewals
<1>3. /\ r.hook.kind = "renewal" /\ s \in Subs /\ r.hook.paid \in BOOLEAN /\ HookGood(r.hook)
      /\ Exists(s) /\ SomeSub /\ row.sid # None
    BY <1>1, <1>2, Fields, HookIs, RenewalExists DEF RequestOK, Carried, Single, Named
<1>4. \A g \in Handlers : /\ req[g].pc \notin {"create", "release"}
                          /\ Waiting(req[g]) => row.sid # req[g].hook.id /\ req[g].hook.id \in Pays
    BY <1>3, FirstHook DEF Single, Claims, Waiting, Firsts
\* To another statement of this one, with what was read of the row.
<1>5. ASSUME NEW x \in Good, Goto(h, x), UNCHANGED market, row' \in {row, Stamped(row)},
             x.hook = r.hook, x.pc \in {"stamp", "getsub"},
             x.seen = NewRow \/ (RowGood(x.seen) /\ x.seen.sid # None),
             \A g \in Handlers : Waiting(req[g]) => x.seen.sid # req[g].hook.id
      PROVE  Single'
    <2>1. RowGood(row') /\ row'.sid = row.sid
        BY <1>1, <1>5, RowStays
    <2>2. Grows /\ Charged' /\ OneExists' /\ RowGood(row)' /\ Named' /\ SomeSub' = SomeSub
        BY <1>3, <1>5, <2>1, Untouched DEF Named
    <2>3. Once'
        BY <1>5 DEF Once, Single, Goto, Types, RequestsOK
    <2>4. Carried(x)
        BY <1>3, <1>5 DEF Carried, Stations, Firsts, Renewals, Syncs
    <2>5. Carried(x)' /\ Claims(x)'
        BY <1>5, <2>2, <2>4, CarriedStays DEF Claims, Waiting
    <2>6. \A g \in Handlers : g # h => Forgets(x, req[g]) /\ Forgets(req[g], x)
        BY <1>5 DEF Forgets, Waiting
    <2>7. ASSUME NEW g \in Handlers, g # h PROVE Claims(req[g])'
        <3>1. req'[g] = req[g]
            BY <1>5, <2>7 DEF Goto, Types, RequestsOK
        <3> QED
            BY <1>4, <2>1, <2>2, <3>1 DEF Claims, Waiting
    <2> QED
        BY <1>5, <2>1, <2>2, <2>3, <2>5, <2>6, <2>7, StepTaken
<1>6. \A g \in Handlers : Waiting(req[g]) => NewRow.sid # req[g].hook.id
    BY <1>4, IdsDistinct DEF NewRow
<1>7. {"stamp", "getsub"} \subseteq Renewals
    BY DEF Renewals
<1>8. CASE LookRenewed(h)
    <2>1. UNCHANGED <<row, market>> /\ r.pc = "state" /\ r.seen = NewRow
        BY <1>1, <1>8 DEF LookRenewed, At, Carried
    <2>2. CASE Goto(h, Answered(h))
        BY <2>1, <2>2, AnsweredStep
    <2>3. CASE \E pc \in {"stamp", "getsub"} : Goto(h, [r EXCEPT !.seen = row, !.pc = pc])
        <3>1. PICK pc \in {"stamp", "getsub"} : Goto(h, [r EXCEPT !.seen = row, !.pc = pc])
            BY <2>3
        <3>2. PICK x \in Good : /\ x = [r EXCEPT !.seen = row, !.pc = pc]
                                /\ x.pc = pc /\ x.seen = row /\ x.hook = r.hook
            <4>1. [r EXCEPT !.seen = row, !.pc = pc] \in Good
                BY <1>1, <1>3, <1>7, MoveRenewed
            <4>2. /\ [r EXCEPT !.seen = row, !.pc = pc].pc = pc
                  /\ [r EXCEPT !.seen = row, !.pc = pc].seen = row
                  /\ [r EXCEPT !.seen = row, !.pc = pc].hook = r.hook
                BY <1>1 DEF Request
            <4> QED
                BY <4>1, <4>2
        <3> QED
            BY <1>1, <1>3, <1>4, <1>5, <2>1, <3>1, <3>2
    <2>4. CASE \E pc \in {"stamp", "getsub"} : Goto(h, [r EXCEPT !.pc = pc])
        <3>1. PICK pc \in {"stamp", "getsub"} : Goto(h, [r EXCEPT !.pc = pc])
            BY <2>4
        <3>2. PICK x \in Good : /\ x = [r EXCEPT !.pc = pc]
                                /\ x.pc = pc /\ x.seen = NewRow /\ x.hook = r.hook
            <4>1. [r EXCEPT !.pc = pc] \in Good
                BY <1>1, <1>3, <1>7, MoveRenewed
            <4>2. /\ [r EXCEPT !.pc = pc].pc = pc /\ [r EXCEPT !.pc = pc].seen = NewRow
                  /\ [r EXCEPT !.pc = pc].hook = r.hook
                BY <1>1, <2>1 DEF Request
            <4> QED
                BY <4>1, <4>2
        <3> QED
            BY <1>5, <1>6, <2>1, <3>1, <3>2
    <2> QED
        BY <1>8, <2>2, <2>3, <2>4 DEF LookRenewed, Step
<1>9. CASE StampFailed(h)
    <2>1. /\ UNCHANGED market /\ r.pc = "stamp" /\ row' \in {row, Stamped(row)}
          /\ Goto(h, [r EXCEPT !.pc = "getsub"])
        BY <1>9 DEF StampFailed, At, Step
    <2>2. PICK x \in Good : /\ x = [r EXCEPT !.pc = "getsub"]
                            /\ x.pc = "getsub" /\ x.seen = r.seen /\ x.hook = r.hook
        <3>1. [r EXCEPT !.pc = "getsub"] \in Good
            BY <1>1, <1>3, <1>7, MoveRenewed
        <3>2. /\ [r EXCEPT !.pc = "getsub"].pc = "getsub" /\ [r EXCEPT !.pc = "getsub"].seen = r.seen
              /\ [r EXCEPT !.pc = "getsub"].hook = r.hook
            BY <1>1 DEF Request
        <3> QED
            BY <3>1, <3>2
    <2>3. r.seen = NewRow \/ (RowGood(r.seen) /\ r.seen.sid # None)
        BY <1>1, <2>1 DEF Carried
    <2>4. \A g \in Handlers : Waiting(req[g]) => r.seen.sid # req[g].hook.id
        BY <2>1 DEF Single, Forgets
    <2> QED
        BY <1>5, <2>1, <2>2, <2>3, <2>4
<1>10. CASE GetRenewed(h)
    <2>1. UNCHANGED market /\ r.pc = "getsub"
        BY <1>10 DEF GetRenewed, At
    <2>2. r.seen = NewRow \/ (RowGood(r.seen) /\ r.seen.sid # None)
        BY <1>1, <2>1 DEF Carried
    <2>3. CASE /\ Goto(h, Syncing(r, s, mollie[s], "done", r.hook.paid, ~r.hook.paid))
               /\ UNCHANGED row
        <3> DEFINE x == Syncing(r, s, mollie[s], "done", r.hook.paid, ~r.hook.paid)
        <3>1. mollie[s] \in Sub /\ mollie[s].st \in {"active", "suspended"} /\ mollie[s].plan # Free
            BY <1>3, ExistsIsOpen DEF Types, MarketOK
        <3>2. x \in Good
            BY <1>1, <1>3, <3>1, SyncingOK DEF Returns
        <3>3. /\ x.pc = "sync" /\ x.id = s /\ x.ret = "done" /\ x.sub = mollie[s]
              /\ x.hook = r.hook
            BY <1>1 DEF Syncing, Request
        <3>4. Goto(h, x)
            BY <2>3
        <3> HIDE DEF x
        <3>5. Carried(x)
            BY <1>3, <3>1, <3>3 DEF Carried, Stations, Firsts, Renewals, Syncs
        <3> QED
            BY <2>1, <2>3, <3>2, <3>3, <3>4, <3>5, StepBy DEF Waiting
    <2>4. CASE Goto(h, Answered(h)) /\ UNCHANGED row
        BY <2>1, <2>4, AnsweredStep
    <2> DEFINE w == [r.seen EXCEPT !.plan = IF @ = Free THEN Basic ELSE @, !.st = "past_due",
                                   !.due = row.due]
    <2>5. CASE r.seen # NewRow /\ Goto(h, Answered(h)) /\ row' = w
        <3>1. r.seen \in Row /\ RowGood(r.seen) /\ r.seen.sid # None
            BY <1>1, <2>2, <2>5, Fields
        <3>2. /\ w \in Row /\ w.sid = r.seen.sid /\ w.soft = r.seen.soft /\ w.st = "past_due"
              /\ w.plan # Free
            BY <1>1, <3>1, PlansDistinct DEF Row
        <3> HIDE DEF w
        <3>3. RowGood(w) /\ w.sid # None
            BY <3>1, <3>2 DEF RowGood
        <3>4. Grows /\ Charged' /\ OneExists' /\ RowGood(row)' /\ Named' /\ SomeSub' = SomeSub
            BY <2>1, <2>5, <3>3, Untouched DEF Named
        <3>5. PICK x \in Good : /\ x = Answered(h) /\ Carried(x) /\ x.pc = "done"
                                /\ x.hook = r.hook
            BY AnsweredOK, AnsweredCarried
        <3>6. Once'
            BY <2>5, <3>5 DEF Once, Single, Goto, Types, RequestsOK
        <3>7. Carried(x)' /\ Claims(x)'
            BY <3>4, <3>5, CarriedStays DEF Claims, Waiting
        <3>8. \A g \in Handlers : Forgets(x, req[g]) /\ Forgets(req[g], x)
            BY <3>5 DEF Forgets, Waiting
        <3>9. ASSUME NEW g \in Handlers, g # h PROVE Claims(req[g])'
            <4>1. req'[g] = req[g]
                BY <2>5, <3>9 DEF Goto, Types, RequestsOK
            <4>2. Waiting(req[g]) => r.seen.sid # req[g].hook.id
                BY <2>1 DEF Single, Forgets
            <4>3. row'.sid = r.seen.sid
                BY <2>5, <3>2
            <4> QED
                BY <1>4, <4>1, <4>2, <4>3 DEF Claims, Waiting
        <3> QED
            BY <2>5, <3>4, <3>5, <3>6, <3>7, <3>8, <3>9, StepTaken
    <2> QED
        BY <1>10, <2>3, <2>4, <2>5 DEF GetRenewed, Hooking
<1> QED
    BY <1>8, <1>9, <1>10 DEF Renewed

\* The sync of what exists.
LEMMA SyncSingle == ASSUME Types, NothingEnds, Single, NEW h \in Handlers, Sync(h) PROVE Single'
<1> DEFINE r == req[h]
<1>1. /\ r \in Request /\ RequestOK(r) /\ r \in Good /\ row \in Row /\ RowGood(row)
      /\ Carried(r) /\ row.due \in Nat /\ HookGood(r.hook)
    BY Holds DEF Good, Single, Carried
<1>2. r.pc \in Syncs
    BY DEF Sync, SyncRead, SyncDue, SyncMark, SyncWrite, At, Syncs
<1>3. /\ r.id \in Subs /\ r.ret \in {"idle", "done"} /\ Exists(r.id) /\ SomeSub
      /\ r.sub.st \in {"active", "suspended"} /\ r.sub.plan # Free
    BY <1>1, <1>2 DEF RequestOK, Carried, SomeSub
\* To another statement of the sync, with what is to be written.
<1>4. ASSUME NEW w \in Row, NEW pc \in Syncs,
             pc \in {"mark", "write"} => w.sid = r.id /\ RowGood(w)
      PROVE  \E x \in Good : /\ x = [r EXCEPT !.pc = pc, !.seen = w] /\ Carried(x)
                             /\ x.pc = pc /\ x.hook = r.hook
    <2> DEFINE x == [r EXCEPT !.pc = pc, !.seen = w]
    <2>1. pc \in Pcs
        BY DEF Syncs, Pcs
    <2>2. x \in Request
        BY <1>1, <2>1 DEF Request
    <2>3. /\ x.pc = pc /\ x.id = r.id /\ x.ret = r.ret /\ x.sub = r.sub /\ x.seen = w
          /\ x.hook = r.hook
        BY <1>1 DEF Request
    <2> HIDE DEF x
    <2>4. x \in Good
        BY <1>3, <2>2, <2>3 DEF Good, RequestOK, Firsts, Renewals, Syncs, Returns
    <2>5. Carried(x)
        BY <1>1, <1>3, <1>4, <2>3 DEF Carried, Stations, Firsts, Renewals, Syncs
    <2> QED
        BY <2>3, <2>4, <2>5 DEF x
<1>5. \A pc : [r EXCEPT !.pc = pc] = [r EXCEPT !.pc = pc, !.seen = r.seen]
    BY <1>1 DEF Request
<1>6. r.seen \in Row
    BY <1>1, Fields
<1>7. CASE SyncRead(h)
    <2>1. UNCHANGED <<row, market>> /\ "due" \in Syncs
        BY <1>7 DEF SyncRead, Syncs
    <2>2. PICK w \in Row : Goto(h, [r EXCEPT !.pc = "due", !.seen = w])
        BY <1>1, <1>5, <1>6, <1>7 DEF SyncRead, Step
    <2>3. PICK x \in Good : /\ x = [r EXCEPT !.pc = "due", !.seen = w] /\ Carried(x)
                            /\ x.pc = "due" /\ x.hook = r.hook
        BY <1>4, <2>1
    <2> QED
        BY <2>1, <2>2, <2>3, StepBy DEF Waiting
<1>8. CASE SyncDue(h)
    <2>1. UNCHANGED <<row, market>>
        BY <1>8 DEF SyncDue
    <2> PICK due \in {row.due, 0} :
            Goto(h, [r EXCEPT !.seen = Payload(r, due),
                              !.pc = IF (Payload(r, due).due = 0) = (due = 0) THEN "write" ELSE "mark"])
        BY <1>8 DEF SyncDue
    <2> DEFINE new == Payload(r, due)
    <2>2. new \in Row
        BY <1>1, PayloadOK
    <2>3. ~Held(r) /\ Status(r) # "canceled"
        BY <1>3 DEF Held, Status
    <2>4. Dunned(r, due) # "canceled"
        BY <2>3 DEF Dunned
    <2>5. new.sid = r.id /\ new.plan = r.sub.plan /\ new.st # "canceled" /\ new.soft = FALSE
        BY <1>3, <2>3, <2>4 DEF Payload
    <2>6. RowGood(new)
        BY <1>3, <2>5 DEF RowGood
    <2>7. PICK pc \in {"write", "mark"} : Goto(h, [r EXCEPT !.seen = new, !.pc = pc])
        <3>1. Goto(h, [r EXCEPT !.seen = new,
                                !.pc = IF (new.due = 0) = (due = 0) THEN "write" ELSE "mark"])
            OBVIOUS
        <3> HIDE DEF new
        <3> QED
            BY <3>1
    <2> HIDE DEF new
    <2>8. [r EXCEPT !.seen = new, !.pc = pc] = [r EXCEPT !.pc = pc, !.seen = new]
        BY <1>1 DEF Request
    <2>9. PICK x \in Good : /\ x = [r EXCEPT !.pc = pc, !.seen = new] /\ Carried(x)
                            /\ x.pc = pc /\ x.hook = r.hook
        <3>1. pc \in Syncs
            BY DEF Syncs
        <3> QED
            BY <1>4, <2>2, <2>5, <2>6, <3>1
    <2> QED
        BY <2>1, <2>7, <2>8, <2>9, StepBy DEF Waiting
<1>9. CASE SyncMark(h)
    <2>1. /\ UNCHANGED market /\ r.pc = "mark" /\ Goto(h, [r EXCEPT !.pc = "write"])
          /\ row' \in {row, [row EXCEPT !.due = 0], Stamped(row)}
        BY <1>9 DEF SyncMark, At, Step
    <2>2. r.seen.sid = r.id /\ RowGood(r.seen)
        BY <1>1, <2>1 DEF Carried
    <2>3. PICK x \in Good : /\ x = [r EXCEPT !.pc = "write", !.seen = r.seen] /\ Carried(x)
                            /\ x.pc = "write" /\ x.hook = r.hook
        BY <1>4, <1>6, <2>2 DEF Syncs
    <2>4. row'.sid = row.sid /\ RowGood(row')
        <3>1. LET w == [row EXCEPT !.due = 0]
              IN  w.sid = row.sid /\ w.soft = row.soft /\ w.st = row.st /\ w.plan = row.plan
            BY <1>1 DEF Row
        <3> QED
            BY <1>1, <2>1, <3>1, RowStays DEF RowGood
    <2>5. RowGood(row)' /\ Goto(h, x)
        BY <1>5, <2>1, <2>3, <2>4, Untouched
    <2> QED
        BY <2>1, <2>3, <2>4, <2>5, Untouched, StepAside DEF Waiting
<1>10. CASE SyncWrite(h)
    <2>1. UNCHANGED market /\ r.pc = "write" /\ Goto(h, Synced(r)) /\ row' \in {row, r.seen}
        BY <1>10 DEF SyncWrite, At
    <2>2. r.seen.sid = r.id /\ RowGood(r.seen)
        BY <1>1, <2>1 DEF Carried
    <2>3. PICK x \in Good : /\ x = Synced(r) /\ Carried(x) /\ x.pc \in {"idle", "done"}
                            /\ x.hook \in {r.hook, NoHook}
        <3>1. Synced(r) \in Good
            BY <1>1, <1>3, SyncedOK DEF Returns
        <3>2. CASE r.ret = "idle"
            <4>1. Synced(r) = Idle /\ Idle.pc = "idle" /\ Idle.hook = NoHook
                BY <3>2 DEF Synced, Idle
            <4> QED
                BY <3>1, <4>1, IdleCarried
        <3>3. CASE r.ret = "done"
            <4>1. Synced(r).pc = "done" /\ Synced(r).hook = r.hook
                BY <1>1, <3>3 DEF Synced, Request
            <4>2. Carried(Synced(r))
                BY <1>1, <4>1 DEF Carried, Stations, Firsts, Renewals, Syncs
            <4> QED
                BY <3>1, <4>1, <4>2
        <3> QED
            BY <1>3, <3>2, <3>3
    <2>4. CASE row' = row
        BY <2>1, <2>3, <2>4, StepBy DEF Waiting
    <2>5. CASE row' = r.seen
        <3>1. row'.sid = r.id /\ RowGood(row') /\ row'.sid # None /\ row'.sid \notin Pays
            BY <1>3, <2>2, <2>5, IdsDistinct
        <3>2. Grows /\ Charged' /\ OneExists' /\ RowGood(row)' /\ Named' /\ SomeSub' = SomeSub
            BY <2>1, <3>1, Untouched DEF Named
        <3>3. Once'
            BY <2>1, <2>3 DEF Once, Single, Goto, Types, RequestsOK
        <3>4. Carried(x)' /\ Claims(x)'
            BY <2>3, <3>2, CarriedStays DEF Claims, Waiting
        <3>5. \A g \in Handlers : Forgets(x, req[g]) /\ Forgets(req[g], x)
            BY <2>3 DEF Forgets, Waiting
        <3>6. ASSUME NEW g \in Handlers, g # h PROVE Claims(req[g])'
            <4>1. req'[g] = req[g]
                BY <2>1, <3>6 DEF Goto, Types, RequestsOK
            <4>2. req[g].pc \notin {"create", "release"}
                BY <1>3 DEF Single, Claims
            <4>3. Waiting(req[g]) => req[g].hook.id \in Pays
                BY FirstHook DEF Waiting, Firsts
            <4> QED
                BY <3>1, <4>1, <4>2, <4>3 DEF Claims, Waiting
        <3> QED
            BY <2>1, <2>3, <3>2, <3>3, <3>4, <3>5, <3>6, StepTaken
    <2> QED
        BY <2>1, <2>4, <2>5
<1> QED
    BY <1>7, <1>8, <1>9, <1>10 DEF Sync

\* A call of Mollie, from its arrival to the answer.
LEMMA WebhookSingle ==
    ASSUME Types, NothingEnds, Single, NEW h \in Handlers, Webhook(h) PROVE Single'
<1> DEFINE r == req[h]
<1>1. r \in Request /\ r \in Good /\ Carried(r) /\ r.hook \in Hook \cup {NoHook}
    BY Holds, Fields DEF Good, Single
<1>2. CASE Deliver(h)
    <2>1. PICK k \in hooks : /\ Begin(h, [Idle EXCEPT !.pc = "fetch", !.hook = k])
                             /\ \A g \in Handlers : req[g].hook # k
                             /\ UNCHANGED row
        BY <1>2 DEF Deliver, Fault, NothingEnds, Hooking
    <2>2. k \in Hook /\ HookGood(k) /\ k.kind \in {"first", "renewal"}
        <3>1. k \in Hook /\ HookGood(k)
            BY DEF Types, MarketOK, Single, Charged
        <3> QED
            BY <3>1 DEF HookGood, Hook
    <2> DEFINE x == [Idle EXCEPT !.pc = "fetch", !.hook = k]
    <2>3. /\ x \in Request /\ x.pc = "fetch" /\ x.hook = k /\ x.seen = NewRow
        <3>1. "fetch" \in Pcs /\ Idle.seen = NewRow
            BY DEF Pcs, Idle
        <3> QED
            BY <2>2, <3>1, IdleOK DEF Request
    <2>4. Goto(h, x) /\ UNCHANGED market
        BY <2>1 DEF Begin
    <2> HIDE DEF x
    <2>5. x \in Good /\ Carried(x)
        <3>1. x \in Good
            BY <2>3, PlainOK DEF Plain, Pcs, Firsts, Renewals, Syncs
        <3> QED
            BY <2>2, <2>3, <3>1 DEF Carried, Stations, Firsts, Renewals, Syncs
    <2>6. Grows /\ Charged' /\ OneExists' /\ RowGood(row)' /\ Named' /\ SomeSub' = SomeSub
        BY <2>1, <2>4, Untouched DEF Single, Named
    <2>7. Once'
        BY <2>1, <2>3, <2>4 DEF Once, Single, Goto, Types, RequestsOK
    <2>8. Carried(x)' /\ Claims(x)'
        BY <2>3, <2>5, <2>6, CarriedStays DEF Claims, Waiting
    <2>9. \A g \in Handlers : Forgets(x, req[g]) /\ Forgets(req[g], x)
        BY <2>3 DEF Forgets, Waiting
    <2>10. ASSUME NEW g \in Handlers, g # h PROVE Claims(req[g])'
        <3>1. req'[g] = req[g]
            BY <2>4, <2>10 DEF Goto, Types, RequestsOK
        <3> QED
            BY <2>1, <2>6, <3>1 DEF Claims, Waiting, Single
    <2> QED
        BY <2>4, <2>5, <2>6, <2>7, <2>8, <2>9, <2>10, StepTaken
<1>3. CASE Fetch(h)
    <2>1. /\ UNCHANGED <<row, market>> /\ r.pc = "fetch" /\ r.hook.kind \in {"first", "renewal"}
          /\ r.seen = NewRow /\ HookGood(r.hook)
        BY <1>1, <1>3 DEF Fetch, At, Carried
    <2>2. CASE Goto(h, Answered(h))
        BY <2>1, <2>2, AnsweredStep
    <2>3. CASE \E pc \in {"existing", "state"} :
                  /\ pc = (IF r.hook.kind = "first" THEN "existing" ELSE "state")
                  /\ Goto(h, [r EXCEPT !.pc = pc])
        <3>1. PICK pc \in {"existing", "state"} :
                  /\ pc = (IF r.hook.kind = "first" THEN "existing" ELSE "state")
                  /\ Goto(h, [r EXCEPT !.pc = pc])
            BY <2>3
        <3> DEFINE x == [r EXCEPT !.pc = pc]
        <3>2. x.pc = pc /\ x.hook = r.hook /\ x.seen = NewRow
            BY <1>1, <2>1 DEF Request
        <3>3. x \in Good
            <4>1. CASE r.hook.kind = "first"
                BY <1>1, <3>1, <4>1, MoveFirst, Fields DEF Firsts
            <4>2. CASE r.hook.kind = "renewal"
                BY <1>1, NewRowOK, <3>1, <4>2, MoveRenewed DEF Renewals
            <4> QED
                BY <2>1, <4>1, <4>2
        <3>4. Goto(h, x)
            BY <3>1
        <3> HIDE DEF x
        <3>5. Carried(x)
            BY <2>1, <3>2 DEF Carried, Stations, Firsts, Renewals, Syncs
        <3> QED
            BY <2>1, <3>2, <3>3, <3>4, <3>5, StepBy DEF Waiting
    <2> QED
        BY <1>3, <2>1, <2>2, <2>3 DEF Fetch, Step, Hooking
<1>4. CASE Mandate(h)
    <2>1. r.pc \in {"entitle", "update", "restore"}
        BY <1>4 DEF Mandate, Entitle, EntitleBlind, UpdateMandate, Restore, At
    <2> QED
        BY <1>1, <2>1 DEF Carried, Stations, Firsts, Renewals, Syncs
<1>5. CASE Done(h)
    <2>1. /\ Goto(h, Idle) /\ hooks' \subseteq hooks /\ UNCHANGED <<row, mollie, pay>>
          /\ Idle.pc = "idle" /\ Idle.hook = NoHook
        BY <1>5 DEF Done, End, Idle
    <2>2. Grows /\ Charged' /\ RowGood(row)' /\ \A s \in Subs : Exists(s)' = Exists(s)
        BY <2>1 DEF Grows, Exists, Charged, HookGood, RowGood, Single
    <2> QED
        BY <2>1, <2>2, IdleOK, IdleCarried, StepAside DEF Waiting
<1> QED
    BY <1>2, <1>3, <1>4, <1>5, FirstSingle, RenewedSingle DEF Webhook
-----------------------------------------------------------------------------
(* The restaurant's requests, while nothing ends *)

LEMMA StartStep ==
    ASSUME Types, Single, NEW h \in Handlers, NEW op, NEW r \in Good, Start(h, op, r),
           r.hook = NoHook, r.pc \in {"cpay", "patch", "vstamp"},
           r.pc \in {"cpay", "patch"} => r.plan # Free
    PROVE  Single'
<1>1. row' \in {row, Stamped(row)} /\ Goto(h, r) /\ UNCHANGED market
    BY RowStays DEF Start, Begin, Types, Single
<1>2. Carried(r)
    BY NoHookGood DEF Carried, Stations, Firsts, Renewals, Syncs
<1> QED
    BY <1>1, <1>2, StepBy DEF Waiting

LEMMA CheckoutsSingle ==
    ASSUME Types, NothingEnds, Single, NEW h \in Handlers, Checkouts(h) PROVE Single'
<1> DEFINE r == req[h]
<1>1. /\ r \in Request /\ Carried(r) /\ row \in Row /\ RowGood(row) /\ Entitled(row) = row
      /\ r.plan \in Plans \cup {Free}
    BY Holds, RowStays, Fields DEF Single
<1>2. CASE Checkout(h)
    <2>1. PICK plan \in Booked : Start(h, "checkout", [Idle EXCEPT !.pc = "cpay", !.plan = plan])
        BY <1>1, <1>2, NoGraceOver DEF Checkout
    <2>2. plan \in Plans /\ plan # Free
        BY PlansDistinct
    <2> DEFINE x == [Idle EXCEPT !.pc = "cpay", !.plan = plan]
    <2>3. x \in Good
        BY <1>1, <2>2, NewOK, ArePlain
    <2>4. x.hook = NoHook /\ x.pc = "cpay" /\ x.plan = plan
        BY DEF Idle
    <2>5. Start(h, "checkout", x)
        BY <2>1
    <2> HIDE DEF x
    <2> QED
        BY <2>2, <2>3, <2>4, <2>5, StartStep
<1>3. CASE CheckoutGet(h) \/ CheckoutCancel(h) \/ CheckoutCustomer(h)
    <2>1. r.pc \in {"cget", "ccancel", "cust"}
        BY <1>3 DEF CheckoutGet, CheckoutCancel, CheckoutCustomer, At
    <2> QED
        BY <1>1, <2>1 DEF Carried, Stations, Firsts, Renewals, Syncs
<1>4. CASE CheckoutPay(h)
    <2>1. PICK p \in Pays : /\ pay[p].st = "none"
                            /\ pay' = [pay EXCEPT ![p] = [st |-> "open", plan |-> r.plan]]
        BY <1>4 DEF CheckoutPay
    <2>2. /\ r.plan # Free /\ Goto(h, Idle) /\ UNCHANGED <<mollie, hooks>>
          /\ row' \in {row, [row EXCEPT !.plan = r.plan, !.st = "incomplete", !.end = 0]}
        BY <1>1, <1>4 DEF CheckoutPay, At, Carried, End
    <2>3. Idle.pc = "idle" /\ Idle.hook = NoHook
        BY DEF Idle
    <2>4. \A q \in Pays : /\ pay[q].st # "none" => pay'[q] = pay[q]
                          /\ pay'[q] = pay[q] \/ pay'[q] = [st |-> "open", plan |-> r.plan]
        BY <2>1 DEF Types, MarketOK
    <2>5. Grows /\ \A s \in Subs : Exists(s)' = Exists(s)
        BY <2>2, <2>4 DEF Grows, Exists
    <2>6. \A k \in hooks : HookGood(k)'
        <3> SUFFICES ASSUME NEW k \in hooks PROVE HookGood(k)'
            OBVIOUS
        <3>1. (k.kind = "first" => k.id \in Pays) /\ (k.kind = "renewal" => k.id \in Subs)
            BY HookIs DEF Types, MarketOK
        <3> QED
            BY <2>5, <3>1 DEF Single, Charged, HookGood, Grows
    <2>7. Charged'
        BY <2>2, <2>4, <2>6 DEF Charged, Single, Exists
    <2>8. RowGood(row)' /\ row'.sid = row.sid
        <3> DEFINE w == [row EXCEPT !.plan = r.plan, !.st = "incomplete", !.end = 0]
        <3>1. w.plan = r.plan /\ w.st = "incomplete" /\ w.sid = row.sid /\ w.soft = row.soft
            BY <1>1 DEF Row
        <3>2. row' \in {row, w}
            BY <2>2
        <3> HIDE DEF w
        <3> QED
            BY <1>1, <2>2, <3>1, <3>2 DEF RowGood, Exists
    <2> QED
        BY <2>2, <2>3, <2>5, <2>7, <2>8, IdleOK, IdleCarried, StepAside DEF Waiting
<1>5. CASE CheckoutBlind(h)
    BY <1>5 DEF CheckoutBlind, Fault, NothingEnds
<1> QED
    BY <1>2, <1>3, <1>4, <1>5 DEF Checkouts

LEMMA ManagingSingle ==
    ASSUME Types, NothingEnds, Single, NEW h \in Handlers, Managing(h) PROVE Single'
<1> DEFINE r == req[h]
<1>1. /\ r \in Request /\ Carried(r) /\ row \in Row /\ RowGood(row) /\ Entitled(row) = row
      /\ r.plan \in Plans \cup {Free} /\ row.sid \in Subs \cup Pays \cup {None}
    BY Holds, RowStays, RowFields, Fields DEF Single
<1>2. CASE CancelPlan(h) \/ UndoCancel(h)
    BY <1>2 DEF CancelPlan, UndoCancel, Start, NothingEnds
<1>3. CASE CancelGet(h) \/ CancelMollie(h) \/ CancelWrite(h) \/ Recreate(h)
    <2>1. r.pc \in {"sget", "scancel", "swrite", "recreate"}
        BY <1>3 DEF CancelGet, CancelMollie, CancelWrite, Recreate, At
    <2> QED
        BY <1>1, <2>1 DEF Carried, Stations, Firsts, Renewals, Syncs
<1>4. CASE ChangePlan(h)
    <2>1. PICK plan \in Plans : Start(h, "change", [Idle EXCEPT !.pc = "patch", !.plan = plan,
                                                                !.id = row.sid, !.ent = row])
        BY <1>1, <1>4 DEF ChangePlan, RowGood
    <2> DEFINE x == [Idle EXCEPT !.pc = "patch", !.plan = plan, !.id = row.sid, !.ent = row]
    <2>2. x \in Good
        BY <1>1, NewOK, ArePlain
    <2>3. x.hook = NoHook /\ x.pc = "patch" /\ x.plan = plan /\ plan # Free
        BY PlansDistinct DEF Idle
    <2>4. Start(h, "change", x)
        BY <2>1
    <2> HIDE DEF x
    <2> QED
        BY <2>2, <2>3, <2>4, StartStep
<1>5. CASE Patch(h)
    <2>1. /\ r.pc = "patch" /\ r.plan # Free /\ r.id \in Subs /\ Open(r.id)
          /\ mollie' = [mollie EXCEPT ![r.id].plan = r.plan]
          /\ Goto(h, Syncing(Idle, r.id, mollie'[r.id], "idle", FALSE, FALSE))
          /\ UNCHANGED <<row, pay, hooks>>
        BY <1>1, <1>5 DEF Patch, At, Carried, Real
    <2>2. PICK m \in Sub : /\ mollie' = [mollie EXCEPT ![r.id] = m] /\ mollie'[r.id] = m
                           /\ m.st = mollie[r.id].st /\ m.plan = r.plan
        <3> DEFINE m == [mollie[r.id] EXCEPT !.plan = r.plan]
        <3>1. m \in Sub /\ m.st = mollie[r.id].st /\ m.plan = r.plan
            BY <1>1, <2>1 DEF Sub, Types, MarketOK
        <3>2. mollie' = [mollie EXCEPT ![r.id] = m] /\ mollie'[r.id] = m
            BY <2>1 DEF Types, MarketOK
        <3> HIDE DEF m
        <3> QED
            BY <3>1, <3>2
    <2>3. \A t \in Subs : /\ mollie'[t].st = mollie[t].st
                          /\ mollie'[t].plan \in {mollie[t].plan, r.plan}
        BY <2>1, <2>2 DEF Types, MarketOK
    <2>4. Grows /\ \A t \in Subs : Exists(t)' = Exists(t)
        BY <2>1, <2>3 DEF Grows, Exists
    <2>5. \A k \in hooks : HookGood(k)'
        <3> SUFFICES ASSUME NEW k \in hooks PROVE HookGood(k)'
            OBVIOUS
        <3>1. k.kind = "renewal" => k.id \in Subs
            BY HookIs DEF Types, MarketOK
        <3> QED
            BY <2>1, <2>4, <3>1 DEF Single, Charged, HookGood
    <2>6. Charged'
        BY <2>1, <2>3, <2>5 DEF Charged, Single, Exists
    <2>7. RowGood(row)'
        BY <1>1, <2>1, <2>4 DEF RowGood
    <2>8. Exists(r.id) /\ m.st \in {"active", "suspended"} /\ m.plan # Free
        BY <2>1, <2>2, ExistsIsOpen
    <2> DEFINE x == Syncing(Idle, r.id, m, "idle", FALSE, FALSE)
    <2>9. x \in Good
        BY <2>1, IdleOK, SyncingOK DEF Returns
    <2>10. /\ Carried(x) /\ x.pc = "sync" /\ x.hook = NoHook
        <3>1. Idle.hook = NoHook /\ HookGood(Idle.hook)
            BY NoHookGood DEF Idle
        <3> QED
            BY <2>1, <2>8, <3>1, IdleOK, SyncingCarried
    <2>11. Goto(h, x)
        BY <2>1, <2>2
    <2> HIDE DEF x
    <2> QED
        BY <2>1, <2>4, <2>6, <2>7, <2>9, <2>10, <2>11, StepAside DEF Waiting
<1>6. CASE PatchRefused(h)
    BY <1>6, IdleStep DEF PatchRefused, End
<1> QED
    BY <1>2, <1>3, <1>4, <1>5, <1>6 DEF Managing

LEMMA HealthSingle ==
    ASSUME Types, NothingEnds, Single, NEW h \in Handlers, HealthChecks(h) PROVE Single'
<1>1. Carried(req[h])
    BY DEF Single
<1>2. ~Health(h)
    BY DEF Health, Start, NothingEnds
<1>3. req[h].pc \in {"hget", "missing", "hwrite", "cut", "cutget", "cutcancel", "fin", "finget",
                     "finwrite"}
    BY <1>2 DEF HealthChecks, HealthGet, HealthMissing, HealthWrite, Cut, CutGet, CutCancel, Fin,
                FinCancel, FinWrite, At
<1> QED
    BY <1>1, <1>3 DEF Carried, Stations, Firsts, Renewals, Syncs

LEMMA VisitsSingle ==
    ASSUME Types, NothingEnds, Single, NEW h \in Handlers,
           Visit(h) \/ VisitBlind(h) \/ VisitStamp(h)
    PROVE  Single'
<1>1. row \in Row /\ RowGood(row) /\ ~PeriodOver(row)
    BY Holds, RowStays DEF Single
<1>2. CASE Visit(h)
    <2> DEFINE x == [Idle EXCEPT !.pc = "vstamp"]
    <2>1. Start(h, "visit", x)
        BY <1>1, <1>2 DEF Visit
    <2>2. x \in Good
        BY <1>1, NewOK, ArePlain DEF Row
    <2>3. x.hook = NoHook /\ x.pc = "vstamp"
        BY DEF Idle
    <2> HIDE DEF x
    <2> QED
        BY <2>1, <2>2, <2>3, StartStep
<1>3. CASE VisitStamp(h)
    BY <1>3, IdleStep DEF VisitStamp, End
<1>4. CASE VisitBlind(h)
    BY <1>4 DEF VisitBlind, Fault, NothingEnds
<1> QED
    BY <1>2, <1>3, <1>4

LEMMA OneCustomer ==
    ASSUME Types, NothingEnds, NEW h \in Handlers
    PROVE  ~NotFound(h)
BY DEF NotFound, Types, NotesOK, NothingEnds, Notes

LEMMA VanishSingle ==
    ASSUME Types, Single, NEW h \in Handlers, Vanish(h) PROVE Single'
BY IdleStep DEF Vanish, End
-----------------------------------------------------------------------------

LEMMA InitSingle == Init => Single
<1> SUFFICES ASSUME Init PROVE Single
    OBVIOUS
<1>1. \A s \in Subs : ~Exists(s)
    BY DEF Init, Exists, NoSub
<1>2. \A h \in Handlers : req[h] = Idle
    BY DEF Init
<1>3. Idle.hook = NoHook /\ Idle.pc = "idle"
    BY DEF Idle
<1>4. Charged
    BY <1>1 DEF Init, Charged, NoSub
<1>5. RowGood(row)
    BY IdsDistinct DEF Init, RowGood, NewRow
<1>6. Named /\ OneExists
    BY <1>1 DEF Named, OneExists, SomeSub
<1>7. Once
    BY <1>2, <1>3 DEF Once
<1>8. \A g, h \in Handlers : Carried(req[h]) /\ Claims(req[h]) /\ Forgets(req[g], req[h])
    BY <1>2, <1>3, IdleCarried DEF Forgets, Waiting
<1> QED
    BY <1>4, <1>5, <1>6, <1>7, <1>8 DEF Single

LEMMA NextSingle ==
    ASSUME NothingEnds
    PROVE  Types /\ Single /\ [Next]_vars => Single'
<1> SUFFICES ASSUME Types, Single, [Next]_vars PROVE Single'
    OBVIOUS
<1>1. CASE Next
    BY <1>1, MarketSingle, WebhookSingle, SyncSingle, CheckoutsSingle, ManagingSingle,
       HealthSingle, VisitsSingle, OneCustomer, VanishSingle DEF Next
<1>2. CASE UNCHANGED vars
    <2>1. UNCHANGED <<row, req>> /\ UNCHANGED market
        BY <1>2 DEF vars
    <2>2. Grows /\ Charged' /\ \A s \in Subs : Exists(s)' = Exists(s)
        BY <2>1, Untouched
    <2> QED
        BY <2>1, <2>2, MarketStep
<1> QED
    BY <1>1, <1>2

\* As long as no subscription ends and no request makes another customer at Mollie
\* (which one does that cannot read the row), however many checkouts, payments, calls,
\* changes and other failures, of the reads and the writes whose errors the code ignores
\* too, meet, the restaurant has one subscription at Mollie: the claim of a first
\* payment excludes every other, what was read before it was taken is not written over it,
\* and who has it and breaks off leaves it taken.
THEOREM FirstClaimIsExclusive == ASSUME NothingEnds PROVE Spec => []OneSubscription
<1>1. Init => Types /\ Single
    BY InitTypes, InitSingle
<1>2. Types /\ Single /\ [Next]_vars => (Types /\ Single)'
    BY NextTypes, NextSingle
<1>3. Types /\ Single => OneSubscription
    BY ExistsIsOpen DEF OneSubscription, Single, OneExists
<1> QED
    BY <1>1, <1>2, <1>3, PTL DEF Spec
-----------------------------------------------------------------------------
(* The books, one request after the other *)

\* What the three properties of the books do not leave out: requests then follow
\* one another, and the calls of Mollie are answered before the next request.
Agreeable == hist \subseteq Harmless \cup {"forgiven", "leftover", "fetch", "create", "read", "due"}
Dunnable == hist \subseteq Harmless \cup {"leftover", "create", "read"}
Servable == hist \subseteq Harmless \cup {"forgiven", "due"}

NoneOpen == \A s \in Subs : ~Open(s)
OnlyOpen(id) == \A s \in Subs : Open(s) => s = id
Agrees(w) ==
    \A s \in Subs : Open(s) =>
        w.sid = s /\ w.plan = mollie[s].plan /\ ~w.soft /\ w.st \in {"active", "past_due"}
FirstCalled == \E k \in hooks : k.kind = "first"

\* Statements of a call of Mollie; all others are the restaurant's and the day's.
Restoring(r) == r.pc \in {"update", "restore"} \/ (r.pc \in Syncs /\ r.ret = "restore")
Called(r) ==
    \/ r.pc \in {"fetch", "entitle", "done"} \cup Firsts \cup Renewals
    \/ Restoring(r)
    \/ r.pc \in Syncs /\ r.ret = "done"

\* There is nothing to charge; what there is the request knows.
Ending == (Firsts \cup {"cpay", "swrite", "recreate", "missing", "hwrite", "finget", "finwrite"})
Aiming == {"cget", "ccancel", "patch", "hget", "cutget", "cutcancel", "update"}
Stand(r) ==
    /\ r.pc # "idle" => IF Called(r) THEN r.hook \in hooks ELSE hooks = {}
    /\ r.pc = "entitle" \/ Restoring(r) => r.hook.kind = "mandate"
    /\ r.pc \in Ending \/ (r.pc = "fetch" /\ r.hook.kind = "first") => NoneOpen
    /\ r.pc \in Aiming => OnlyOpen(r.id)
    /\ r.pc \in {"sget", "scancel"} => OnlyOpen(r.ent.sid)
    /\ Restoring(r) => Agrees(r.ent)
    /\ r.pc \in Syncs =>
          /\ \A s \in Subs : Open(s) => r.id = s /\ r.sub = mollie[s]
          /\ r.ret = "cpay" => NoneOpen
    /\ r.pc \in {"mark", "write"} => Agrees(r.seen)
    /\ r.pc \in {"cget", "ccancel", "cpay", "recreate", "patch"} \/ (r.pc \in Syncs /\ r.ret = "cpay")
          => r.plan # Free
    /\ r.pc # "cust"

\* The subscription of a first payment is there, its call not yet answered.
Late(r) == r.hook.kind = "first" /\ r.pc \in Syncs \cup {"done"}

Orders ==
    /\ \A s \in Subs : Open(s) => mollie[s].plan # Free
    /\ \A p \in Pays : pay[p].st # "none" => pay[p].plan # Free
    /\ \A k \in hooks : /\ k.kind = "renewal" => Open(k.id)
                        /\ k.kind = "first" => pay[k.id].st = "paid"
    /\ \A j, k \in hooks : j.kind = "first" /\ k.kind = "first" => j = k

Alone == \A g, h \in Handlers : g # h => req[g].pc = "idle" \/ req[h].pc = "idle"
Agreement ==
    /\ Orders /\ Alone
    /\ \A h \in Handlers : Stand(req[h])
    /\ (\A h \in Handlers : req[h].pc \notin Syncs) => Agrees(row)
    /\ (\A h \in Handlers : ~Late(req[h])) /\ FirstCalled => NoneOpen

\* A failed charge stays in the row until it is paid.
Owes(s) == s \in owed /\ Open(s)
Failing(s) == \E k \in hooks : k.kind = "renewal" /\ k.id = s /\ ~k.paid
Duns(w) == \A s \in Subs : Owes(s) => w.st = "past_due" \/ Failing(s)
Fails(r) == r.hook.kind = "renewal" /\ ~r.hook.paid
\* With the row w.
Presses(r, w) ==
    /\ Restoring(r) => Duns(r.ent)
    /\ r.pc \in Syncs /\ r.ret # "restore" =>
          \A s \in Subs : Owes(s) => \/ mollie[s].st = "suspended"
                                     \/ r.keep /\ r.ret = "done" /\ (r.pc \in {"sync", "due"} => w.due # 0)
    /\ r.pc \in {"mark", "write"} /\ r.ret # "restore" => \A s \in Subs : Owes(s) => r.seen.st = "past_due"
    /\ r.pc \notin Syncs \cup {"restore"} => Duns(w)
    /\ r.pc = "done" /\ Fails(r) => \A s \in Subs : Owes(s) => w.st = "past_due"
    /\ r.pc = "getsub" /\ Fails(r) => w.due # 0
    /\ r.pc \in {"cut", "cutget"} => \A s \in Subs : Owes(s) => mollie[s].st = "suspended"
    /\ r.pc = "patch" => \A s \in Subs : ~Owes(s)

Bookings ==
    /\ \A s \in owed : mollie[s].st # "none"
    /\ \A k \in hooks : k.kind = "renewal" /\ k.paid => k.id \notin owed
Dunning ==
    /\ Bookings
    /\ \A h \in Handlers : req[h].pc # "idle" => Presses(req[h], row)
    /\ Quiet => Duns(row)

\* What was paid for is there, or is cancelled with the end of its period.
Due == now < paidUntil
Renewing(s) == \E k \in hooks : k.kind = "renewal" /\ k.id = s /\ k.paid
Over(s) == mollie[s].st = "canceled" /\ mollie[s].next = 0
Serves(w) ==
    /\ w.plan # Free /\ w.sid \in Subs
    /\ \/ mollie[w.sid].st = "active" /\ ~w.soft /\ (w.st = "active" \/ Renewing(w.sid))
       \/ Over(w.sid) /\ w.soft /\ w.st = "active" /\ w.end >= paidUntil
Firm(w) == Serves(w) /\ w.st = "active"
Rests(w) == w.sid \notin Pays /\ (Due /\ ~FirstCalled => Serves(w))

\* A first payment has the claim only while its subscription is created.
Holding(r) == r.hook.kind = "first" /\ r.pc \in {"create"} \cup Syncs
Unclaimed(r, w) ==
    /\ ~Holding(r) => w.sid \notin Pays
    /\ Restoring(r) \/ r.pc \in {"sget", "scancel", "swrite"} => r.ent.sid \notin Pays
    /\ r.pc \in {"hget", "missing", "hwrite", "finget", "finwrite"} => r.id \notin Pays
    /\ r.pc \in {"mark", "write"} => r.seen.sid \notin Pays
    /\ r.pc \notin {"again", "release"}
    /\ r.pc \in {"take", "hget", "cutget"} => w.sid = r.id

\* What a request at this statement knows of what was paid for, beside the row w.
Unpaid(r) == r.pc \in {"cget", "ccancel", "cpay", "cutcancel", "missing", "hwrite", "finget", "finwrite"}
              \/ (r.pc \in Syncs /\ r.ret = "cpay")
Copies(r, w) == Over(r.id) /\ w.sid = r.id /\ Firm(w)
Covers(r, w) ==
    Due =>
        /\ ~Unpaid(r)
        /\ ~FirstCalled /\ r.pc \notin Syncs \cup {"restore", "swrite"} => Serves(w)
        /\ ~FirstCalled /\ Restoring(r) => Serves(r.ent)
        /\ r.pc \in {"sget", "scancel"} => Firm(r.ent) /\ ~r.ent.soft
        /\ r.pc = "swrite" => Firm([r.ent EXCEPT !.soft = TRUE])
        /\ r.pc \in {"scancel", "recreate"} => r.ent.end >= paidUntil
        /\ r.pc \in {"sync", "due"} =>
              /\ r.sub = mollie[r.id] /\ ~r.keep
              /\ mollie[r.id].st = "active" \/ Copies(r, IF r.pc = "sync" THEN w ELSE r.seen)
        /\ r.pc \in {"mark", "write"} => Firm(r.seen)
        /\ r.pc = "done" /\ r.hook.kind \in {"first", "renewal"} => Firm(w)

Terms ==
    /\ paidUntil <= now + Interval
    /\ \A s \in Subs : /\ mollie[s].st = "active" => mollie[s].next >= paidUntil
                       /\ mollie[s].st = "suspended" => ~Due
                       /\ mollie[s].st = "canceled" => mollie[s].next = 0
    /\ \A k \in hooks : k.kind = "renewal" => IF k.paid THEN mollie[k.id].st = "active" ELSE ~Due
Serving ==
    /\ Terms
    /\ \A h \in Handlers : req[h].pc # "idle" => Unclaimed(req[h], row) /\ Covers(req[h], row)
    /\ Quiet => Rests(row)

-----------------------------------------------------------------------------
(* One request at a time *)

\* What the premises of the properties leave out.
LEMMA Undisturbed ==
    ASSUME NEW kind, Fault(kind)
    PROVE  /\ Agreeable' => kind \in {"midnight", "list", "patch", "recreated", "forgiven", "leftover",
                                     "fetch", "create", "read", "due"}
           /\ Dunnable' => kind \in {"midnight", "list", "patch", "recreated", "leftover", "create", "read"}
           /\ Servable' => kind \in {"midnight", "list", "patch", "recreated", "forgiven", "due"}
BY DEF Agreeable, Dunnable, Servable, Harmless, Fault

LEMMA NoFault ==
    /\ Agreeable' => /\ ~Fault("again") /\ ~Fault("vanish") /\ ~Fault("get") /\ ~Fault("cancel")
                     /\ ~Fault("write") /\ ~Fault("owner") /\ ~Fault("daily") /\ ~Fault("overlap")
                     /\ ~Fault("blind") /\ ~Fault("customer")
    /\ Dunnable' => ~Fault("fetch") /\ ~Fault("due")
    /\ Servable' => ~Fault("fetch") /\ ~Fault("create") /\ ~Fault("read")
BY Undisturbed

\* Mollie has the restaurant under one customer.
LEMMA AlwaysFound == ASSUME Agreeable', NEW h \in Handlers PROVE ~NotFound(h)
BY DEF NotFound, Calm, Agreeable, Harmless

LEMMA QuietThen == Agreeable' /\ Beside("overlap") => Quiet /\ Calm
BY Undisturbed DEF Beside

LEMMA Milder == (Dunnable => Agreeable) /\ (Servable => Agreeable)
BY DEF Dunnable, Servable, Agreeable

LEMMA HistOf ==
    ASSUME Calm \/ (\E kind : Fault(kind) \/ Beside(kind)) \/ \E what : Happens(what)
    PROVE  hist \subseteq hist'
BY DEF Calm, Fault, Beside, Happens

LEMMA HistGrows == [Next]_vars => hist \subseteq hist'
<1> SUFFICES ASSUME [Next]_vars PROVE hist \subseteq hist'
    OBVIOUS
<1>1. CASE UNCHANGED vars
    BY <1>1 DEF vars
<1>2. CASE Market
    BY <1>2, HistOf DEF Market, PayFirst, Charge, Recover, NewMandate, Tick
<1>3. ASSUME NEW h \in Handlers, Webhook(h) PROVE hist \subseteq hist'
    <2>1. CASE Deliver(h) \/ Fetch(h) \/ Done(h)
        BY <2>1, HistOf DEF Deliver, Fetch, Done
    <2>2. CASE First(h)
        BY <2>2, HistOf DEF First, LookExisting, GetExisting, ListExisting, Claim, Take, TakeAgain, CreateFirst, Release
    <2>3. CASE Renewed(h) \/ Mandate(h)
        BY <2>3, HistOf DEF Renewed, LookRenewed, StampFailed, GetRenewed, Mandate, Entitle, EntitleBlind, UpdateMandate,
                        Restore
    <2> QED
        BY <1>3, <2>1, <2>2, <2>3 DEF Webhook
<1>4. ASSUME NEW h \in Handlers, Sync(h) PROVE hist \subseteq hist'
    BY <1>4, HistOf DEF Sync, SyncRead, SyncDue, SyncMark, SyncWrite
<1>5. ASSUME NEW h, NEW op, NEW r, Start(h, op, r) PROVE hist \subseteq hist'
    BY <1>5, HistOf DEF Start
<1>6. ASSUME NEW h \in Handlers, Checkouts(h) PROVE hist \subseteq hist'
    BY <1>5, <1>6, HistOf DEF Checkouts, Checkout, CheckoutGet, CheckoutCancel, CheckoutBlind, CheckoutCustomer,
            CheckoutPay
<1>7. ASSUME NEW h \in Handlers, Managing(h) PROVE hist \subseteq hist'
    BY <1>5, <1>7, HistOf DEF Managing, CancelPlan, CancelGet, CancelMollie, CancelWrite, UndoCancel,
            ChangePlan, Recreate, Patch, PatchRefused
<1>8. ASSUME NEW h \in Handlers, HealthChecks(h) PROVE hist \subseteq hist'
    BY <1>5, <1>8, HistOf DEF HealthChecks, Health, HealthGet, HealthMissing, HealthWrite, Cut, CutGet,
            CutCancel, Fin, FinCancel, FinWrite
<1>9. ASSUME NEW h \in Handlers, Visit(h) \/ VisitBlind(h) \/ VisitStamp(h) \/ NotFound(h) \/ Vanish(h)
      PROVE  hist \subseteq hist'
    BY <1>5, <1>9, HistOf DEF Visit, VisitBlind, VisitStamp, NotFound, Vanish
<1> QED
    BY <1>1, <1>2, <1>3, <1>4, <1>6, <1>7, <1>8, <1>9 DEF Next

LEMMA StillUndisturbed ==
    ASSUME [Next]_vars
    PROVE  (Agreeable' => Agreeable) /\ (Dunnable' => Dunnable) /\ (Servable' => Servable)
BY HistGrows DEF Agreeable, Dunnable, Servable

\* A request is under way, or begins when none is.
Turn(h) == req[h].pc # "idle" \/ Quiet

\* What is known when a request takes a step.
LEMMA Turned ==
    ASSUME Types, Agreement, NEW h \in Handlers, Turn(h)
    PROVE  /\ Stand(req[h])
           /\ req[h].pc \notin Syncs => Agrees(row)
           /\ ~Late(req[h]) /\ FirstCalled => NoneOpen
           /\ \A g \in Handlers : g # h => req[g].pc = "idle"
<1>1. \A g \in Handlers : g # h => req[g].pc = "idle"
    BY DEF Turn, Agreement, Alone, Quiet, Idle
<1> QED
    BY <1>1 DEF Agreement, Late, Syncs

\* The request goes on with r.
LEMMA Turns ==
    ASSUME Types, Agreement, NEW h \in Handlers, Turn(h), NEW r, Goto(h, r)
    PROVE  req'[h] = r /\ \A g \in Handlers : g # h => req'[g] = req[g] /\ req'[g].pc = "idle"
BY Turned DEF Goto, Types, RequestsOK

LEMMA IdleStands == ASSUME NEW r, r.pc = "idle" PROVE Stand(r)
BY DEF Stand, Called, Restoring, Firsts, Renewals, Syncs, Ending, Aiming

LEMMA AgreeOn ==
    ASSUME Types, Agreement, NEW h \in Handlers, Turn(h), NEW r, Goto(h, r), Orders', Stand(r)',
           r.pc \notin Syncs => Agrees(row)', ~Late(r) /\ FirstCalled' => NoneOpen'
    PROVE  Agreement'
<1>1. req'[h] = r /\ \A g \in Handlers : g # h => req'[g].pc = "idle"
    BY Turns
<1>2. Alone'
    BY <1>1 DEF Alone
<1>3. \A g \in Handlers : Stand(req[g])'
    <2> SUFFICES ASSUME NEW g \in Handlers PROVE Stand(req[g])'
        OBVIOUS
    <2>1. CASE g = h
        BY <1>1, <2>1 DEF Stand
    <2>2. CASE g # h
        <3>1. PICK q : q = req'[g] /\ q.pc = "idle"
            BY <1>1, <2>2
        <3>2. Stand(q)'
            BY <3>1 DEF Stand, Called, Restoring, Firsts, Renewals, Syncs, Ending, Aiming
        <3> QED
            BY <3>1, <3>2 DEF Stand
    <2> QED
        BY <2>1, <2>2
<1> QED
    BY <1>1, <1>2, <1>3 DEF Agreement, Late

LEMMA Still ==
    ASSUME UNCHANGED market
    PROVE  /\ \A s : Open(s)' = Open(s)
           /\ NoneOpen' = NoneOpen /\ FirstCalled' = FirstCalled /\ Orders' = Orders
           /\ \A w : Agrees(w)' = Agrees(w)
           /\ \A r : Stand(r)' = Stand(r)
BY DEF market, Open, NoneOpen, FirstCalled, Orders, Agrees, Stand, OnlyOpen, Restoring, Called

\* A step that leaves the market alone.
LEMMA AgreeStill ==
    ASSUME Types, Agreement, NEW h \in Handlers, Turn(h), NEW r, Goto(h, r), UNCHANGED market,
           Stand(r), r.pc \notin Syncs => Agrees(row'), ~Late(r) /\ FirstCalled => NoneOpen
    PROVE  Agreement'
<1>1. Orders' /\ Stand(r)' /\ (~Late(r) /\ FirstCalled' => NoneOpen')
    BY Still DEF Agreement
<1>2. PICK w : w = row'
    OBVIOUS
<1>3. r.pc \notin Syncs => Agrees(w)'
    BY <1>2, Still
<1>4. r.pc \notin Syncs => Agrees(row)'
    BY <1>2, <1>3 DEF Agrees
<1> QED
    BY <1>1, <1>4, AgreeOn

-----------------------------------------------------------------------------
(* The market and the agreement *)

LEMMA AllIdle == Quiet => \A h \in Handlers : req[h].pc = "idle" /\ req[h] = Idle
<1>1. Idle.pc = "idle"
    BY DEF Idle
<1> QED
    BY <1>1 DEF Quiet

\* What Mollie, its customers and time do when no request is under way.
LEMMA AgreeMarket ==
    ASSUME Types, Agreement, Quiet, UNCHANGED <<row, req>>, Orders', FirstCalled' => NoneOpen,
           \A s \in Subs : Open(s)' = Open(s) /\ mollie'[s].plan = mollie[s].plan
    PROVE  Agreement'
<1>1. \A h \in Handlers : req[h] = Idle /\ req'[h] = Idle
    BY AllIdle
<1>2. Idle.pc = "idle"
    BY DEF Idle
<1>3. Alone' /\ \A h \in Handlers : Stand(req[h])'
    BY <1>1, <1>2 DEF Alone, Stand, Called, Restoring, Firsts, Renewals, Syncs, Ending, Aiming
<1>4. Agrees(row)'
    BY <1>1, <1>2 DEF Agreement, Agrees, Syncs
<1>5. FirstCalled' => NoneOpen'
    BY DEF NoneOpen
<1> QED
    BY <1>3, <1>4, <1>5 DEF Agreement

LEMMA QuietAgrees == Types /\ Agreement /\ Quiet => Agrees(row) /\ (FirstCalled => NoneOpen)
<1>1. Idle.pc = "idle"
    BY DEF Idle
<1> QED
    BY <1>1, AllIdle DEF Agreement, Late, Syncs

\* A first payment comes when there is no subscription: or the row knows better.
LEMMA NoneToPay ==
    ASSUME Types, Agreement, Agreeable', NEW p \in Pays, PayFirst(p)
    PROVE  Quiet /\ NoneOpen /\ ~FirstCalled
<1>1. ~((row.plan # Free /\ row.st \in {"active", "past_due"}) \/ (\E k \in hooks : k.kind = "first"))
    BY DEF PayFirst, Happens, Agreeable, Harmless
<1>2. Quiet
    BY <1>1, QuietThen DEF PayFirst
<1>3. NoneOpen
    BY <1>1, <1>2, QuietAgrees DEF NoneOpen, Agrees, Agreement, Orders
<1> QED
    BY <1>1, <1>2, <1>3 DEF FirstCalled

LEMMA MarketAgrees == ASSUME Types, Agreement, Agreeable', Market PROVE Agreement'
<1>0. mollie \in [Subs -> Sub] /\ hooks \subseteq Hook /\ pay \in [Pays -> Payment]
    BY DEF Types, MarketOK
<1>1. ASSUME NEW p \in Pays, PayFirst(p) PROVE Agreement'
    <2>1. Quiet /\ NoneOpen /\ ~FirstCalled
        BY <1>1, NoneToPay
    <2>2. /\ UNCHANGED <<row, mollie, req>> /\ pay[p].st = "open"
          /\ pay' = [pay EXCEPT ![p].st = "paid"]
          /\ hooks' = hooks \cup {[kind |-> "first", id |-> p, paid |-> TRUE]}
        BY <1>1 DEF PayFirst
    <2>3. /\ pay'[p].st = "paid" /\ pay'[p].plan = pay[p].plan
          /\ \A q \in Pays : q # p => pay'[q] = pay[q]
        BY <1>0, <2>2 DEF Payment
    <2>4. PICK k : k = [kind |-> "first", id |-> p, paid |-> TRUE]
        OBVIOUS
    <2>5. k.kind = "first" /\ k.id = p /\ hooks' = hooks \cup {k}
        BY <2>2, <2>4
    <2>6. \A j \in hooks : j.kind = "first" => j.id \in Pays
        BY <1>0, HookIs
    <2>7. Orders'
        BY <2>1, <2>2, <2>3, <2>5, <2>6 DEF Agreement, Orders, Open, FirstCalled
    <2> QED
        BY <2>1, <2>2, <2>7, AgreeMarket DEF Open
<1>2. ASSUME NEW s \in Subs, NEW k \in Hook, Quiet, UNCHANGED <<row, pay, req>>, Open(s),
             k.kind = "renewal", k.id = s, hooks' = hooks \cup {k},
             \A t \in Subs : Open(t)' = Open(t) /\ mollie'[t].plan = mollie[t].plan
      PROVE  Agreement'
    <2>1. FirstCalled' = FirstCalled
        BY <1>2 DEF FirstCalled
    <2>2. \A j \in hooks : j.kind = "renewal" => j.id \in Subs
        BY <1>0, HookIs
    <2>3. Orders'
        BY <1>2, <2>2 DEF Agreement, Orders
    <2> QED
        BY <1>2, <2>1, <2>3, QuietAgrees, AgreeMarket
<1>3. ASSUME NEW s \in Subs, Charge(s) \/ Recover(s) PROVE Agreement'
    <2>1. Quiet /\ UNCHANGED <<row, pay, req>> /\ Open(s)
        BY <1>3, QuietThen DEF Charge, Recover, Open
    <2>2. PICK k \in Hook : hooks' = hooks \cup {k} /\ k.kind = "renewal" /\ k.id = s
        <3>1. \E paid \in BOOLEAN : hooks' = Renewal(s, paid)
            BY <1>3 DEF Charge, Recover
        <3> QED
            BY <3>1, HookMakes DEF Renewal
    <2>3. \A t \in Subs : Open(t)' = Open(t) /\ mollie'[t].plan = mollie[t].plan
        <3>1. \/ mollie' = [mollie EXCEPT ![s].next = @ + Interval]
              \/ mollie' = [mollie EXCEPT ![s].st = "suspended", ![s].next = 0]
              \/ mollie' = [mollie EXCEPT ![s].st = "active", ![s].next = now + Interval]
            BY <1>3 DEF Charge, Recover
        <3>2. mollie[s] \in Sub
            BY <1>0
        <3> QED
            BY <1>0, <2>1, <3>1, <3>2 DEF Open, Sub
    <2> QED
        BY <1>2, <2>1, <2>2, <2>3
<1>4. CASE NewMandate
    <2>1. Quiet /\ UNCHANGED <<row, mollie, pay, req>>
        BY <1>4, QuietThen DEF NewMandate
    <2>2. PICK k : k = [kind |-> "mandate", id |-> None, paid |-> TRUE]
        OBVIOUS
    <2>3. hooks' = hooks \cup {k} /\ k.kind = "mandate"
        BY <1>4, <2>2 DEF NewMandate
    <2>4. FirstCalled' = FirstCalled /\ Orders'
        BY <2>1, <2>3 DEF FirstCalled, Agreement, Orders, Open
    <2> QED
        BY <2>1, <2>4, QuietAgrees, AgreeMarket DEF Open
<1>5. CASE Tick
    BY <1>5 DEF Tick, Agreement, Orders, Alone, Stand, Called, Restoring, NoneOpen, OnlyOpen, Open, Agrees,
        Late, FirstCalled
<1> QED
    BY <1>1, <1>3, <1>4, <1>5 DEF Market

-----------------------------------------------------------------------------
(* The steps of a request and the agreement *)

\* A request at this statement fits the market, beside the row w.
Fits(r, w) == Stand(r) /\ (r.pc \notin Syncs => Agrees(w)) /\ (~Late(r) /\ FirstCalled => NoneOpen)

LEMMA FitsNow ==
    ASSUME Types, Agreement, NEW h \in Handlers, Turn(h)
    PROVE  Fits(req[h], row) /\ req[h] \in Request /\ RequestOK(req[h])
BY Turned, GoodIs DEF Fits

LEMMA FitsThen ==
    ASSUME Types, Agreement, NEW h \in Handlers, Turn(h), NEW r, Goto(h, r), UNCHANGED market,
           Fits(r, row')
    PROVE  Agreement'
BY AgreeStill DEF Fits

\* All but the statement and the id is as before.
Keeps(x, r) ==
    /\ x.ret = r.ret /\ x.hook = r.hook /\ x.plan = r.plan /\ x.ent = r.ent /\ x.seen = r.seen
    /\ x.sub = r.sub /\ x.clear = r.clear /\ x.keep = r.keep

LEMMA Moves ==
    ASSUME NEW r \in Request, NEW pc, NEW id
    PROVE  /\ Keeps([r EXCEPT !.pc = pc], r)
           /\ [r EXCEPT !.pc = pc].pc = pc /\ [r EXCEPT !.pc = pc].id = r.id
           /\ Keeps([r EXCEPT !.pc = pc, !.id = id], r)
           /\ [r EXCEPT !.pc = pc, !.id = id].pc = pc /\ [r EXCEPT !.pc = pc, !.id = id].id = id
BY DEF Keeps, Request

LEMMA AnsweredIs ==
    ASSUME NEW h
    PROVE  Answered(h).pc = "done" /\ Answered(h).hook = req[h].hook /\ Answered(h).ret = "none"
BY DEF Answered, Hooking, Idle

\* A new request, as its kind needs it.
LEMMA BeginFits ==
    ASSUME Types, Agreement, Agreeable', NEW h \in Handlers, Deliver(h)
    PROVE  Agreement'
<1>1. PICK k \in hooks : Begin(h, [Idle EXCEPT !.pc = "fetch", !.hook = k]) /\ Quiet
    BY NoFault, QuietThen DEF Deliver
<1>2. PICK r : r = [Idle EXCEPT !.pc = "fetch", !.hook = k]
    OBVIOUS
<1>3. r.pc = "fetch" /\ r.hook = k /\ r.ret = "none"
    BY <1>2 DEF Idle
<1>4. Agrees(row) /\ (FirstCalled => NoneOpen)
    BY <1>1, QuietAgrees
<1>5. Fits(r, row)
    BY <1>3, <1>4 DEF Fits, Stand, Called, Restoring, Ending, Aiming, Firsts, Renewals, Syncs, Late, FirstCalled
<1>6. Goto(h, r) /\ UNCHANGED market /\ Turn(h)
    BY <1>1, <1>2 DEF Begin, Turn
<1> QED
    BY <1>4, <1>5, <1>6, FitsThen DEF Deliver

\* Where nothing is charged, the market agrees with any row.
LEMMA NoneFits ==
    ASSUME NoneOpen, NEW r, NEW w,
           r.pc # "idle" => IF Called(r) THEN r.hook \in hooks ELSE hooks = {},
           r.pc = "entitle" \/ Restoring(r) => r.hook.kind = "mandate",
           r.pc \in {"cget", "ccancel", "cpay", "recreate", "patch"} \/ (r.pc \in Syncs /\ r.ret = "cpay")
               => r.plan # Free,
           r.pc # "cust"
    PROVE  Fits(r, w)
BY DEF NoneOpen, Fits, Stand, OnlyOpen, Agrees

LEMMA FirstGoes ==
    ASSUME Types, Agreement, NEW h \in Handlers, req[h].pc \in Firsts, NEW r, Goto(h, r),
           UNCHANGED market, r.pc \in Firsts \cup {"done"}, r.hook = req[h].hook
    PROVE  Agreement'
<1>1. Turn(h) /\ Stand(req[h])
    BY Turned DEF Turn, Firsts
<1>2. NoneOpen /\ r.hook \in hooks
    BY <1>1 DEF Stand, Called, Ending, Firsts
<1>3. Fits(r, row')
    BY <1>2, NoneFits DEF Called, Restoring, Firsts, Syncs
<1> QED
    BY <1>1, <1>3, FitsThen

\* A subscription is created where there was none, and the request syncs it.
LEMMA Creates ==
    ASSUME Types, Agreement, NEW h \in Handlers, NoneOpen, NEW s \in Subs, NEW plan \in Plans \cup {Free},
           NEW from \in Nat, Create(s, plan, from), plan # Free, NEW r, Goto(h, r), Turn(h),
           r.pc = "sync", r.id = s, r.sub = mollie'[s], r.ret \in {"idle", "done"},
           IF r.ret = "done" THEN r.hook \in hooks /\ r.hook.kind = "first" ELSE hooks = {}
    PROVE  Agreement'
<1>1. /\ mollie'[s] = [st |-> "active", plan |-> plan, next |-> from]
      /\ \A t \in Subs : t # s => mollie'[t] = mollie[t]
      /\ UNCHANGED <<pay, hooks>>
    BY DEF Create, Types, MarketOK
<1>2. \A t \in Subs : Open(t)' => t = s
    BY <1>1 DEF NoneOpen, Open
<1>3. \A k \in hooks : k.kind # "renewal"
    <2>1. \A k \in hooks : k.kind = "renewal" => k.id \in Subs
        BY HookIs DEF Types, MarketOK
    <2> QED
        BY <2>1 DEF Agreement, Orders, NoneOpen
<1>4. Orders'
    BY <1>1, <1>2, <1>3 DEF Agreement, Orders
<1>5. Stand(r)'
    BY <1>1, <1>2 DEF Stand, Called, Restoring, Ending, Aiming, Firsts, Renewals, Syncs
<1>6. ~Late(r) => ~FirstCalled'
    <2>1. CASE r.ret = "done"
        <3> SUFFICES ASSUME FirstCalled PROVE Late(r)
            BY <1>1 DEF FirstCalled
        <3> QED
            BY <2>1 DEF Late, Syncs
    <2>2. CASE r.ret = "idle"
        BY <1>1, <2>2 DEF FirstCalled
    <2> QED
        BY <2>1, <2>2
<1> QED
    BY <1>4, <1>5, <1>6, AgreeOn DEF Syncs

LEMMA SyncingIs ==
    ASSUME NEW r \in Request, NEW s, NEW sub, NEW ret, NEW clear, NEW keep, NEW x,
           x = Syncing(r, s, sub, ret, clear, keep)
    PROVE  /\ x.pc = "sync" /\ x.id = s /\ x.sub = sub /\ x.ret = ret /\ x.clear = clear /\ x.keep = keep
           /\ x.hook = r.hook /\ x.plan = r.plan /\ x.ent = r.ent /\ x.seen = r.seen
BY DEF Syncing, Request

\* A step of a first payment: it goes on within it, is answered, or creates.
LEMMA FirstShape ==
    ASSUME Types, Agreement, Agreeable', NEW h \in Handlers, First(h)
    PROVE  /\ req[h].pc \in Firsts /\ Turn(h) /\ NoneOpen /\ req[h].hook \in hooks /\ req[h].hook.kind = "first"
           /\ \/ /\ UNCHANGED market
                 /\ \E r : Goto(h, r) /\ r.pc \in Firsts \cup {"done"} /\ r.hook = req[h].hook
              \/ CreateFirst(h) /\ \E s \in Subs : /\ Create(s, pay[req[h].hook.id].plan, now + Interval)
                               /\ Goto(h, Syncing(req[h], s, mollie'[s], "done", TRUE, FALSE))
                               /\ UNCHANGED row
<1>0. req[h].pc \in Firsts
    BY DEF First, LookExisting, GetExisting, ListExisting, Claim, Take, TakeAgain, CreateFirst, Release, At,
            Firsts
<1>1. PICK q \in Request : q = req[h] /\ q.pc \in Firsts /\ q.hook \in hooks /\ q.hook.kind = "first" /\ NoneOpen /\ Turn(h)
    BY <1>0, Turned, GoodIs DEF Stand, Called, Ending, Turn, Firsts, RequestOK
<1> DEFINE GoesOn == \E r : Goto(h, r) /\ r.pc \in Firsts \cup {"done"} /\ r.hook = req[h].hook
<1>2. ASSUME NEW pc \in Firsts, Step(h, pc) PROVE GoesOn
    <2>1. PICK r : r = [q EXCEPT !.pc = pc]
        OBVIOUS
    <2>2. r.pc = pc /\ r.hook = q.hook
        BY <2>1, Moves DEF Keeps
    <2> QED
        BY <1>1, <1>2, <2>1, <2>2 DEF Step
<1>3. ASSUME NEW pc \in Firsts, NEW id, Goto(h, [req[h] EXCEPT !.pc = pc, !.id = id]) PROVE GoesOn
    <2>1. PICK r : r = [q EXCEPT !.pc = pc, !.id = id]
        OBVIOUS
    <2>2. r.pc = pc /\ r.hook = q.hook
        BY <2>1, Moves DEF Keeps
    <2> QED
        BY <1>1, <1>3, <2>1, <2>2
<1>4. ASSUME Goto(h, Answered(h)) PROVE GoesOn
    BY <1>4, AnsweredIs
<1> HIDE DEF GoesOn
<1>5. CASE LookExisting(h)
    <2>1. \/ Goto(h, [req[h] EXCEPT !.pc = "get", !.id = row.sid])
          \/ Step(h, "list")
        BY <1>5 DEF LookExisting, Step
    <2>2. GoesOn
        BY <1>2, <1>3, <2>1 DEF Firsts
    <2> QED
        BY <1>1, <1>5, <2>2 DEF LookExisting, GoesOn
<1>6. CASE GetExisting(h)
    <2>1. q.id \in Subs
        BY <1>1, <1>6, GoodIs DEF GetExisting, At, RequestOK
    <2>2. Goto(h, [req[h] EXCEPT !.pc = "list", !.id = None])
        BY <1>1, <1>6, <2>1 DEF GetExisting, NoneOpen
    <2>3. GoesOn
        BY <1>3, <2>2 DEF Firsts
    <2> QED
        BY <1>1, <1>6, <2>3 DEF GetExisting, GoesOn
<1>7. CASE ListExisting(h)
    <2>1. Step(h, "claim")
        BY <1>1, <1>7 DEF ListExisting, NoneOpen
    <2>2. GoesOn
        BY <1>2, <2>1 DEF Firsts
    <2> QED
        BY <1>1, <1>7, <2>2 DEF ListExisting, GoesOn
<1>8. CASE Claim(h)
    <2>1. GoesOn
        BY <1>2, <1>3, <1>4, <1>8 DEF Claim, Firsts
    <2> QED
        BY <1>1, <1>8, <2>1 DEF Claim, GoesOn
<1>9. CASE Take(h)
    <2>1. GoesOn
        BY <1>3, <1>9 DEF Take, Firsts
    <2> QED
        BY <1>1, <1>9, <2>1 DEF Take, GoesOn
<1>10. CASE TakeAgain(h)
    <2>1. Step(h, "create") \/ Goto(h, Answered(h))
        BY <1>10 DEF TakeAgain, Step
    <2>2. GoesOn
        BY <1>2, <1>4, <2>1 DEF Firsts
    <2> QED
        BY <1>1, <1>10, <2>2 DEF TakeAgain, GoesOn
<1>11. CASE CreateFirst(h)
    <2>1. CASE Step(h, "release") /\ UNCHANGED market
        <3>1. GoesOn
            BY <1>2, <2>1 DEF Firsts
        <3> QED
            BY <1>1, <2>1, <3>1 DEF GoesOn
    <2> QED
        BY <1>1, <1>11, <2>1 DEF CreateFirst, Hooking
<1>12. CASE Release(h)
    <2>1. GoesOn
        BY <1>4, <1>12 DEF Release
    <2> QED
        BY <1>1, <1>12, <2>1 DEF Release, GoesOn
<1> QED
    BY <1>5, <1>6, <1>7, <1>8, <1>9, <1>10, <1>11, <1>12 DEF First

LEMMA FirstAgrees ==
    ASSUME Types, Agreement, Agreeable', NEW h \in Handlers, First(h)
    PROVE  Agreement'
<1>1. PICK q \in Request : /\ q = req[h] /\ q.pc \in Firsts /\ q.hook \in hooks /\ q.hook.kind = "first"
                           /\ NoneOpen /\ Turn(h)
    BY FirstShape, GoodIs
<1>2. ASSUME NEW r, Goto(h, r), r.pc \in Firsts \cup {"done"}, r.hook = q.hook, UNCHANGED market PROVE Agreement'
    BY <1>1, <1>2, FirstGoes
<1>3. ASSUME NEW s \in Subs, Create(s, pay[q.hook.id].plan, now + Interval),
             Goto(h, Syncing(q, s, mollie'[s], "done", TRUE, FALSE))
      PROVE  Agreement'
    <2>1. PICK m : m = mollie'[s]
        OBVIOUS
    <2>2. PICK r : r = Syncing(q, s, m, "done", TRUE, FALSE)
        OBVIOUS
    <2>3. r.pc = "sync" /\ r.id = s /\ r.sub = m /\ r.ret = "done" /\ r.hook = q.hook
        BY <2>2 DEF Syncing, Request
    <2>4. q.hook.id \in Pays
        BY <1>1, FirstHook
    <2>5. PICK plan \in Plans \cup {Free} : plan = pay[q.hook.id].plan
        BY <2>4 DEF Types, MarketOK, Payment
    <2>6. plan # Free
        BY <1>1, <2>4, <2>5 DEF Agreement, Orders
    <2>7. now + Interval \in Nat
        BY NowIsNat, BoundsAreNat
    <2>8. Create(s, plan, now + Interval) /\ Goto(h, r)
        BY <1>3, <2>1, <2>2, <2>5
    <2> QED
        BY <1>1, <2>1, <2>3, <2>6, <2>7, <2>8, Creates
<1> QED
    BY <1>1, <1>2, <1>3, FirstShape

\* A call of Mollie for a renewal: the row names the subscription that was charged.
LEMMA RenewedIs ==
    ASSUME Types, Agreement, NEW h \in Handlers, req[h].pc \in Renewals
    PROVE  /\ Turn(h) /\ Agrees(row)
           /\ req[h].hook \in hooks /\ req[h].hook.kind = "renewal"
           /\ req[h].hook.id \in Subs /\ Open(req[h].hook.id) /\ row.sid = req[h].hook.id
           /\ OnlyOpen(req[h].hook.id)
<1>1. Turn(h) /\ Stand(req[h]) /\ Agrees(row) /\ RequestOK(req[h]) /\ hooks \subseteq Hook
    BY Turned, GoodIs DEF Turn, Renewals, Syncs, Types, MarketOK
<1>2. req[h].hook \in hooks /\ req[h].hook.kind = "renewal"
    BY <1>1 DEF Stand, Called, RequestOK, Renewals
<1>3. req[h].hook.id \in Subs /\ Open(req[h].hook.id)
    BY <1>1, <1>2, HookIs DEF Agreement, Orders
<1> QED
    BY <1>1, <1>2, <1>3 DEF Agrees, OnlyOpen

\* A call goes on, to a statement that needs no more than the row.
LEMMA CallGoes ==
    ASSUME Types, Agreement, NEW h \in Handlers, req[h].pc \in {"fetch", "entitle", "update", "restore"} \cup Renewals,
           ~Late(req[h]), NEW r, Goto(h, r), UNCHANGED market, r.hook = req[h].hook,
           r.pc \in {"entitle", "done"} \cup Renewals, r.pc = "entitle" => r.hook.kind = "mandate", Agrees(row')
    PROVE  Agreement'
<1>1. Turn(h) /\ Stand(req[h]) /\ (FirstCalled => NoneOpen)
    BY Turned DEF Turn, Renewals
<1>2. r.hook \in hooks
    BY <1>1 DEF Stand, Called, Renewals, Restoring
<1>3. Fits(r, row')
    BY <1>1, <1>2 DEF Fits, Stand, Called, Restoring, Ending, Aiming, Firsts, Renewals, Syncs
<1> QED
    BY <1>1, <1>3, FitsThen

\* Agreement does not ask for the stamp.
LEMMA AgreesStamped ==
    ASSUME NEW w \in Row, Agrees(w)
    PROVE  /\ Agrees(Stamped(w)) /\ \A d : Agrees([w EXCEPT !.due = d])
<1>1. \A d : LET x == [w EXCEPT !.due = d] IN x.sid = w.sid /\ x.plan = w.plan /\ x.soft = w.soft /\ x.st = w.st
    BY DEF Row
<1>2. \A d : Agrees([w EXCEPT !.due = d])
    BY <1>1 DEF Agrees
<1> QED
    BY <1>2 DEF Stamped

\* Nor does what a visit writes disagree, or what is made of the row.
LEMMA AgreesLoaded ==
    ASSUME Types, NEW w \in Row, Agrees(w)
    PROVE  /\ Agrees(Loaded(w)) /\ Agrees(Entitled(w)) /\ Entitled(w).sid = w.sid
           /\ Entitled(w).soft => NoneOpen
           /\ PeriodOver(w) => NoneOpen
<1>1. PeriodOver(w) => NoneOpen
    BY DEF PeriodOver, Agrees, NoneOpen
<1>2. \A x : NoneOpen => Agrees(x)
    BY DEF NoneOpen, Agrees
<1>3. w.soft => NoneOpen
    BY DEF Agrees, NoneOpen
<1>4. ~PeriodOver(w) => Entitled(w) = w
    BY DEF Entitled
<1>5. Entitled(w).sid = w.sid
    BY DEF Entitled, Row
<1>6. Agrees(Loaded(w))
    BY <1>1, <1>2, AgreesStamped DEF Loaded
<1> QED
    BY <1>1, <1>2, <1>3, <1>4, <1>5, <1>6

\* A request starts to copy the one subscription there is.
LEMMA SyncGoes ==
    ASSUME Types, Agreement, NEW h \in Handlers, Turn(h), NEW r, Goto(h, r), UNCHANGED market,
           r.pc = "sync", r.id \in Subs, OnlyOpen(r.id), r.sub = mollie[r.id], r.ret \in Returns,
           IF Called(r) THEN r.hook \in hooks ELSE hooks = {},
           r.ret = "restore" => r.hook.kind = "mandate" /\ Agrees(r.ent),
           r.ret = "cpay" => NoneOpen /\ r.plan # Free,
           FirstCalled => NoneOpen
    PROVE  Agreement'
<1>1. Fits(r, row')
    BY DEF Fits, Stand, OnlyOpen, Restoring, Ending, Aiming, Firsts, Syncs
<1> QED
    BY <1>1, FitsThen

LEMMA RenewedAgrees ==
    ASSUME Types, Agreement, Agreeable', NEW h \in Handlers, Renewed(h)
    PROVE  Agreement'
<1>0. req[h].pc \in Renewals
    BY DEF Renewed, LookRenewed, StampFailed, GetRenewed, At, Renewals
<1>1. PICK q \in Request : q = req[h] /\ ~Late(q)
    BY <1>0, GoodIs DEF Late, Renewals, Syncs
<1>2. /\ Turn(h) /\ Agrees(row) /\ q.hook \in hooks /\ q.hook.kind = "renewal"
      /\ q.hook.id \in Subs /\ Open(q.hook.id) /\ row.sid = q.hook.id /\ OnlyOpen(q.hook.id)
    BY <1>0, <1>1, RenewedIs
<1>3. ASSUME NEW r, Goto(h, r), UNCHANGED market, r.hook = q.hook, r.pc \in Renewals, Agrees(row') PROVE Agreement'
    BY <1>0, <1>1, <1>3, CallGoes DEF Renewals
<1>4. CASE LookRenewed(h)
    <2>1. PICK pc \in Renewals : \/ Goto(h, [req[h] EXCEPT !.seen = row, !.pc = pc])
                                 \/ Goto(h, [req[h] EXCEPT !.pc = pc])
        BY <1>1, <1>2, <1>4 DEF LookRenewed, Hooking, Step, Renewals
    <2>2. PICK r : Goto(h, r) /\ r.hook = q.hook /\ r.pc = pc
        <3>1. PICK w : w = row
            OBVIOUS
        <3>2. [q EXCEPT !.seen = w, !.pc = pc].hook = q.hook /\ [q EXCEPT !.seen = w, !.pc = pc].pc = pc
            BY DEF Request
        <3>3. [q EXCEPT !.pc = pc].hook = q.hook /\ [q EXCEPT !.pc = pc].pc = pc
            BY DEF Request
        <3> QED
            BY <1>1, <2>1, <3>1, <3>2, <3>3
    <2> QED
        BY <1>2, <1>3, <1>4, <2>2 DEF LookRenewed
<1>5. CASE StampFailed(h)
    <2>1. PICK r : r = [q EXCEPT !.pc = "getsub"]
        OBVIOUS
    <2>2. r.pc = "getsub" /\ r.hook = q.hook
        BY <2>1, Moves DEF Keeps
    <2>3. Goto(h, r) /\ Agrees(row')
        BY <1>1, <1>2, <1>5, <2>1, AgreesStamped DEF StampFailed, Step, Types
    <2> QED
        BY <1>3, <1>5, <2>2, <2>3 DEF StampFailed, Renewals
<1>6. CASE GetRenewed(h)
    <2>1. /\ Goto(h, Syncing(q, q.hook.id, mollie[q.hook.id], "done", q.hook.paid, ~q.hook.paid))
          /\ UNCHANGED market
        BY <1>1, <1>6, NoFault DEF GetRenewed, Hooking
    <2>2. PICK m : m = mollie[q.hook.id]
        OBVIOUS
    <2>3. PICK r : r = Syncing(q, q.hook.id, m, "done", q.hook.paid, ~q.hook.paid)
        OBVIOUS
    <2>4. r.pc = "sync" /\ r.id = q.hook.id /\ r.sub = m /\ r.ret = "done" /\ r.hook = q.hook
        BY <2>3, SyncingIs
    <2>5. Goto(h, r)
        BY <2>1, <2>2, <2>3
    <2>6. FirstCalled => NoneOpen
        BY <1>1, <1>2, Turned
    <2> QED
        BY <1>2, <2>1, <2>2, <2>4, <2>5, <2>6, SyncGoes DEF Called, Syncs, Returns
<1> QED
    BY <1>4, <1>5, <1>6 DEF Renewed

LEMMA MandateAgrees ==
    ASSUME Types, Agreement, Agreeable', NEW h \in Handlers, Mandate(h)
    PROVE  Agreement'
<1>0. req[h].pc \in {"entitle", "update", "restore"} /\ ~EntitleBlind(h)
    BY NoFault DEF Mandate, Entitle, EntitleBlind, UpdateMandate, Restore, At
<1>1. PICK q \in Request : q = req[h] /\ ~Late(q)
    BY <1>0, GoodIs DEF Late, Syncs
<1>2. /\ Turn(h) /\ Agrees(row) /\ row \in Row /\ q.hook \in hooks /\ q.hook.kind = "mandate" /\ (FirstCalled => NoneOpen)
      /\ q.pc \in {"update", "restore"} => Agrees(q.ent)
      /\ q.pc = "update" => OnlyOpen(q.id)
    <2>1. Turn(h) /\ Stand(q) /\ Agrees(row) /\ (FirstCalled => NoneOpen) /\ row \in Row
        BY <1>0, <1>1, Turned DEF Turn, Syncs, Types
    <2> QED
        BY <1>0, <1>1, <2>1 DEF Stand, Called, Restoring, Aiming
<1>3. CASE Entitle(h)
    <2>1. PICK e : e = Entitled(row)
        OBVIOUS
    <2>2. Agrees(e) /\ OnlyOpen(e.sid) /\ Agrees(row')
        BY <1>2, <1>3, <2>1, AgreesLoaded DEF Entitle, Agrees, OnlyOpen
    <2>3. PICK pc \in {"update", "restore"} : Goto(h, [q EXCEPT !.ent = e, !.id = e.sid, !.pc = pc])
        BY <1>1, <1>3, <2>1 DEF Entitle
    <2>4. PICK r : r = [q EXCEPT !.ent = e, !.id = e.sid, !.pc = pc]
        OBVIOUS
    <2>5. r.ent = e /\ r.id = e.sid /\ r.pc = pc /\ r.hook = q.hook
        BY <2>4 DEF Request
    <2>6. Fits(r, row')
        BY <1>2, <2>2, <2>5 DEF Fits, Stand, Called, Restoring, Ending, Aiming, Firsts, Renewals, Syncs
    <2>7. Goto(h, r)
        BY <2>3, <2>4
    <2> QED
        BY <1>2, <1>3, <2>6, <2>7, FitsThen DEF Entitle
<1>4. CASE UpdateMandate(h)
    <2>0. q.pc = "update"
        BY <1>1, <1>4 DEF UpdateMandate, At
    <2>1. CASE Real(q.id) /\ Goto(h, Syncing(q, q.id, mollie[q.id], "restore", FALSE, FALSE))
        <3>1. PICK m : m = mollie[q.id]
            OBVIOUS
        <3>2. PICK r : r = Syncing(q, q.id, m, "restore", FALSE, FALSE)
            OBVIOUS
        <3>3. r.pc = "sync" /\ r.id = q.id /\ r.sub = m /\ r.ret = "restore" /\ r.hook = q.hook /\ r.ent = q.ent
            BY <3>2 DEF Syncing, Request
        <3>4. Goto(h, r)
            BY <2>1, <3>1, <3>2
        <3>5. Called(r) /\ r.ret \in Returns /\ r.ret # "cpay"
            BY <3>3 DEF Called, Restoring, Syncs, Returns
        <3> QED
            BY <1>2, <1>4, <2>0, <2>1, <3>1, <3>3, <3>4, <3>5, SyncGoes DEF UpdateMandate, Real
    <2>2. CASE Step(h, "restore")
        <3>1. PICK r : r = [q EXCEPT !.pc = "restore"]
            OBVIOUS
        <3>2. r.pc = "restore" /\ r.hook = q.hook /\ r.ent = q.ent /\ Goto(h, r)
            BY <1>1, <2>2, <3>1, Moves DEF Keeps, Step
        <3>3. Fits(r, row)
            BY <1>2, <2>0, <3>2 DEF Fits, Stand, Called, Restoring, Ending, Aiming, Firsts, Renewals, Syncs
        <3> QED
            BY <1>2, <1>4, <3>2, <3>3, FitsThen DEF UpdateMandate
    <2> QED
        BY <1>1, <1>4, <2>1, <2>2 DEF UpdateMandate
<1>5. CASE Restore(h)
    <2>1. row' = [q.ent EXCEPT !.due = row.due] /\ Goto(h, Answered(h)) /\ UNCHANGED market
        BY <1>1, <1>5, NoFault DEF Restore
    <2>2. q.ent \in Row /\ Agrees(q.ent)
        BY <1>1, <1>2, <1>5, Fields DEF Restore, At
    <2>3. Agrees(row')
        <3>1. PICK d : d = row.due
            OBVIOUS
        <3> QED
            BY <2>1, <2>2, <3>1, AgreesStamped
    <2> QED
        BY <1>0, <1>1, <2>1, <2>3, AnsweredIs, CallGoes
<1> QED
    BY <1>0, <1>3, <1>4, <1>5 DEF Mandate

LEMMA FetchAgrees ==
    ASSUME Types, Agreement, NEW h \in Handlers, Fetch(h)
    PROVE  Agreement'
<1>1. PICK q \in Request : q = req[h] /\ q.pc = "fetch" /\ ~Late(q)
    BY GoodIs DEF Fetch, At, Late, Syncs
<1>2. /\ Turn(h) /\ Agrees(row) /\ q.hook \in hooks /\ (FirstCalled => NoneOpen) /\ Stand(q)
    <2>1. Turn(h) /\ Stand(q) /\ Agrees(row) /\ (FirstCalled => NoneOpen)
        BY <1>1, Turned DEF Turn, Syncs
    <2> QED
        BY <1>1, <2>1 DEF Stand, Called
<1>3. q.hook.kind \in {"first", "renewal", "mandate"}
    <2>1. q.hook \in Hook
        BY <1>2 DEF Types, MarketOK
    <2> QED
        BY <2>1 DEF Hook
<1>4. CASE Goto(h, Answered(h))
    BY <1>1, <1>2, <1>4, AnsweredIs, CallGoes DEF Fetch
<1>5. ASSUME NEW pc \in {"existing", "state", "entitle"}, Step(h, pc),
             pc = "existing" <=> q.hook.kind = "first", pc = "entitle" <=> q.hook.kind = "mandate"
      PROVE  Agreement'
    <2>1. PICK r : r = [q EXCEPT !.pc = pc]
        OBVIOUS
    <2>2. r.pc = pc /\ r.hook = q.hook /\ Goto(h, r)
        BY <1>1, <1>5, <2>1, Moves DEF Keeps, Step
    <2>3. Fits(r, row)
        <3>1. pc = "existing" => NoneOpen
            BY <1>1, <1>2, <1>5 DEF Stand
        <3> QED
            BY <1>2, <1>5, <2>2, <3>1 DEF Fits, Stand, Called, Restoring, Ending, Aiming, Firsts, Renewals, Syncs
    <2> QED
        BY <1>2, <2>2, <2>3, FitsThen DEF Fetch
<1>6. CASE Step(h, CASE q.hook.kind = "first" -> "existing"
                     [] q.hook.kind = "renewal" -> "state"
                     [] OTHER -> "entitle")
    <2>1. CASE q.hook.kind = "first"
        BY <1>5, <1>6, <2>1
    <2>2. CASE q.hook.kind = "renewal"
        BY <1>5, <1>6, <2>2
    <2>3. CASE q.hook.kind = "mandate"
        BY <1>5, <1>6, <2>3
    <2> QED
        BY <1>3, <2>1, <2>2, <2>3
<1> QED
    BY <1>1, <1>4, <1>6 DEF Fetch, Hooking

LEMMA DoneAgrees ==
    ASSUME Types, Agreement, Agreeable', NEW h \in Handlers, Done(h)
    PROVE  Agreement'
<1>1. PICK q \in Request : q = req[h] /\ q.pc = "done"
    BY GoodIs DEF Done, At
<1>2. Turn(h) /\ Stand(q) /\ Agrees(row) /\ (~Late(q) /\ FirstCalled => NoneOpen)
    BY <1>1, Turned DEF Turn, Syncs
<1>3. q.hook \in hooks
    BY <1>1, <1>2 DEF Stand, Called
<1>4. hooks' = hooks \ {q.hook} /\ Goto(h, Idle) /\ UNCHANGED <<row, mollie, pay>>
    BY <1>1, NoFault DEF Done, Hooking, End
<1>5. Orders' /\ Agrees(row)'
    BY <1>2, <1>4 DEF Agreement, Orders, Open, Agrees
<1>6. FirstCalled' => NoneOpen'
    <2>1. CASE Late(q)
        <3>1. \A k \in hooks : k.kind = "first" => k = q.hook
            BY <1>3, <2>1 DEF Late, Agreement, Orders
        <3> QED
            BY <1>4, <3>1 DEF FirstCalled
    <2>2. CASE ~Late(q)
        BY <1>2, <1>4, <2>2 DEF FirstCalled, NoneOpen, Open
    <2> QED
        BY <2>1, <2>2
<1>7. Idle.pc = "idle" /\ Stand(Idle)'
    BY DEF Idle, Stand, Called, Restoring, Firsts, Renewals, Syncs, Ending, Aiming
<1> QED
    BY <1>2, <1>4, <1>5, <1>6, <1>7, AgreeOn

\* What a request knows of the one subscription it copies.
Knows(r) == \A s \in Subs : Open(s) => r.id = s /\ r.sub = mollie[s]

LEMMA PayloadIs ==
    ASSUME NEW r, NEW d
    PROVE  /\ Payload(r, d).sid = r.id /\ Payload(r, d).soft = Held(r) /\ Payload(r, d).st = Dunned(r, d)
           /\ Payload(r, d).due = NextDue(r, d)
           /\ Payload(r, d).plan = CASE Held(r) /\ r.seen.plan # Free -> r.seen.plan
                                     [] ~Held(r) /\ r.sub.st = "canceled" -> Free
                                     [] OTHER -> r.sub.plan
           /\ Payload(r, d).end = IF Held(r) /\ r.seen.end # 0 THEN r.seen.end ELSE PeriodEnd(r)
BY DEF Payload

\* The copy of an open subscription.
LEMMA CopyOfOpen ==
    ASSUME NEW r, NEW d, r.sub.st \in {"active", "suspended"}
    PROVE  /\ ~Held(r) /\ ~Payload(r, d).soft /\ Payload(r, d).plan = r.sub.plan
           /\ Payload(r, d).st \in {"active", "past_due"}
           /\ r.sub.st = "suspended" => Payload(r, d).st = "past_due"
           /\ r.sub.st = "active" /\ ~(r.keep /\ d # 0) => Payload(r, d).st = "active"
           /\ r.keep /\ d # 0 => Payload(r, d).st = "past_due"
<1>1. ~Held(r)
    BY DEF Held
<1>2. Status(r) = IF r.sub.st = "suspended" THEN "past_due" ELSE "active"
    BY <1>1 DEF Status
<1>3. Payload(r, d).st = Dunned(r, d) /\ Payload(r, d).soft = Held(r) /\ Payload(r, d).plan = r.sub.plan
    BY <1>1, PayloadIs
<1> QED
    BY <1>1, <1>2, <1>3 DEF Dunned

LEMMA PayloadAgrees ==
    ASSUME NEW r, NEW d, Knows(r)
    PROVE  Agrees(Payload(r, d))
<1> SUFFICES ASSUME NEW s \in Subs, Open(s)
             PROVE  LET w == Payload(r, d)
                    IN  w.sid = s /\ w.plan = mollie[s].plan /\ ~w.soft /\ w.st \in {"active", "past_due"}
    BY DEF Agrees
<1>1. r.id = s /\ r.sub = mollie[s] /\ r.sub.st \in {"active", "suspended"}
    BY DEF Knows, Open
<1> QED
    BY <1>1, CopyOfOpen, PayloadIs

LEMMA SyncedIs ==
    ASSUME NEW r \in Request, r.ret \in Returns
    PROVE  /\ Synced(r).pc = r.ret
           /\ r.ret # "idle" => Synced(r).hook = r.hook /\ Synced(r).ent = r.ent /\ Synced(r).plan = r.plan
<1>1. CASE r.ret = "idle"
    BY <1>1 DEF Synced, Idle
<1>2. CASE r.ret # "idle"
    BY <1>2 DEF Synced, Request
<1> QED
    BY <1>1, <1>2

\* The sync is one statement further.
LEMMA SyncFits ==
    ASSUME NEW q, NEW r, NEW v, NEW w, Fits(q, v), q.pc \in Syncs, r.pc \in Syncs, r.hook = q.hook, r.plan = q.plan,
           r.id = q.id, r.ent = q.ent, r.sub = q.sub, r.ret = q.ret,
           r.pc \in {"mark", "write"} => Agrees(r.seen)
    PROVE  Fits(r, w)
BY DEF Fits, Stand, Called, Restoring, Ending, Aiming, Firsts, Renewals, Syncs, Late

LEMMA SyncAgrees ==
    ASSUME Types, Agreement, Agreeable', NEW h \in Handlers, Sync(h)
    PROVE  Agreement'
<1>0. req[h].pc \in Syncs
    BY DEF Sync, SyncRead, SyncDue, SyncMark, SyncWrite, At, Syncs
<1>1. PICK q \in Request : q = req[h] /\ RequestOK(q) /\ q.pc \in Syncs
    BY <1>0, GoodIs
<1>2. Turn(h) /\ Fits(q, row) /\ Stand(q) /\ q.id \in Subs /\ q.ret \in Returns
    BY <1>1, FitsNow DEF Turn, Syncs, RequestOK, Fits
<1>3. Knows(q)
    BY <1>1, <1>2 DEF Stand, Knows
<1>4. CASE SyncRead(h)
    <2>1. PICK w : w = row
        OBVIOUS
    <2>2. Goto(h, [q EXCEPT !.pc = "due", !.seen = w]) \/ Goto(h, [q EXCEPT !.pc = "due"])
        BY <1>1, <1>4, <2>1 DEF SyncRead, Step
    <2>3. PICK r : /\ Goto(h, r) /\ r.pc = "due" /\ r.hook = q.hook /\ r.plan = q.plan /\ r.id = q.id
                   /\ r.ent = q.ent /\ r.sub = q.sub /\ r.ret = q.ret
        <3>1. LET x == [q EXCEPT !.pc = "due", !.seen = w]
              IN  /\ x.pc = "due" /\ x.hook = q.hook /\ x.plan = q.plan /\ x.id = q.id
                  /\ x.ent = q.ent /\ x.sub = q.sub /\ x.ret = q.ret
            BY DEF Request
        <3>2. LET x == [q EXCEPT !.pc = "due"]
              IN  /\ x.pc = "due" /\ x.hook = q.hook /\ x.plan = q.plan /\ x.id = q.id
                  /\ x.ent = q.ent /\ x.sub = q.sub /\ x.ret = q.ret
            BY Moves DEF Keeps
        <3> QED
            BY <2>2, <3>1, <3>2
    <2>4. PICK w2 : w2 = row'
        OBVIOUS
    <2>5. Fits(r, w2)
        BY <1>1, <1>2, <2>3, SyncFits DEF Syncs
    <2>6. UNCHANGED market
        BY <1>4 DEF SyncRead
    <2> QED
        BY <1>2, <2>3, <2>4, <2>5, <2>6, FitsThen
<1>5. CASE SyncDue(h)
    <2>1. PICK d : LET new == Payload(q, d)
                   IN  Goto(h, [q EXCEPT !.seen = new,
                                         !.pc = IF (new.due = 0) = (d = 0) THEN "write" ELSE "mark"])
        BY <1>1, <1>5 DEF SyncDue
    <2>2. PICK w : w = Payload(q, d)
        OBVIOUS
    <2>3. PICK pc \in {"write", "mark"} : Goto(h, [q EXCEPT !.seen = w, !.pc = pc])
        BY <2>1, <2>2
    <2>4. PICK r : r = [q EXCEPT !.seen = w, !.pc = pc]
        OBVIOUS
    <2>5. /\ r.pc = pc /\ r.seen = w /\ r.hook = q.hook /\ r.plan = q.plan /\ r.id = q.id
          /\ r.ent = q.ent /\ r.sub = q.sub /\ r.ret = q.ret
        BY <2>4 DEF Request
    <2>6. Agrees(w)
        BY <1>3, <2>2, PayloadAgrees
    <2>7. Fits(r, w)
        BY <1>1, <1>2, <2>5, <2>6, SyncFits DEF Syncs
    <2>8. Fits(r, row)
        BY <1>1, <1>2, <2>5, <2>6, SyncFits DEF Syncs
    <2>9. UNCHANGED <<row, market>> /\ Goto(h, r)
        BY <1>5, <2>3, <2>4 DEF SyncDue
    <2> QED
        BY <1>2, <2>8, <2>9, FitsThen
<1>6. CASE SyncMark(h)
    <2>1. PICK r : r = [q EXCEPT !.pc = "write"]
        OBVIOUS
    <2>2. r.pc = "write" /\ r.id = q.id /\ Keeps(r, q) /\ Goto(h, r) /\ UNCHANGED market
        <3>1. r.pc = "write" /\ r.id = q.id /\ Keeps(r, q)
            BY <2>1, Moves
        <3>2. Goto(h, r) /\ UNCHANGED market
            BY <1>1, <1>6, <2>1 DEF SyncMark, Step
        <3> QED
            BY <3>1, <3>2
    <2>3. Agrees(q.seen)
        BY <1>1, <1>2, <1>6 DEF Stand, SyncMark, At
    <2>4. PICK w : w = row'
        OBVIOUS
    <2>5. Fits(r, w)
        BY <1>1, <1>2, <2>2, <2>3, SyncFits DEF Syncs, Keeps
    <2> QED
        BY <1>2, <2>2, <2>4, <2>5, FitsThen
<1>7. CASE SyncWrite(h)
    <2>1. row' = q.seen /\ Goto(h, Synced(q)) /\ UNCHANGED market /\ q.pc = "write"
        BY <1>1, <1>7, NoFault DEF SyncWrite, At
    <2>2. PICK r : r = Synced(q)
        OBVIOUS
    <2>3. r.pc = q.ret /\ (q.ret # "idle" => r.hook = q.hook /\ r.ent = q.ent /\ r.plan = q.plan)
        BY <1>2, <2>2, SyncedIs
    <2>4. Agrees(q.seen)
        BY <1>2, <2>1 DEF Stand
    <2>5. Stand(r)
        BY <1>1, <1>2, <2>3, <2>4 DEF Stand, Called, Restoring, Ending, Aiming, Firsts, Renewals, Syncs, Returns
    <2>6. ~Late(r) /\ FirstCalled => NoneOpen
        <3> SUFFICES ASSUME ~Late(r), FirstCalled, Late(q) PROVE FALSE
            BY <1>2 DEF Fits
        <3>1. hooks # {}
            BY DEF FirstCalled
        <3>2. Called(q)
            BY <1>1, <1>2, <3>1 DEF Stand, Syncs
        <3>3. q.ret = "restore" \/ q.ret = "done"
            BY <1>1, <3>2 DEF Called, Restoring, Firsts, Renewals, Syncs
        <3>4. q.ret # "restore"
            BY <1>1, <1>2 DEF Stand, Restoring, Late
        <3> QED
            BY <2>3, <3>3, <3>4 DEF Late
    <2>7. Fits(r, q.seen)
        BY <2>4, <2>5, <2>6 DEF Fits
    <2> QED
        BY <1>2, <2>1, <2>2, <2>7, FitsThen
<1> QED
    BY <1>4, <1>5, <1>6, <1>7 DEF Sync

-----------------------------------------------------------------------------
(* The restaurant's requests and the health checks *)

Owners == {"cget", "ccancel", "cpay", "sget", "scancel", "swrite", "recreate", "patch", "hget", "missing",
           "hwrite", "cut", "cutget", "cutcancel", "fin", "finget", "finwrite", "vstamp"}

\* They are under way when no call of Mollie is open.
LEMMA OwnIs ==
    ASSUME Types, Agreement, NEW h \in Handlers, req[h].pc \in Owners
    PROVE  /\ Turn(h) /\ hooks = {} /\ ~FirstCalled /\ Agrees(row) /\ Stand(req[h])
           /\ req[h] \in Request /\ RequestOK(req[h])
<1>1. Turn(h) /\ Stand(req[h]) /\ Agrees(row) /\ req[h] \in Request /\ RequestOK(req[h])
    BY Turned, GoodIs DEF Turn, Owners, Syncs
<1>2. req[h].pc # "idle" /\ ~Called(req[h])
    BY DEF Owners, Called, Restoring, Firsts, Renewals, Syncs
<1>3. hooks = {}
    BY <1>1, <1>2 DEF Stand
<1> QED
    BY <1>1, <1>3 DEF FirstCalled

\* What such a request needs to know where it stands.
Aims(r) ==
    /\ r.pc \in Ending => NoneOpen
    /\ r.pc \in Aiming => OnlyOpen(r.id)
    /\ r.pc \in {"sget", "scancel"} => OnlyOpen(r.ent.sid)
    /\ r.pc \in {"cget", "ccancel", "cpay", "recreate", "patch"} => r.plan # Free

LEMMA OwnFits ==
    ASSUME hooks = {}, NEW r, r.pc \in Owners \cup {"idle"}, Aims(r), NEW w, Agrees(w)
    PROVE  Fits(r, w)
BY DEF Owners, Aims, Fits, Stand, Called, Restoring, FirstCalled, Ending, Aiming, Firsts, Renewals, Syncs

LEMMA OwnGoes ==
    ASSUME Types, Agreement, NEW h \in Handlers, req[h].pc \in Owners, NEW r, Goto(h, r), UNCHANGED market,
           r.pc \in Owners \cup {"idle"}, Aims(r), Agrees(row')
    PROVE  Agreement'
<1>1. Turn(h) /\ hooks = {}
    BY OwnIs
<1>2. PICK w : w = row'
    OBVIOUS
<1>3. Fits(r, w)
    BY <1>1, <1>2, OwnFits
<1> QED
    BY <1>1, <1>2, <1>3, FitsThen

LEMMA StartIs ==
    ASSUME Types, Agreement, Agreeable', NEW h, NEW op, NEW r, Start(h, op, r)
    PROVE  /\ Quiet /\ hooks = {} /\ UNCHANGED market /\ Goto(h, r)
           /\ Agrees(row) /\ Agrees(row')
<1>1. Quiet /\ hooks = {} /\ UNCHANGED market /\ Goto(h, r)
    BY NoFault DEF Start, Begin
<1>2. Agrees(row) /\ row \in Row
    BY <1>1, QuietAgrees DEF Types
<1>3. Agrees(row')
    BY <1>2, AgreesLoaded DEF Start
<1> QED
    BY <1>1, <1>2, <1>3

LEMMA StartAgrees ==
    ASSUME Types, Agreement, Agreeable', NEW h \in Handlers, NEW op, NEW r, Start(h, op, r),
           r.pc \in Owners, Aims(r)
    PROVE  Agreement'
<1>1. Quiet /\ hooks = {} /\ UNCHANGED market /\ Goto(h, r) /\ Turn(h) /\ Agrees(row')
    BY StartIs DEF Turn
<1>2. PICK w : w = row'
    OBVIOUS
<1>3. Fits(r, w)
    BY <1>1, <1>2, OwnFits
<1> QED
    BY <1>1, <1>2, <1>3, FitsThen

\* The one subscription there is ends at Mollie.
LEMMA Cancels ==
    ASSUME Types, Agreement, NEW h \in Handlers, req[h].pc \in Owners, NEW id \in Subs, OnlyOpen(id), CancelAt(id),
           UNCHANGED row, NEW r, Goto(h, r),
           \/ r.pc \in {"swrite", "finwrite"}
           \/ r.pc = "sync" /\ r.ret \in {"cpay", "fin"} /\ (r.ret = "cpay" => r.plan # Free)
    PROVE  Agreement'
<1>1. Turn(h) /\ hooks = {}
    BY OwnIs
<1>2. /\ mollie' = [mollie EXCEPT ![id] = Canceled(@)] /\ UNCHANGED <<pay, hooks>>
      /\ mollie \in [Subs -> Sub]
    BY DEF CancelAt, Types, MarketOK
<1>3. \A s \in Subs : ~(mollie'[s].st \in {"active", "suspended"})
    <2>1. mollie'[id].st = "canceled"
        BY <1>2 DEF Canceled, Sub
    <2>2. \A s \in Subs : s # id => mollie'[s] = mollie[s]
        BY <1>2
    <2> QED
        BY <2>1, <2>2 DEF OnlyOpen, Open
<1>4. NoneOpen'
    BY <1>3 DEF NoneOpen, Open
<1>5. Orders'
    BY <1>1, <1>2, <1>4 DEF Agreement, Orders, NoneOpen
<1>6. Stand(r)'
    BY <1>1, <1>2, <1>4 DEF Stand, NoneOpen, OnlyOpen, Agrees, Called, Restoring, Ending, Aiming, Firsts, Renewals, Syncs
<1>7. Agrees(row)'
    BY <1>4 DEF Agrees, NoneOpen
<1> QED
    BY <1>1, <1>4, <1>5, <1>6, <1>7, AgreeOn

LEMMA CheckoutsAgree ==
    ASSUME Types, Agreement, Agreeable', NEW h \in Handlers, Checkouts(h)
    PROVE  Agreement'
<1>1. CASE Checkout(h)
    <2>1. PICK e : e = Entitled(row)
        OBVIOUS
    <2>2. PICK plan \in Booked :
              \/ Start(h, "checkout", [Idle EXCEPT !.pc = "cget", !.plan = plan, !.id = e.sid])
              \/ /\ ~(e.sid # None /\ e.st \in {"active", "past_due"})
                 /\ Start(h, "checkout", [Idle EXCEPT !.pc = "cpay", !.plan = plan])
        BY <1>1, <2>1 DEF Checkout
    <2>3. plan # Free
        BY PlansDistinct
    <2>4. Agrees(row) /\ row \in Row
        BY <2>2, StartIs DEF Types
    <2>5. Agrees(e)
        BY <2>1, <2>4, AgreesLoaded
    <2>6. CASE Start(h, "checkout", [Idle EXCEPT !.pc = "cget", !.plan = plan, !.id = e.sid])
        <3>1. PICK r : r = [Idle EXCEPT !.pc = "cget", !.plan = plan, !.id = e.sid]
            OBVIOUS
        <3>2. r.pc = "cget" /\ r.plan = plan /\ r.id = e.sid
            BY <3>1 DEF Idle
        <3>3. Aims(r)
            BY <2>3, <2>5, <3>2 DEF Aims, Ending, Aiming, Firsts, Agrees, OnlyOpen
        <3> QED
            BY <2>6, <3>1, <3>2, <3>3, StartAgrees DEF Owners
    <2>7. CASE /\ ~(e.sid # None /\ e.st \in {"active", "past_due"})
               /\ Start(h, "checkout", [Idle EXCEPT !.pc = "cpay", !.plan = plan])
        <3>1. PICK r : r = [Idle EXCEPT !.pc = "cpay", !.plan = plan]
            OBVIOUS
        <3>2. r.pc = "cpay" /\ r.plan = plan
            BY <3>1 DEF Idle
        <3>3. NoneOpen
            BY <2>5, <2>7, IdsDistinct DEF Agrees, NoneOpen
        <3>4. Aims(r)
            BY <2>3, <3>2, <3>3 DEF Aims, Aiming
        <3> QED
            BY <2>7, <3>1, <3>2, <3>4, StartAgrees DEF Owners
    <2> QED
        BY <2>2, <2>6, <2>7
<1>2. CASE CheckoutGet(h)
    <2>1. PICK q \in Request : q = req[h] /\ q.pc = "cget" /\ Stand(q) /\ Agrees(row)
        BY <1>2, OwnIs DEF CheckoutGet, At, Owners
    <2>2. OnlyOpen(q.id) /\ q.plan # Free
        BY <2>1 DEF Stand, Aiming
    <2>3. CASE Goto(h, [q EXCEPT !.pc = "ccancel"])
        <3>1. PICK r : r = [q EXCEPT !.pc = "ccancel"]
            OBVIOUS
        <3>2. r.pc = "ccancel" /\ r.id = q.id /\ r.plan = q.plan
            BY <3>1, Moves DEF Keeps
        <3>3. Aims(r)
            BY <2>2, <3>2 DEF Aims, Ending, Firsts
        <3> QED
            BY <1>2, <2>1, <2>3, <3>1, <3>2, <3>3, OwnGoes DEF CheckoutGet, Owners
    <2>4. CASE Goto(h, [q EXCEPT !.pc = "cpay", !.id = None]) /\ ~(Real(q.id) /\ Open(q.id))
        <3>1. PICK r : r = [q EXCEPT !.pc = "cpay", !.id = None]
            OBVIOUS
        <3>2. r.pc = "cpay" /\ r.plan = q.plan
            BY <3>1, Moves DEF Keeps
        <3>3. NoneOpen
            BY <2>2, <2>4 DEF OnlyOpen, NoneOpen, Real
        <3>4. Aims(r)
            BY <2>2, <3>2, <3>3 DEF Aims, Aiming
        <3> QED
            BY <1>2, <2>1, <2>4, <3>1, <3>2, <3>4, OwnGoes DEF CheckoutGet, Owners
    <2> QED
        BY <1>2, <2>1, <2>3, <2>4, NoFault DEF CheckoutGet
<1>3. CASE CheckoutCancel(h)
    <2>1. PICK q \in Request : q = req[h] /\ q.pc = "ccancel" /\ Stand(q) /\ q.id \in Subs
        BY <1>3, OwnIs DEF CheckoutCancel, At, Owners, RequestOK
    <2>2. OnlyOpen(q.id) /\ q.plan # Free
        BY <2>1 DEF Stand, Aiming
    <2>3. CancelAt(q.id) /\ Goto(h, Syncing(q, q.id, Canceled(mollie[q.id]), "cpay", FALSE, FALSE)) /\ UNCHANGED row
        BY <1>3, <2>1, NoFault DEF CheckoutCancel
    <2>4. PICK r : r = Syncing(q, q.id, Canceled(mollie[q.id]), "cpay", FALSE, FALSE)
        OBVIOUS
    <2>5. r.pc = "sync" /\ r.ret = "cpay" /\ r.plan = q.plan
        <3>1. PICK m : m = Canceled(mollie[q.id])
            OBVIOUS
        <3>2. r = Syncing(q, q.id, m, "cpay", FALSE, FALSE)
            BY <2>4, <3>1
        <3> QED
            BY <3>2 DEF Syncing, Request
    <2> QED
        BY <2>1, <2>2, <2>3, <2>4, <2>5, Cancels DEF Owners
<1>4. CASE CheckoutPay(h)
    <2>1. PICK q \in Request : q = req[h] /\ q.pc = "cpay" /\ Stand(q) /\ Turn(h) /\ ~FirstCalled /\ hooks = {}
        BY <1>4, OwnIs DEF CheckoutPay, At, Owners
    <2>2. NoneOpen /\ q.plan # Free
        BY <2>1 DEF Stand, Ending
    <2>3. PICK p \in Pays : pay' = [pay EXCEPT ![p] = [st |-> "open", plan |-> q.plan]]
        BY <1>4, <2>1 DEF CheckoutPay
    <2>4. UNCHANGED <<mollie, hooks>> /\ Goto(h, Idle)
        BY <1>4 DEF CheckoutPay, End
    <2>5. NoneOpen' /\ ~FirstCalled'
        BY <2>1, <2>2, <2>4 DEF NoneOpen, Open, FirstCalled
    <2>6. pay'[p].plan = q.plan /\ \A u \in Pays : u # p => pay'[u] = pay[u]
        BY <2>3 DEF Types, MarketOK
    <2>7. Orders'
        BY <2>1, <2>2, <2>4, <2>5, <2>6 DEF Agreement, Orders, NoneOpen
    <2>8. Agrees(row)'
        BY <2>5 DEF Agrees, NoneOpen
    <2>9. Idle.pc = "idle" /\ Stand(Idle)'
        BY DEF Idle, Stand, Called, Restoring, Firsts, Renewals, Syncs, Ending, Aiming
    <2> QED
        BY <2>1, <2>4, <2>5, <2>7, <2>8, <2>9, AgreeOn
<1>5. ~CheckoutBlind(h) /\ ~CheckoutCustomer(h)
    BY NoFault DEF CheckoutBlind, CheckoutCustomer, At, Agreement, Stand
<1> QED
    BY <1>1, <1>2, <1>3, <1>4, <1>5 DEF Checkouts

LEMMA ManagingAgrees ==
    ASSUME Types, Agreement, Agreeable', NEW h \in Handlers, Managing(h)
    PROVE  Agreement'
<1>1. CASE CancelPlan(h)
    <2>1. PICK e : e = Entitled(row)
        OBVIOUS
    <2>2. PICK r : r = [Idle EXCEPT !.pc = "sget", !.ent = e]
        OBVIOUS
    <2>3. r.pc = "sget" /\ r.ent = e
        BY <2>2 DEF Idle
    <2>4. Start(h, "cancel", r)
        BY <1>1, <2>1, <2>2 DEF CancelPlan
    <2>5. Agrees(e)
        <3>1. Agrees(row) /\ row \in Row
            BY <2>4, StartIs DEF Types
        <3> QED
            BY <2>1, <3>1, AgreesLoaded
    <2>6. Aims(r)
        BY <2>3, <2>5 DEF Aims, Agrees, OnlyOpen, Ending, Aiming, Firsts
    <2> QED
        BY <2>3, <2>4, <2>6, StartAgrees DEF Owners
<1>2. CASE CancelGet(h)
    <2>1. PICK q \in Request : q = req[h] /\ q.pc = "sget" /\ Stand(q) /\ Agrees(row)
        BY <1>2, OwnIs DEF CancelGet, At, Owners
    <2>2. OnlyOpen(q.ent.sid)
        BY <2>1 DEF Stand
    <2>3. UNCHANGED <<row, market>>
        BY <1>2 DEF CancelGet
    <2>4. CASE ~Real(q.ent.sid) /\ Step(h, "swrite")
        <3>1. PICK r : r = [q EXCEPT !.pc = "swrite"]
            OBVIOUS
        <3>2. r.pc = "swrite" /\ Goto(h, r)
            BY <2>1, <2>4, <3>1, Moves DEF Step
        <3>3. Aims(r)
            BY <2>2, <2>4, <3>2 DEF Aims, Aiming, OnlyOpen, NoneOpen, Real
        <3> QED
            BY <2>1, <2>3, <3>2, <3>3, OwnGoes DEF Owners
    <2>5. CASE Real(q.ent.sid)
        <3>1. PICK pc, end : /\ pc = IF Open(q.ent.sid) THEN "scancel" ELSE "swrite"
                             /\ Goto(h, [q EXCEPT !.pc = pc, !.ent.end = end])
            BY <1>2, <2>1, <2>5 DEF CancelGet
        <3>2. PICK r : r = [q EXCEPT !.pc = pc, !.ent.end = end]
            OBVIOUS
        <3>3. r.pc = pc /\ r.ent.sid = q.ent.sid
            BY <3>2, Fields DEF Request, Row
        <3>4. Aims(r)
            BY <2>2, <2>5, <3>1, <3>3 DEF Aims, Ending, Aiming, Firsts, OnlyOpen, NoneOpen, Real
        <3> QED
            BY <2>1, <2>3, <3>1, <3>2, <3>3, <3>4, OwnGoes DEF Owners
    <2> QED
        BY <1>2, <2>1, <2>4, <2>5 DEF CancelGet
<1>3. CASE CancelMollie(h)
    <2>1. PICK q \in Request : q = req[h] /\ q.pc = "scancel" /\ Stand(q) /\ q.ent.sid \in Subs
        BY <1>3, OwnIs DEF CancelMollie, At, Owners, RequestOK
    <2>2. OnlyOpen(q.ent.sid)
        BY <2>1 DEF Stand
    <2>3. PICK r : r = [q EXCEPT !.pc = "swrite"]
        OBVIOUS
    <2>4. r.pc = "swrite"
        BY <2>3, Moves
    <2>5. CancelAt(q.ent.sid) /\ UNCHANGED row /\ Goto(h, r)
        BY <1>3, <2>1, <2>3 DEF CancelMollie, Step
    <2> QED
        BY <2>1, <2>2, <2>4, <2>5, Cancels DEF Owners
<1>4. CASE CancelWrite(h)
    <2>1. req[h].pc = "swrite" /\ NoneOpen
        <3>1. req[h].pc = "swrite" /\ Stand(req[h])
            BY <1>4, OwnIs DEF CancelWrite, At, Owners
        <3> QED
            BY <3>1 DEF Stand, Ending
    <2>2. Agrees(row') /\ Goto(h, Idle) /\ UNCHANGED market
        BY <1>4, <2>1 DEF CancelWrite, End, Agrees, NoneOpen
    <2>3. Idle.pc = "idle" /\ Aims(Idle)
        BY DEF Idle, Aims, Ending, Aiming, Firsts
    <2> QED
        BY <2>1, <2>2, <2>3, OwnGoes DEF Owners
<1>5. ASSUME NEW op, NEW plan, plan # Free, NEW pc,
             Start(h, op, [Idle EXCEPT !.pc = pc, !.plan = plan, !.id = Entitled(row).sid, !.ent = Entitled(row)]),
             pc = IF Entitled(row).soft THEN "recreate" ELSE "patch"
      PROVE  Agreement'
    <2>1. PICK e : e = Entitled(row)
        OBVIOUS
    <2>2. PICK r : r = [Idle EXCEPT !.pc = pc, !.plan = plan, !.id = e.sid, !.ent = e]
        OBVIOUS
    <2>3. r.pc = pc /\ r.plan = plan /\ r.id = e.sid
        BY <2>2 DEF Idle
    <2>4. Start(h, op, r)
        BY <1>5, <2>1, <2>2
    <2>5. Agrees(e) /\ (e.soft => NoneOpen)
        <3>1. Agrees(row) /\ row \in Row
            BY <2>4, StartIs DEF Types
        <3> QED
            BY <2>1, <3>1, AgreesLoaded
    <2>6. Aims(r)
        BY <1>5, <2>1, <2>3, <2>5 DEF Aims, Agrees, OnlyOpen, Ending, Aiming, Firsts
    <2> QED
        BY <1>5, <2>3, <2>4, <2>6, StartAgrees DEF Owners
<1>6. CASE UndoCancel(h)
    BY <1>5, <1>6 DEF UndoCancel
<1>7. CASE ChangePlan(h)
    BY <1>5, <1>7, PlansDistinct DEF ChangePlan
<1>8. CASE Recreate(h)
    <2>1. PICK q \in Request : q = req[h] /\ q.pc = "recreate" /\ Stand(q) /\ Turn(h) /\ hooks = {}
        BY <1>8, OwnIs DEF Recreate, At, Owners
    <2>2. NoneOpen /\ q.plan # Free /\ q.plan \in Plans \cup {Free}
        BY <2>1, Fields DEF Stand, Ending
    <2>3. Later(q.ent.end, now) \in Nat
        BY <2>1, Fields, RowFields, NowIsNat DEF Later
    <2>4. PICK s \in Subs : /\ Create(s, q.plan, Later(q.ent.end, now))
                            /\ Goto(h, Syncing(Idle, s, mollie'[s], "idle", FALSE, FALSE))
        BY <1>8, <2>1 DEF Recreate
    <2>5. PICK m : m = mollie'[s]
        OBVIOUS
    <2>6. PICK r : r = Syncing(Idle, s, m, "idle", FALSE, FALSE)
        OBVIOUS
    <2>7. r.pc = "sync" /\ r.id = s /\ r.sub = m /\ r.ret = "idle"
        BY <2>6 DEF Syncing, Idle
    <2>8. Goto(h, r) /\ r.sub = mollie'[s]
        BY <2>4, <2>5, <2>6, <2>7
    <2> QED
        BY <2>1, <2>2, <2>3, <2>4, <2>7, <2>8, Creates
<1>9. CASE Patch(h)
    <2>1. PICK q \in Request : q = req[h] /\ q.pc = "patch" /\ Stand(q) /\ Turn(h) /\ hooks = {} /\ ~FirstCalled
        BY <1>9, OwnIs DEF Patch, At, Owners
    <2>2. OnlyOpen(q.id) /\ q.plan # Free /\ q.id \in Subs /\ Open(q.id)
        BY <1>9, <2>1 DEF Stand, Aiming, Patch, Real
    <2>3. /\ mollie' = [mollie EXCEPT ![q.id].plan = q.plan] /\ UNCHANGED <<row, pay, hooks>>
          /\ Goto(h, Syncing(Idle, q.id, mollie'[q.id], "idle", FALSE, FALSE))
        BY <1>9, <2>1 DEF Patch
    <2>4. /\ mollie'[q.id].plan = q.plan /\ mollie'[q.id].st = mollie[q.id].st
          /\ \A s \in Subs : s # q.id => mollie'[s] = mollie[s]
        BY <2>2, <2>3 DEF Types, MarketOK, Sub
    <2>5. PICK m : m = mollie'[q.id]
        OBVIOUS
    <2>6. PICK r : r = Syncing(Idle, q.id, m, "idle", FALSE, FALSE)
        OBVIOUS
    <2>7. r.pc = "sync" /\ r.id = q.id /\ r.sub = mollie'[q.id] /\ r.ret = "idle"
        BY <2>5, <2>6 DEF Syncing, Idle
    <2>8. \A s \in Subs : Open(s)' => s = q.id
        BY <2>2, <2>4 DEF OnlyOpen, Open
    <2>9. Orders'
        BY <2>1, <2>2, <2>3, <2>4, <2>8 DEF Agreement, Orders
    <2>10. Stand(r)'
        BY <2>1, <2>3, <2>7, <2>8 DEF Stand, Called, Restoring, Ending, Aiming, Firsts, Renewals, Syncs
    <2>11. ~FirstCalled' /\ Goto(h, r)
        BY <2>1, <2>3, <2>5, <2>6 DEF FirstCalled
    <2> QED
        BY <2>1, <2>7, <2>9, <2>10, <2>11, AgreeOn DEF Syncs
<1>10. CASE PatchRefused(h)
    <2>1. req[h].pc = "patch" /\ Agrees(row')
        BY <1>10, OwnIs DEF PatchRefused, At, Owners
    <2>2. Idle.pc = "idle" /\ Aims(Idle)
        BY DEF Idle, Aims, Ending, Aiming, Firsts
    <2> QED
        BY <1>10, <2>1, <2>2, OwnGoes DEF Owners, PatchRefused, End
<1> QED
    BY <1>1, <1>2, <1>3, <1>4, <1>6, <1>7, <1>8, <1>9, <1>10 DEF Managing

LEMMA HealthChecksAgree ==
    ASSUME Types, Agreement, Agreeable', NEW h \in Handlers, HealthChecks(h)
    PROVE  Agreement'
<1>0. ASSUME NEW pc \in Owners, req[h].pc = pc
      PROVE  \E q \in Request : /\ q = req[h] /\ Stand(q) /\ Agrees(row) /\ hooks = {} /\ Turn(h) /\ ~FirstCalled
                                /\ RequestOK(q) /\ q.pc = pc
    BY <1>0, OwnIs
<1>1. Idle.pc = "idle" /\ Aims(Idle)
    BY DEF Idle, Aims, Ending, Aiming, Firsts
<1>2. CASE Health(h)
    <2>1. PICK id : id = row.sid
        OBVIOUS
    <2>2. PICK r : /\ Start(h, "health", r)
                   /\ r = [Idle EXCEPT !.pc = "fin"] \/ r = [Idle EXCEPT !.pc = "hget", !.id = id]
        BY <1>2, <2>1 DEF Health
    <2>3. Agrees(row)
        BY <2>2, StartIs
    <2>4. r.pc = "fin" \/ (r.pc = "hget" /\ r.id = id)
        BY <2>2 DEF Idle
    <2>5. Aims(r)
        BY <2>1, <2>3, <2>4 DEF Aims, Ending, Aiming, Firsts, Agrees, OnlyOpen
    <2> QED
        BY <2>2, <2>4, <2>5, StartAgrees DEF Owners
\* Going on with another statement, and no id.
<1>3. ASSUME NEW from \in Owners, req[h].pc = from, UNCHANGED <<row, market>>,
             NEW pc \in {"cut", "fin", "finwrite", "hwrite"}, NEW r, Goto(h, r),
             r = [req[h] EXCEPT !.pc = pc] \/ r = [req[h] EXCEPT !.pc = pc, !.id = None],
             pc \in {"finwrite", "hwrite"} => NoneOpen
      PROVE  Agreement'
    <2>1. PICK q \in Request : q = req[h] /\ q.pc = from /\ Agrees(row)
        BY <1>0, <1>3
    <2>2. r.pc = pc
        BY <1>3, <2>1 DEF Request
    <2>3. Aims(r)
        BY <1>3, <2>2 DEF Aims, Ending, Aiming, Firsts
    <2> QED
        BY <1>3, <2>1, <2>2, <2>3, OwnGoes DEF Owners
\* Copying what Mollie has answered.
<1>4. ASSUME NEW q \in Request, q = req[h], q.pc \in Owners, UNCHANGED <<row, market>>, q.id \in Subs, OnlyOpen(q.id),
             NEW ret \in {"cut", "fin"}, NEW keep, Goto(h, Syncing(q, q.id, mollie[q.id], ret, keep, FALSE))
      PROVE  Agreement'
    <2>1. PICK m : m = mollie[q.id]
        OBVIOUS
    <2>2. PICK r : r = Syncing(q, q.id, m, ret, keep, FALSE)
        OBVIOUS
    <2>3. r.pc = "sync" /\ r.id = q.id /\ r.sub = m /\ r.ret = ret
        BY <2>2 DEF Syncing, Request
    <2>4. Turn(h) /\ hooks = {} /\ ~FirstCalled
        BY <1>4, OwnIs
    <2>5. ~Called(r) /\ r.ret \in Returns
        BY <2>3 DEF Called, Restoring, Firsts, Renewals, Syncs, Returns
    <2>6. Goto(h, r)
        BY <1>4, <2>1, <2>2
    <2> QED
        BY <1>4, <2>1, <2>3, <2>4, <2>5, <2>6, SyncGoes
<1>5. CASE HealthGet(h)
    <2>1. PICK q \in Request : q = req[h] /\ q.pc = "hget" /\ Stand(q)
        BY <1>0, <1>5 DEF HealthGet, At, Owners
    <2>2. OnlyOpen(q.id)
        BY <2>1 DEF Stand, Aiming
    <2>3. CASE Real(q.id)
        BY <1>4, <1>5, <2>1, <2>2, <2>3, NoFault DEF HealthGet, Real, Owners
    <2>4. CASE ~Real(q.id)
        <3>1. PICK r : r = [q EXCEPT !.pc = "missing"]
            OBVIOUS
        <3>2. r.pc = "missing" /\ Goto(h, r) /\ UNCHANGED <<row, market>>
            BY <1>5, <2>1, <2>4, <3>1, NoFault, Moves DEF HealthGet
        <3>3. NoneOpen
            BY <2>2, <2>4 DEF Real, OnlyOpen, NoneOpen
        <3>4. Aims(r) /\ Agrees(row')
            BY <3>2, <3>3 DEF Aims, Aiming, Agrees, NoneOpen
        <3> QED
            BY <2>1, <3>2, <3>4, OwnGoes DEF Owners
    <2> QED
        BY <2>3, <2>4
<1>6. CASE HealthMissing(h)
    <2>1. PICK q \in Request : q = req[h] /\ q.pc = "missing" /\ Stand(q)
        BY <1>0, <1>6 DEF HealthMissing, At, Owners
    <2>2. NoneOpen
        BY <2>1 DEF Stand, Ending
    <2> QED
        BY <1>3, <1>6, <2>1, <2>2 DEF HealthMissing, Owners, Step
<1>7. ASSUME req[h].pc \in {"hwrite", "finwrite"}, NEW r, Goto(h, r), UNCHANGED market,
             r.pc \in {"cut", "idle"}
      PROVE  Agreement'
    <2>1. PICK q \in Request : q = req[h] /\ Stand(q)
        BY <1>0, <1>7 DEF Owners
    <2>2. NoneOpen
        BY <1>7, <2>1 DEF Stand, Ending
    <2>3. Agrees(row') /\ Aims(r)
        BY <1>7, <2>2 DEF Agrees, NoneOpen, Aims, Aiming
    <2> QED
        BY <1>7, <2>3, OwnGoes DEF Owners
<1>8. CASE HealthWrite(h)
    <2>1. PICK q \in Request : q = req[h] /\ q.pc = "hwrite"
        BY <1>0, <1>8 DEF HealthWrite, At, Owners
    <2>2. [q EXCEPT !.pc = "cut", !.id = None].pc = "cut"
        BY Moves DEF Keeps
    <2> QED
        BY <1>7, <1>8, <2>1, <2>2 DEF HealthWrite
<1>9. CASE Cut(h)
    <2>1. PICK q \in Request : q = req[h] /\ q.pc = "cut" /\ Agrees(row)
        BY <1>0, <1>9 DEF Cut, At, Owners
    <2>2. PICK id : id = row.sid
        OBVIOUS
    <2>3. CASE Goto(h, [q EXCEPT !.pc = "cutget", !.id = id])
        <3>1. PICK r : r = [q EXCEPT !.pc = "cutget", !.id = id]
            OBVIOUS
        <3>2. r.pc = "cutget" /\ r.id = id
            BY <3>1, Moves DEF Keeps
        <3>3. Aims(r)
            BY <2>1, <2>2, <3>2 DEF Aims, Ending, Aiming, Firsts, Agrees, OnlyOpen
        <3> QED
            BY <1>9, <2>1, <2>3, <3>1, <3>2, <3>3, OwnGoes DEF Owners, Cut
    <2>4. CASE Goto(h, [q EXCEPT !.pc = "fin"])
        BY <1>3, <1>9, <2>1, <2>4 DEF Cut, Owners
    <2> QED
        BY <1>9, <2>1, <2>2, <2>3, <2>4 DEF Cut
<1>10. CASE CutGet(h)
    <2>1. PICK q \in Request : q = req[h] /\ q.pc = "cutget" /\ Stand(q) /\ Agrees(row)
        BY <1>0, <1>10 DEF CutGet, At, Owners
    <2>2. OnlyOpen(q.id) /\ UNCHANGED <<row, market>>
        BY <1>10, <2>1 DEF Stand, Aiming, CutGet
    <2>3. CASE Goto(h, [q EXCEPT !.pc = "fin", !.id = None])
        BY <1>3, <2>1, <2>2, <2>3 DEF Owners
    <2>4. CASE Real(q.id) /\ Goto(h, [q EXCEPT !.pc = "cutcancel"])
        <3>1. PICK r : r = [q EXCEPT !.pc = "cutcancel"]
            OBVIOUS
        <3>2. r.pc = "cutcancel" /\ r.id = q.id
            BY <3>1, Moves
        <3>3. Aims(r)
            BY <2>2, <3>2 DEF Aims, Ending, Firsts
        <3> QED
            BY <2>1, <2>2, <2>4, <3>1, <3>2, <3>3, OwnGoes DEF Owners
    <2>5. CASE Real(q.id) /\ Goto(h, Syncing(q, q.id, mollie[q.id], "fin", mollie[q.id].st = "active", FALSE))
        <3>1. PICK keep : keep = (mollie[q.id].st = "active")
            OBVIOUS
        <3> QED
            BY <1>4, <2>1, <2>2, <2>5, <3>1 DEF Real, Owners
    <2> QED
        BY <1>10, <2>1, <2>3, <2>4, <2>5, NoFault DEF CutGet
<1>11. CASE CutCancel(h)
    <2>1. PICK q \in Request : q = req[h] /\ q.pc = "cutcancel" /\ Stand(q) /\ q.id \in Subs
        BY <1>0, <1>11 DEF CutCancel, At, Owners, RequestOK
    <2>2. OnlyOpen(q.id)
        BY <2>1 DEF Stand, Aiming
    <2>3. CancelAt(q.id) /\ Goto(h, Syncing(q, q.id, Canceled(mollie[q.id]), "fin", FALSE, FALSE)) /\ UNCHANGED row
        BY <1>11, <2>1, NoFault DEF CutCancel
    <2>4. PICK r : r = Syncing(q, q.id, Canceled(mollie[q.id]), "fin", FALSE, FALSE)
        OBVIOUS
    <2>5. r.pc = "sync" /\ r.ret = "fin"
        <3>1. PICK m : m = Canceled(mollie[q.id])
            OBVIOUS
        <3>2. r = Syncing(q, q.id, m, "fin", FALSE, FALSE)
            BY <2>4, <3>1
        <3> QED
            BY <3>2 DEF Syncing, Request
    <2> QED
        BY <2>1, <2>2, <2>3, <2>4, <2>5, Cancels DEF Owners
<1>12. CASE Fin(h)
    <2>1. PICK q \in Request : q = req[h] /\ q.pc = "fin" /\ Agrees(row)
        BY <1>0, <1>12 DEF Fin, At, Owners
    <2>2. PICK id : id = row.sid
        OBVIOUS
    <2>3. CASE PeriodOver(row) /\ Goto(h, [q EXCEPT !.pc = "finget", !.id = id])
        <3>1. PICK r : r = [q EXCEPT !.pc = "finget", !.id = id]
            OBVIOUS
        <3>2. r.pc = "finget"
            BY <3>1, Moves DEF Keeps
        <3>3. NoneOpen
            BY <2>1, <2>3 DEF PeriodOver, Agrees, NoneOpen
        <3>4. Aims(r)
            BY <3>2, <3>3 DEF Aims, Aiming
        <3> QED
            BY <1>12, <2>1, <2>3, <3>1, <3>2, <3>4, OwnGoes DEF Owners, Fin
    <2>4. CASE Goto(h, Idle)
        BY <1>1, <1>12, <2>1, <2>4, OwnGoes DEF Owners, Fin
    <2> QED
        BY <1>12, <2>1, <2>2, <2>3, <2>4 DEF Fin
<1>13. CASE FinCancel(h)
    <2>1. PICK q \in Request : q = req[h] /\ q.pc = "finget" /\ Stand(q) /\ q.id \in Subs \cup Pays \cup {None}
        BY <1>0, <1>13, Fields DEF FinCancel, At, Owners
    <2>2. NoneOpen
        BY <2>1 DEF Stand, Ending
    <2>3. UNCHANGED <<row, market>> /\ Goto(h, [q EXCEPT !.pc = "finwrite"])
        BY <1>13, <2>1, <2>2 DEF FinCancel, Real, NoneOpen, Step
    <2> QED
        BY <1>3, <2>1, <2>2, <2>3 DEF Owners
<1>14. CASE FinWrite(h)
    BY <1>1, <1>7, <1>14 DEF FinWrite, At, End
<1> QED
    BY <1>2, <1>5, <1>6, <1>8, <1>9, <1>10, <1>11, <1>12, <1>13, <1>14 DEF HealthChecks

LEMMA VisitsAgree ==
    ASSUME Types, Agreement, Agreeable', NEW h \in Handlers, Visit(h) \/ VisitBlind(h) \/ VisitStamp(h)
    PROVE  Agreement'
<1>1. CASE Visit(h)
    <2>1. PICK id : id = row.sid
        OBVIOUS
    <2>2. PICK r : /\ Start(h, "visit", r)
                   /\ \/ r = [Idle EXCEPT !.pc = "vstamp"]
                      \/ PeriodOver(row) /\ r = [Idle EXCEPT !.pc = "finwrite", !.id = id]
        BY <1>1, <2>1 DEF Visit
    <2>3. Agrees(row)
        BY <2>2, StartIs
    <2>4. r.pc = "vstamp" \/ (r.pc = "finwrite" /\ PeriodOver(row))
        BY <2>2 DEF Idle
    <2>5. Aims(r)
        BY <2>3, <2>4 DEF Aims, Ending, Aiming, Firsts, Agrees, PeriodOver, NoneOpen
    <2> QED
        BY <2>2, <2>4, <2>5, StartAgrees DEF Owners
<1>2. CASE VisitStamp(h)
    <2>1. req[h].pc = "vstamp" /\ Agrees(row) /\ row \in Row
        BY <1>2, OwnIs DEF VisitStamp, At, Owners, Types
    <2>2. Agrees(row')
        BY <1>2, <2>1, AgreesStamped DEF VisitStamp
    <2>3. Idle.pc = "idle" /\ Aims(Idle)
        BY DEF Idle, Aims, Ending, Aiming, Firsts
    <2> QED
        BY <1>2, <2>1, <2>2, <2>3, OwnGoes DEF Owners, VisitStamp, End
<1> QED
    BY <1>1, <1>2, NoFault DEF VisitBlind

-----------------------------------------------------------------------------
(* The agreement holds *)

LEMMA InitAgreement == Init => Agreement
<1> SUFFICES ASSUME Init PROVE Agreement
    OBVIOUS
<1>1. NoneOpen /\ hooks = {} /\ \A p \in Pays : pay[p].st = "none"
    BY DEF Init, NoneOpen, Open, NoSub
<1>2. Orders /\ Agrees(row) /\ ~FirstCalled
    BY <1>1 DEF Orders, Agrees, NoneOpen, FirstCalled
<1>3. \A h \in Handlers : req[h] = Idle
    BY DEF Init
<1>4. Idle.pc = "idle" /\ Stand(Idle)
    BY DEF Idle, Stand, Called, Restoring, Firsts, Renewals, Syncs, Ending, Aiming
<1> QED
    BY <1>2, <1>3, <1>4 DEF Agreement, Alone

LEMMA NextAgrees ==
    ASSUME Types, Agreement, Agreeable', [Next]_vars
    PROVE  Agreement'
<1>1. CASE UNCHANGED vars
    BY <1>1 DEF vars, market, Agreement, Orders, Alone, Stand, Called, Restoring, NoneOpen, OnlyOpen, Open,
        Agrees, Late, FirstCalled
<1>2. CASE Market
    BY <1>2, MarketAgrees
<1>3. ASSUME NEW h \in Handlers, Webhook(h) PROVE Agreement'
    BY <1>3, BeginFits, FetchAgrees, FirstAgrees, RenewedAgrees, MandateAgrees, DoneAgrees DEF Webhook
<1>4. ASSUME NEW h \in Handlers, Sync(h) \/ Checkouts(h) \/ Managing(h) \/ HealthChecks(h) PROVE Agreement'
    BY <1>4, SyncAgrees, CheckoutsAgree, ManagingAgrees, HealthChecksAgree
<1>5. ASSUME NEW h \in Handlers, Visit(h) \/ VisitBlind(h) \/ VisitStamp(h) \/ NotFound(h) \/ Vanish(h)
      PROVE  Agreement'
    BY <1>5, VisitsAgree, AlwaysFound, NoFault DEF Vanish
<1> QED
    BY <1>1, <1>2, <1>3, <1>4, <1>5 DEF Next

\* As long as the requests come one after the other, they and Mollie agree.
LEMMA StaysAgreed == Spec => [](Types /\ (Agreeable => Agreement))
<1>1. Init => Types /\ (Agreeable => Agreement)
    BY InitTypes, InitAgreement
<1>2. Types /\ (Agreeable => Agreement) /\ [Next]_vars => (Types /\ (Agreeable => Agreement))'
    BY NextTypes, NextAgrees, StillUndisturbed
<1> QED
    BY <1>1, <1>2, PTL DEF Spec

\* Mollie charges for the plan that the row has, and for no other, and stops when
\* it has been cancelled.
THEOREM MollieAndTheRowAgree == Spec => []BothAgree
<1>1. Types /\ (Agreeable => Agreement) => BothAgree
    BY QuietAgrees DEF BothAgree, Settled, Agreeable, Agrees
<1> QED
    BY <1>1, StaysAgreed, PTL

-----------------------------------------------------------------------------
(* The steps and the dunning *)

LEMMA DunsNow ==
    ASSUME Types, Agreement, Dunning, NEW h \in Handlers, Turn(h)
    PROVE  Presses(req[h], row)
<1>1. CASE req[h].pc # "idle"
    BY <1>1 DEF Dunning
<1>2. CASE Quiet
    <2>1. req[h].pc = "idle" /\ Duns(row)
        BY <1>2, AllIdle DEF Dunning
    <2> QED
        BY <2>1 DEF Presses, Restoring, Syncs
<1> QED
    BY <1>1, <1>2 DEF Turn

LEMMA DunsOn ==
    ASSUME Types, Agreement, Dunning, NEW h \in Handlers, Turn(h), NEW r, Goto(h, r), Bookings',
           NEW w, w = row', Presses(r, w)', r.pc = "idle" => Duns(w)'
    PROVE  Dunning'
<1>1. req'[h] = r /\ \A g \in Handlers : g # h => req'[g].pc = "idle"
    BY Turns
<1>2. Presses(r, row)' /\ (r.pc = "idle" => Duns(row)')
    BY DEF Presses, Duns
<1>3. \A g \in Handlers : req'[g].pc # "idle" => Presses(req[g], row)'
    BY <1>1, <1>2
<1>4. Quiet' => Duns(row)'
    <2>1. Idle.pc = "idle"
        BY DEF Idle
    <2>2. Quiet' => r.pc = "idle"
        BY <1>1, <2>1 DEF Quiet
    <2> QED
        BY <1>2, <2>2
<1> QED
    BY <1>3, <1>4 DEF Dunning

LEMMA StillOwed ==
    ASSUME UNCHANGED market
    PROVE  /\ \A s : Owes(s)' = Owes(s)
           /\ \A w : Duns(w)' = Duns(w)
           /\ \A r, w : Presses(r, w)' = Presses(r, w)
           /\ Bookings' = Bookings
BY DEF market, Owes, Open, Duns, Failing, Presses, Restoring, Fails, Bookings

LEMMA IdlePresses == ASSUME NEW r, r.pc = "idle", NEW w PROVE Presses(r, w) <=> Duns(w)
BY DEF Presses, Restoring, Syncs

\* A step that leaves the market alone.
LEMMA DunsStill ==
    ASSUME Types, Agreement, Dunning, NEW h \in Handlers, Turn(h), NEW r, Goto(h, r), UNCHANGED market,
           Presses(r, row')
    PROVE  Dunning'
<1>1. PICK w : w = row'
    OBVIOUS
<1>2. Presses(r, w)' /\ Bookings' /\ (r.pc = "idle" => Duns(w)')
    BY <1>1, StillOwed, IdlePresses DEF Dunning
<1> QED
    BY <1>1, <1>2, DunsOn

\* Nothing is owed, or nothing that is charged.
LEMMA NoneOwes ==
    ASSUME \A s \in Subs : ~Owes(s), NEW r, NEW w, r.pc # "getsub"
    PROVE  Presses(r, w)
BY DEF Presses, Duns

LEMMA NoneOwed == NoneOpen => \A s \in Subs : ~Owes(s)
BY DEF NoneOpen, Owes

LEMMA NoneStill ==
    ASSUME Types, Agreement, Dunning, NEW h \in Handlers, Turn(h), NEW r, Goto(h, r), UNCHANGED market,
           NoneOpen, r.pc # "getsub"
    PROVE  Dunning'
BY NoneOwed, NoneOwes, DunsStill

\* The market changes, and nothing that is charged is owed then.
LEMMA NoneOn ==
    ASSUME Types, Agreement, Dunning, NEW h \in Handlers, Turn(h), NEW r, Goto(h, r), Bookings',
           \A s \in Subs : ~Owes(s)', r.pc # "getsub"
    PROVE  Dunning'
<1>1. PICK w : w = row'
    OBVIOUS
<1>2. Presses(r, w)' /\ Duns(w)'
    BY DEF Presses, Duns
<1> QED
    BY <1>1, <1>2, DunsOn

\* A row with the same status.
LEMMA DunsSame == ASSUME NEW v, NEW w, Duns(v), w.st = v.st PROVE Duns(w)
BY DEF Duns

LEMMA DunsLoaded ==
    ASSUME Types, NEW w \in Row, Agrees(w), Duns(w)
    PROVE  Duns(Loaded(w)) /\ Duns(Entitled(w)) /\ Duns(Stamped(w)) /\ \A d : Duns([w EXCEPT !.due = d])
<1>1. \A d : [w EXCEPT !.due = d].st = w.st
    BY DEF Row
<1>2. \A d : Duns([w EXCEPT !.due = d])
    BY <1>1, DunsSame
<1>3. Duns(Stamped(w))
    BY <1>2 DEF Stamped
<1>4. CASE PeriodOver(w)
    <2>1. NoneOpen
        BY <1>4 DEF PeriodOver, Agrees, NoneOpen
    <2> QED
        BY <1>2, <1>3, <2>1, NoneOwed DEF Duns
<1>5. CASE ~PeriodOver(w)
    BY <1>2, <1>3, <1>5 DEF Loaded, Entitled
<1> QED
    BY <1>4, <1>5

LEMMA DunsMarket ==
    ASSUME Types, Dunning, Quiet, UNCHANGED <<row, req>>, Bookings', Duns(row)'
    PROVE  Dunning'
<1>1. Idle.pc = "idle"
    BY DEF Idle
<1> QED
    BY <1>1 DEF Dunning, Quiet

LEMMA MarketDuns == ASSUME Types, Agreement, Dunning, Dunnable', Market PROVE Dunning'
<1>0. /\ mollie \in [Subs -> Sub] /\ hooks \subseteq Hook /\ owed \subseteq Subs
      /\ Agreeable' /\ Bookings
    BY Milder DEF Types, MarketOK, Dunning, Dunnable, Agreeable
<1>1. ASSUME NEW p \in Pays, PayFirst(p) PROVE Dunning'
    <2>1. Quiet /\ UNCHANGED <<row, req>> /\ owed' = {}
        BY <1>0, <1>1, NoneToPay DEF PayFirst
    <2>2. Bookings' /\ Duns(row)'
        BY <2>1 DEF Bookings, Duns, Owes
    <2> QED
        BY <2>1, <2>2, DunsMarket
<1>2. ASSUME NEW s \in Subs, Charge(s) \/ Recover(s) PROVE Dunning'
    <2>1. Quiet /\ UNCHANGED <<row, req>> /\ Duns(row) /\ Open(s) /\ ~Hooked(s)
        BY <1>0, <1>2, QuietThen DEF Charge, Recover, Open, Dunning
    <2>2. PICK paid \in BOOLEAN : /\ hooks' = Renewal(s, paid)
                                  /\ owed' = IF paid THEN owed \ {s} ELSE owed \cup {s}
        BY <1>2 DEF Charge, Recover
    <2>3. PICK k \in Hook : k.kind = "renewal" /\ k.id = s /\ k.paid = paid /\ hooks' = hooks \cup {k}
        BY <2>2, HookMakes DEF Renewal
    <2>4. /\ mollie'[s].st # "none"
          /\ \A t \in Subs : t # s => mollie'[t] = mollie[t]
        <3>1. \/ mollie' = [mollie EXCEPT ![s].next = @ + Interval]
              \/ mollie' = [mollie EXCEPT ![s].st = "suspended", ![s].next = 0]
              \/ mollie' = [mollie EXCEPT ![s].st = "active", ![s].next = now + Interval]
            BY <1>2 DEF Charge, Recover
        <3>2. mollie[s] \in Sub
            BY <1>0
        <3> QED
            BY <1>0, <2>1, <3>1, <3>2 DEF Open, Sub
    <2>5. Bookings'
        <3>1. \A t \in owed' : mollie'[t].st # "none"
            BY <1>0, <2>2, <2>4 DEF Bookings
        <3>2. ASSUME NEW j \in hooks', j.kind = "renewal", j.paid PROVE j.id \notin owed'
            <4>1. CASE j = k
                BY <2>2, <2>3, <3>2, <4>1
            <4>2. CASE j \in hooks
                BY <1>0, <2>1, <2>2, <3>2, <4>2 DEF Bookings, Hooked
            <4> QED
                BY <2>3, <4>1, <4>2
        <3> QED
            BY <3>1, <3>2 DEF Bookings
    <2>6. Duns(row)'
        <3> SUFFICES ASSUME NEW t \in Subs, Owes(t)', row'.st # "past_due" PROVE Failing(t)'
            BY DEF Duns
        <3>1. CASE t = s
            <4>1. ~paid
                BY <2>2, <3>1 DEF Owes
            <4> QED
                BY <2>3, <3>1, <4>1 DEF Failing
        <3>2. CASE t # s
            <4>1. Owes(t)
                BY <2>2, <2>4, <3>2 DEF Owes, Open
            <4>2. Failing(t)
                BY <2>1, <4>1 DEF Duns
            <4> QED
                BY <2>3, <4>2 DEF Failing
        <3> QED
            BY <3>1, <3>2
    <2> QED
        BY <2>1, <2>5, <2>6, DunsMarket
<1>3. CASE NewMandate
    <2>1. Quiet /\ UNCHANGED <<row, mollie, req, owed>> /\ Duns(row)
        BY <1>0, <1>3, QuietThen DEF NewMandate, Dunning
    <2>2. PICK k : k = [kind |-> "mandate", id |-> None, paid |-> TRUE]
        OBVIOUS
    <2>3. hooks' = hooks \cup {k} /\ k.kind = "mandate"
        BY <1>3, <2>2 DEF NewMandate
    <2>4. Bookings' /\ Duns(row)'
        BY <1>0, <2>1, <2>3 DEF Bookings, Duns, Owes, Open, Failing
    <2> QED
        BY <2>1, <2>4, DunsMarket
<1>4. CASE Tick
    BY <1>4 DEF Tick, Dunning, Bookings, Presses, Duns, Owes, Open, Failing, Restoring, Fails, Quiet
<1> QED
    BY <1>1, <1>2, <1>3, <1>4 DEF Market

\* To a statement that asks for no more than the row.
RowOnly == {"idle", "fetch", "state", "stamp", "entitle", "update", "vstamp", "cget", "ccancel", "cpay", "sget", "scancel",
            "swrite", "recreate", "hget", "missing", "hwrite", "cutcancel", "fin", "finget", "finwrite"} \cup Firsts

LEMMA RowOnlyPresses ==
    ASSUME NEW r, NEW w, r.pc \in RowOnly \ {"update"}, Duns(w)
    PROVE  Presses(r, w)
BY DEF Presses, RowOnly, Restoring, Firsts, Syncs

LEMMA DeliverDuns ==
    ASSUME Types, Agreement, Dunning, Dunnable', NEW h \in Handlers, Deliver(h)
    PROVE  Dunning'
<1>1. PICK k \in hooks : Begin(h, [Idle EXCEPT !.pc = "fetch", !.hook = k]) /\ Quiet
    BY NoFault, QuietThen, Milder DEF Deliver, Agreeable, Dunnable
<1>2. PICK r : r = [Idle EXCEPT !.pc = "fetch", !.hook = k]
    OBVIOUS
<1>3. r.pc = "fetch"
    BY <1>2 DEF Idle
<1>4. Goto(h, r) /\ UNCHANGED <<row, market>> /\ Turn(h) /\ Duns(row)
    BY <1>1, <1>2 DEF Begin, Turn, Dunning, Deliver
<1>5. Presses(r, row)
    BY <1>3, <1>4, RowOnlyPresses DEF RowOnly
<1> QED
    BY <1>4, <1>5, DunsStill

LEMMA FetchDuns ==
    ASSUME Types, Agreement, Dunning, Dunnable', NEW h \in Handlers, Fetch(h)
    PROVE  Dunning'
<1>1. PICK q \in Request : q = req[h] /\ q.pc = "fetch"
    BY GoodIs DEF Fetch, At
<1>2. Turn(h) /\ Presses(q, row)
    BY <1>1, DunsNow DEF Turn
<1>3. Duns(row)
    BY <1>1, <1>2 DEF Presses, Syncs
<1>4. PICK pc \in {"existing", "state", "entitle"} : Step(h, pc)
    BY NoFault DEF Fetch
<1>5. PICK r : r = [q EXCEPT !.pc = pc]
    OBVIOUS
<1>6. r.pc = pc
    BY <1>5, Moves DEF Keeps
<1>7. Presses(r, row)
    BY <1>3, <1>6, RowOnlyPresses DEF RowOnly, Firsts
<1>8. Goto(h, r) /\ UNCHANGED <<row, market>>
    BY <1>1, <1>4, <1>5 DEF Step, Fetch
<1> QED
    BY <1>2, <1>7, <1>8, DunsStill

\* A new subscription owes nothing.
LEMMA CreateOwes ==
    ASSUME Types, Dunning, NoneOpen, NEW s \in Subs, NEW plan, NEW from, Create(s, plan, from)
    PROVE  Bookings' /\ \A t \in Subs : ~Owes(t)'
<1>1. /\ \A t \in Subs : t # s => mollie'[t] = mollie[t]
      /\ UNCHANGED <<hooks, owed>> /\ mollie[s].st = "none" /\ owed \subseteq Subs
      /\ s \notin owed
    BY DEF Create, Types, MarketOK, Dunning, Bookings
<1> QED
    BY <1>1 DEF Dunning, Bookings, Owes, NoneOpen, Open

LEMMA FirstDuns ==
    ASSUME Types, Agreement, Dunning, Dunnable', NEW h \in Handlers, First(h)
    PROVE  Dunning'
<1>0. Agreeable'
    BY Milder DEF Agreeable, Dunnable
<1>1. CASE /\ UNCHANGED market
           /\ \E r : Goto(h, r) /\ r.pc \in Firsts \cup {"done"} /\ r.hook = req[h].hook
    <2>1. PICK r : Goto(h, r) /\ r.pc # "getsub"
        BY <1>1 DEF Firsts
    <2> QED
        BY <1>0, <1>1, <2>1, FirstShape, NoneStill
<1>2. ASSUME NEW s \in Subs, Create(s, pay[req[h].hook.id].plan, now + Interval),
             Goto(h, Syncing(req[h], s, mollie'[s], "done", TRUE, FALSE))
      PROVE  Dunning'
    <2>1. NoneOpen /\ Turn(h) /\ req[h] \in Request
        BY <1>0, FirstShape, GoodIs
    <2>2. Bookings' /\ \A t \in Subs : ~Owes(t)'
        BY <1>2, <2>1, CreateOwes
    <2>3. PICK r : r = Syncing(req[h], s, mollie'[s], "done", TRUE, FALSE)
        OBVIOUS
    <2>4. r.pc = "sync"
        BY <2>1, <2>3 DEF Syncing, Request
    <2> QED
        BY <1>2, <2>1, <2>2, <2>3, <2>4, NoneOn
<1> QED
    BY <1>0, <1>1, <1>2, FirstShape

LEMMA RenewedDuns ==
    ASSUME Types, Agreement, Dunning, Dunnable', NEW h \in Handlers, Renewed(h)
    PROVE  Dunning'
<1>0. req[h].pc \in Renewals /\ Agreeable'
    BY Milder DEF Renewed, LookRenewed, StampFailed, GetRenewed, At, Renewals, Agreeable, Dunnable
<1>1. PICK q \in Request : q = req[h] /\ q.pc \in Renewals
    BY <1>0, GoodIs
<1>2. /\ Turn(h) /\ Agrees(row) /\ q.hook \in hooks /\ q.hook.kind = "renewal"
      /\ q.hook.id \in Subs /\ Open(q.hook.id) /\ row.sid = q.hook.id /\ OnlyOpen(q.hook.id)
    BY <1>0, <1>1, RenewedIs
<1>3. Presses(q, row) /\ Duns(row)
    <2>1. Presses(q, row)
        BY <1>1, <1>2, DunsNow
    <2> QED
        BY <1>1, <2>1 DEF Presses, Renewals, Syncs
<1>4. q.hook.paid \in BOOLEAN
    BY <1>2, HookIs DEF Types, MarketOK
<1>5. CASE LookRenewed(h)
    <2>1. PICK pc : /\ pc = IF q.hook.paid THEN "getsub" ELSE "stamp"
                    /\ Goto(h, [req[h] EXCEPT !.seen = row, !.pc = pc]) \/ Goto(h, [req[h] EXCEPT !.pc = pc])
        BY <1>1, <1>2, <1>5 DEF LookRenewed, Hooking, Step
    <2>2. PICK r : Goto(h, r) /\ r.hook = q.hook /\ r.pc = pc
        <3>1. PICK w : w = row
            OBVIOUS
        <3>2. [q EXCEPT !.seen = w, !.pc = pc].hook = q.hook /\ [q EXCEPT !.seen = w, !.pc = pc].pc = pc
            BY DEF Request
        <3>3. [q EXCEPT !.pc = pc].hook = q.hook /\ [q EXCEPT !.pc = pc].pc = pc
            BY DEF Request
        <3> QED
            BY <1>1, <2>1, <3>1, <3>2, <3>3
    <2>3. Presses(r, row)
        BY <1>3, <1>4, <2>1, <2>2 DEF Presses, Restoring, Syncs, Fails
    <2> QED
        BY <1>2, <1>5, <2>2, <2>3, DunsStill DEF LookRenewed
<1>6. CASE StampFailed(h)
    <2>1. PICK r : r = [q EXCEPT !.pc = "getsub"]
        OBVIOUS
    <2>2. r.pc = "getsub" /\ r.hook = q.hook
        BY <2>1, Moves DEF Keeps
    <2>3. Goto(h, r) /\ UNCHANGED market /\ row' = Stamped(row)
        BY <1>1, <1>6, <2>1, NoFault DEF StampFailed, Step
    <2>4. PICK w : w = Stamped(row)
        OBVIOUS
    <2>5. w.due # 0 /\ Duns(w)
        <3>1. row \in Row
            BY DEF Types
        <3>2. Duns(w)
            BY <1>2, <1>3, <2>4, <3>1, DunsLoaded
        <3>3. w.due # 0
            BY <2>4, <3>1, NowIsNat DEF Stamped, Row
        <3> QED
            BY <3>2, <3>3
    <2>6. Presses(r, w)
        BY <2>2, <2>5 DEF Presses, Restoring, Syncs
    <2> QED
        BY <1>2, <2>3, <2>4, <2>6, DunsStill
<1>7. CASE GetRenewed(h)
    <2>1. /\ Goto(h, Syncing(q, q.hook.id, mollie[q.hook.id], "done", q.hook.paid, ~q.hook.paid))
          /\ UNCHANGED <<row, market>> /\ q.pc = "getsub"
        BY <1>0, <1>1, <1>7, NoFault DEF GetRenewed, Hooking, At
    <2>2. PICK m : m = mollie[q.hook.id]
        OBVIOUS
    <2>3. PICK keep : keep = ~q.hook.paid
        OBVIOUS
    <2>4. PICK r : r = Syncing(q, q.hook.id, m, "done", q.hook.paid, keep)
        OBVIOUS
    <2>5. r.pc = "sync" /\ r.ret = "done" /\ r.keep = keep
        BY <2>4 DEF Syncing, Request
    <2>6. q.hook.paid => \A s \in Subs : ~Owes(s)
        BY <1>2 DEF Dunning, Bookings, Owes, OnlyOpen
    <2>7. ~q.hook.paid => row.due # 0
        BY <1>2, <1>3, <2>1 DEF Presses, Fails
    <2>8. Presses(r, row)
        BY <2>3, <2>5, <2>6, <2>7 DEF Presses, Restoring, Syncs
    <2>9. Goto(h, r)
        BY <2>1, <2>2, <2>3, <2>4
    <2> QED
        BY <1>2, <2>1, <2>8, <2>9, DunsStill
<1> QED
    BY <1>5, <1>6, <1>7 DEF Renewed

LEMMA MandateDuns ==
    ASSUME Types, Agreement, Dunning, Dunnable', NEW h \in Handlers, Mandate(h)
    PROVE  Dunning'
<1>0. req[h].pc \in {"entitle", "update", "restore"} /\ Agreeable' /\ ~EntitleBlind(h)
    <2>1. Agreeable'
        BY Milder DEF Agreeable, Dunnable
    <2> QED
        BY <2>1, NoFault DEF Mandate, Entitle, EntitleBlind, UpdateMandate, Restore, At
<1>1. PICK q \in Request : q = req[h]
    BY <1>0, GoodIs
<1>2. /\ Turn(h) /\ Stand(q) /\ Agrees(row) /\ row \in Row /\ Presses(q, row)
      /\ q.pc \in {"entitle", "update"} => Duns(row)
      /\ q.pc \in {"update", "restore"} => Duns(q.ent)
    <2>1. Turn(h) /\ Stand(q) /\ Agrees(row) /\ row \in Row
        BY <1>0, <1>1, Turned DEF Turn, Syncs, Types
    <2>2. Presses(q, row)
        BY <1>1, <2>1, DunsNow
    <2> QED
        BY <2>1, <2>2 DEF Presses, Restoring, Syncs
<1>3. CASE Entitle(h)
    <2>1. PICK e : e = Entitled(row)
        OBVIOUS
    <2>2. PICK w : w = Loaded(row)
        OBVIOUS
    <2>3. Duns(e) /\ Duns(w)
        BY <1>1, <1>2, <1>3, <2>1, <2>2, DunsLoaded DEF Entitle, At
    <2>4. PICK pc \in {"update", "restore"} : Goto(h, [q EXCEPT !.ent = e, !.id = e.sid, !.pc = pc])
        BY <1>1, <1>3, <2>1 DEF Entitle
    <2>5. PICK r : r = [q EXCEPT !.ent = e, !.id = e.sid, !.pc = pc]
        OBVIOUS
    <2>6. r.ent = e /\ r.pc = pc
        BY <2>5 DEF Request
    <2>7. Presses(r, w)
        BY <2>3, <2>6 DEF Presses, Syncs
    <2> QED
        BY <1>0, <1>2, <1>3, <2>2, <2>4, <2>5, <2>7, NoFault, DunsStill DEF Entitle
<1>4. CASE UpdateMandate(h)
    <2>0. q.pc = "update" /\ UNCHANGED <<row, market>>
        BY <1>1, <1>4 DEF UpdateMandate, At
    <2>1. CASE Goto(h, Syncing(q, q.id, mollie[q.id], "restore", FALSE, FALSE))
        <3>1. PICK m : m = mollie[q.id]
            OBVIOUS
        <3>2. PICK r : r = Syncing(q, q.id, m, "restore", FALSE, FALSE)
            OBVIOUS
        <3>3. r.pc = "sync" /\ r.ret = "restore" /\ r.ent = q.ent
            BY <3>2 DEF Syncing, Request
        <3>4. Presses(r, row)
            BY <1>2, <2>0, <3>3 DEF Presses, Syncs
        <3> QED
            BY <1>2, <2>0, <2>1, <3>1, <3>2, <3>4, DunsStill
    <2>2. CASE Step(h, "restore")
        <3>1. PICK r : r = [q EXCEPT !.pc = "restore"]
            OBVIOUS
        <3>2. r.pc = "restore" /\ r.ent = q.ent
            BY <3>1, Moves DEF Keeps
        <3>3. Presses(r, row)
            BY <1>2, <2>0, <3>2 DEF Presses, Syncs
        <3> QED
            BY <1>1, <1>2, <2>0, <2>2, <3>1, <3>3, DunsStill DEF Step
    <2> QED
        BY <1>1, <1>4, <2>1, <2>2 DEF UpdateMandate
<1>5. CASE Restore(h)
    <2>1. row' = [q.ent EXCEPT !.due = row.due] /\ Goto(h, Answered(h)) /\ UNCHANGED market /\ q.pc = "restore"
        BY <1>0, <1>1, <1>5, NoFault DEF Restore, At
    <2>2. PICK w : w = [q.ent EXCEPT !.due = row.due]
        OBVIOUS
    <2>3. Duns(w)
        <3>1. q.ent \in Row
            BY Fields
        <3>2. w.st = q.ent.st
            BY <2>2, <3>1 DEF Row
        <3> QED
            BY <1>2, <2>1, <3>2, DunsSame
    <2>4. PICK r : r = Answered(h)
        OBVIOUS
    <2>5. r.pc = "done" /\ r.hook.kind # "renewal"
        <3>1. q.hook.kind = "mandate"
            BY <1>2, <2>1 DEF Stand, Restoring
        <3> QED
            BY <1>1, <2>4, <3>1, AnsweredIs
    <2>6. Presses(r, w)
        BY <2>3, <2>5 DEF Presses, Restoring, Syncs, Fails
    <2> QED
        BY <1>2, <2>1, <2>2, <2>4, <2>6, DunsStill
<1> QED
    BY <1>0, <1>3, <1>4, <1>5 DEF Mandate

LEMMA DoneDuns ==
    ASSUME Types, Agreement, Dunning, Dunnable', NEW h \in Handlers, Done(h)
    PROVE  Dunning'
<1>0. Agreeable'
    BY Milder DEF Agreeable, Dunnable
<1>1. PICK q \in Request : q = req[h] /\ q.pc = "done"
    BY GoodIs DEF Done, At
<1>2. Turn(h) /\ Presses(q, row)
    BY <1>1, DunsNow DEF Turn
<1>3. hooks' = hooks \ {q.hook} /\ Goto(h, Idle) /\ UNCHANGED <<row, mollie, owed>>
    BY <1>0, <1>1, NoFault DEF Done, Hooking, End
<1>4. Bookings'
    BY <1>3 DEF Dunning, Bookings
<1>5. PICK w : w = row
    OBVIOUS
<1>6. Duns(w)'
    <2> SUFFICES ASSUME NEW s \in Subs, Owes(s)', w.st # "past_due" PROVE Failing(s)'
        BY DEF Duns
    <2>1. Owes(s)
        BY <1>3 DEF Owes, Open
    <2>2. ~Fails(q)
        BY <1>1, <1>2, <1>5, <2>1 DEF Presses
    <2>3. PICK k \in hooks : k.kind = "renewal" /\ k.id = s /\ ~k.paid
        BY <1>1, <1>2, <1>5, <2>1 DEF Presses, Duns, Syncs, Failing
    <2>4. k \in hooks'
        BY <1>3, <2>2, <2>3 DEF Fails
    <2> QED
        BY <2>3, <2>4 DEF Failing
<1>7. Idle.pc = "idle"
    BY DEF Idle
<1>8. PICK r : r = Idle
    OBVIOUS
<1>9. Presses(r, w)'
    BY <1>6, <1>7, <1>8 DEF Presses, Restoring, Syncs
<1> QED
    BY <1>2, <1>3, <1>4, <1>5, <1>6, <1>7, <1>8, <1>9, DunsOn

LEMMA SyncDuns ==
    ASSUME Types, Agreement, Dunning, Dunnable', NEW h \in Handlers, Sync(h)
    PROVE  Dunning'
<1>0. req[h].pc \in Syncs /\ Agreeable'
    BY Milder DEF Sync, SyncRead, SyncDue, SyncMark, SyncWrite, At, Syncs, Agreeable, Dunnable
<1>1. PICK q \in Request : q = req[h] /\ RequestOK(q) /\ q.pc \in Syncs
    BY <1>0, GoodIs
<1>2. Turn(h) /\ Stand(q) /\ Presses(q, row) /\ q.ret \in Returns
    <2>1. Turn(h)
        BY <1>1 DEF Turn, Syncs
    <2> QED
        BY <1>1, <2>1, Turned, DunsNow DEF RequestOK
<1>3. \A s \in Subs : Open(s) => q.id = s /\ q.sub = mollie[s]
    BY <1>1, <1>2 DEF Stand
<1>4. CASE SyncRead(h)
    <2>1. PICK w : w = row
        OBVIOUS
    <2>2. Goto(h, [q EXCEPT !.pc = "due", !.seen = w]) \/ Goto(h, [q EXCEPT !.pc = "due"])
        BY <1>1, <1>4, <2>1 DEF SyncRead, Step
    <2>3. PICK r : Goto(h, r) /\ r.pc = "due" /\ r.ret = q.ret /\ r.ent = q.ent /\ r.keep = q.keep
        <3>1. LET x == [q EXCEPT !.pc = "due", !.seen = w]
              IN  x.pc = "due" /\ x.ret = q.ret /\ x.ent = q.ent /\ x.keep = q.keep
            BY DEF Request
        <3>2. LET x == [q EXCEPT !.pc = "due"]
              IN  x.pc = "due" /\ x.ret = q.ret /\ x.ent = q.ent /\ x.keep = q.keep
            BY DEF Request
        <3> QED
            BY <2>2, <3>1, <3>2
    <2>4. q.pc = "sync" /\ UNCHANGED <<row, market>>
        BY <1>1, <1>4 DEF SyncRead, At
    <2>5. Presses(r, row)
        BY <1>2, <2>3, <2>4 DEF Presses, Restoring, Syncs
    <2> QED
        BY <1>2, <2>3, <2>4, <2>5, DunsStill
<1>5. CASE SyncDue(h)
    <2>1. PICK d : d = row.due
        OBVIOUS
    <2>2. PICK w : w = Payload(q, d)
        OBVIOUS
    <2>3. PICK pc \in {"write", "mark"} : Goto(h, [q EXCEPT !.seen = w, !.pc = pc])
        <3>1. Goto(h, [q EXCEPT !.seen = Payload(q, row.due),
                                !.pc = IF (Payload(q, row.due).due = 0) = (row.due = 0) THEN "write" ELSE "mark"])
            BY <1>1, <1>5, NoFault DEF SyncDue
        <3> QED
            BY <2>1, <2>2, <3>1
    <2>4. PICK r : r = [q EXCEPT !.seen = w, !.pc = pc]
        OBVIOUS
    <2>5. r.pc = pc /\ r.seen = w /\ r.ret = q.ret /\ r.ent = q.ent /\ r.keep = q.keep
        BY <2>4 DEF Request
    <2>6. q.pc = "due" /\ UNCHANGED <<row, market>>
        BY <1>1, <1>5 DEF SyncDue, At
    <2>7. ASSUME NEW s \in Subs, Owes(s), q.ret # "restore" PROVE w.st = "past_due"
        <3>1. q.sub = mollie[s] /\ Open(s)
            BY <1>3, <2>7 DEF Owes
        <3>2. mollie[s].st = "suspended" \/ (q.keep /\ d # 0)
            BY <1>2, <2>1, <2>6, <2>7 DEF Presses, Syncs
        <3> QED
            BY <2>2, <3>1, <3>2, CopyOfOpen DEF Open
    <2>8. Presses(r, row)
        BY <1>2, <2>5, <2>6, <2>7 DEF Presses, Restoring, Syncs
    <2> QED
        BY <1>2, <2>3, <2>4, <2>6, <2>8, DunsStill
<1>6. CASE SyncMark(h)
    <2>1. PICK r : r = [q EXCEPT !.pc = "write"]
        OBVIOUS
    <2>2. r.pc = "write" /\ Keeps(r, q)
        BY <2>1, Moves
    <2>3. q.pc = "mark" /\ Goto(h, r) /\ UNCHANGED market
        BY <1>1, <1>6, <2>1 DEF SyncMark, At, Step
    <2>4. PICK w : w = row'
        OBVIOUS
    <2>5. Presses(r, w)
        BY <1>2, <2>2, <2>3 DEF Presses, Restoring, Syncs, Keeps
    <2> QED
        BY <1>2, <2>3, <2>4, <2>5, DunsStill
<1>7. CASE SyncWrite(h)
    <2>1. row' = q.seen /\ Goto(h, Synced(q)) /\ UNCHANGED market /\ q.pc = "write"
        BY <1>0, <1>1, <1>7, NoFault DEF SyncWrite, At
    <2>2. PICK r : r = Synced(q)
        OBVIOUS
    <2>3. r.pc = q.ret /\ (q.ret # "idle" => r.hook = q.hook /\ r.ent = q.ent)
        BY <1>2, <2>2, SyncedIs
    <2>4. q.ret # "restore" =>
              \A s \in Subs : Owes(s) => q.seen.st = "past_due" /\ (q.ret # "done" => mollie[s].st = "suspended")
        BY <1>2, <2>1 DEF Presses, Syncs
    <2>5. q.ret = "restore" => Duns(q.ent)
        BY <1>2, <2>1 DEF Presses, Restoring, Syncs
    <2>6. PICK w : w = q.seen
        OBVIOUS
    <2>7. Presses(r, w)
        BY <1>2, <2>3, <2>4, <2>5, <2>6 DEF Presses, Restoring, Syncs, Returns, Duns
    <2> QED
        BY <1>2, <2>1, <2>2, <2>6, <2>7, DunsStill
<1> QED
    BY <1>4, <1>5, <1>6, <1>7 DEF Sync

-----------------------------------------------------------------------------
(* The restaurant's requests and the dunning *)

LEMMA OwnDunsNow ==
    ASSUME Types, Agreement, Dunning, NEW h \in Handlers, req[h].pc \in Owners
    PROVE  Duns(row) /\ Presses(req[h], row) /\ \A s \in Subs : Owes(s) => row.st = "past_due"
<1>1. Turn(h) /\ hooks = {}
    BY OwnIs
<1>2. Presses(req[h], row)
    BY <1>1, DunsNow
<1>3. Duns(row)
    BY <1>2 DEF Presses, Owners, Syncs
<1> QED
    BY <1>1, <1>2, <1>3 DEF Duns, Failing

\* The row stays, and the next statement asks for no more than the row.
LEMMA OwnDuns ==
    ASSUME Types, Agreement, Dunning, NEW h \in Handlers, req[h].pc \in Owners, NEW r, Goto(h, r),
           UNCHANGED <<row, market>>, r.pc \in RowOnly \ {"update"}
    PROVE  Dunning'
<1>1. Turn(h) /\ Duns(row)
    BY OwnIs, OwnDunsNow
<1>2. Presses(r, row)
    BY <1>1, RowOnlyPresses
<1> QED
    BY <1>1, <1>2, DunsStill

LEMMA OwnNone ==
    ASSUME Types, Agreement, Dunning, NEW h \in Handlers, req[h].pc \in Owners, NoneOpen, NEW r, Goto(h, r),
           UNCHANGED market, r.pc # "getsub"
    PROVE  Dunning'
BY OwnIs, NoneStill

LEMMA StartDuns ==
    ASSUME Types, Agreement, Dunning, Dunnable', NEW h \in Handlers, NEW op, NEW r, Start(h, op, r),
           \/ r.pc \in RowOnly \ {"update"}
           \/ r.pc = "patch" /\ Entitled(row).st = "active"
    PROVE  Dunning'
<1>1. /\ Quiet /\ hooks = {} /\ UNCHANGED market /\ Goto(h, r) /\ Turn(h) /\ Agrees(row)
      /\ Duns(row) /\ row \in Row
    BY Milder, StartIs DEF Turn, Agreeable, Dunnable, Dunning, Types
<1>2. PICK w : w = row'
    OBVIOUS
<1>3. Duns(w)
    BY <1>1, <1>2, DunsLoaded DEF Start
<1>4. CASE r.pc \in RowOnly \ {"update"}
    <2>1. Presses(r, w)
        BY <1>3, <1>4, RowOnlyPresses
    <2> QED
        BY <1>1, <1>2, <2>1, DunsStill
<1>5. CASE r.pc = "patch" /\ Entitled(row).st = "active"
    <2>1. PICK e : e = Entitled(row)
        OBVIOUS
    <2>2. Duns(e)
        BY <1>1, <2>1, DunsLoaded
    <2>3. \A s \in Subs : ~Owes(s)
        BY <1>1, <1>5, <2>1, <2>2 DEF Duns, Failing
    <2>4. Presses(r, w)
        BY <1>5, <2>3, NoneOwes
    <2> QED
        BY <1>1, <1>2, <2>4, DunsStill
<1> QED
    BY <1>4, <1>5

\* The one subscription ends at Mollie: nothing is charged that is owed.
LEMMA CancelDuns ==
    ASSUME Types, Agreement, Dunning, NEW h \in Handlers, req[h].pc \in Owners, NEW id \in Subs, OnlyOpen(id), CancelAt(id),
           NEW r, Goto(h, r), r.pc # "getsub"
    PROVE  Dunning'
<1>1. Turn(h)
    BY OwnIs
<1>2. /\ mollie' = [mollie EXCEPT ![id] = Canceled(@)] /\ UNCHANGED <<hooks, owed>>
      /\ mollie \in [Subs -> Sub] /\ owed \subseteq Subs
    BY DEF CancelAt, Types, MarketOK
<1>3. mollie'[id].st = "canceled" /\ \A s \in Subs : s # id => mollie'[s] = mollie[s]
    BY <1>2 DEF Canceled, Sub
<1>4. \A s \in Subs : ~Owes(s)'
    BY <1>3 DEF OnlyOpen, Open, Owes
<1>5. Bookings'
    BY <1>2, <1>3 DEF Dunning, Bookings
<1> QED
    BY <1>1, <1>4, <1>5, NoneOn

LEMMA CheckoutsDun ==
    ASSUME Types, Agreement, Dunning, Dunnable', NEW h \in Handlers, Checkouts(h)
    PROVE  Dunning'
<1>0. Agreeable'
    BY Milder DEF Agreeable, Dunnable
<1>1. CASE Checkout(h)
    <2>1. PICK plan, id, r :
              /\ Start(h, "checkout", r)
              /\ \/ r = [Idle EXCEPT !.pc = "cget", !.plan = plan, !.id = id]
                 \/ r = [Idle EXCEPT !.pc = "cpay", !.plan = plan]
        BY <1>1 DEF Checkout
    <2>2. r.pc = "cget" \/ r.pc = "cpay"
        BY <2>1 DEF Idle
    <2> QED
        BY <2>1, <2>2, StartDuns DEF RowOnly
<1>2. CASE CheckoutGet(h)
    <2>1. PICK q \in Request : q = req[h] /\ q.pc = "cget"
        BY <1>2, GoodIs DEF CheckoutGet, At
    <2>2. PICK r : Goto(h, r) /\ (r = [q EXCEPT !.pc = "ccancel"] \/ r = [q EXCEPT !.pc = "cpay", !.id = None])
        BY <1>2, <2>1 DEF CheckoutGet
    <2>3. r.pc = "ccancel" \/ r.pc = "cpay"
        BY <2>2 DEF Request
    <2> QED
        BY <1>2, <2>1, <2>2, <2>3, OwnDuns DEF RowOnly, Owners, CheckoutGet
<1>3. CASE CheckoutCancel(h)
    <2>1. PICK q \in Request : q = req[h] /\ q.pc = "ccancel" /\ Stand(q) /\ q.id \in Subs
        BY <1>3, OwnIs DEF CheckoutCancel, At, Owners, RequestOK
    <2>2. OnlyOpen(q.id)
        BY <2>1 DEF Stand, Aiming
    <2>3. PICK r : r = Syncing(q, q.id, Canceled(mollie[q.id]), "cpay", FALSE, FALSE)
        OBVIOUS
    <2>4. r.pc = "sync"
        BY <2>3 DEF Syncing, Request
    <2>5. CancelAt(q.id) /\ Goto(h, r)
        BY <1>0, <1>3, <2>1, <2>3, NoFault DEF CheckoutCancel
    <2> QED
        BY <2>1, <2>2, <2>4, <2>5, CancelDuns DEF Owners
<1>4. CASE CheckoutPay(h)
    <2>1. NoneOpen /\ Turn(h) /\ Goto(h, Idle) /\ UNCHANGED <<mollie, hooks, owed>>
        <3>1. Turn(h) /\ Stand(req[h]) /\ req[h].pc = "cpay"
            BY <1>4, OwnIs DEF CheckoutPay, At, Owners
        <3> QED
            BY <1>4, <3>1 DEF CheckoutPay, End, Stand, Ending
    <2>2. Bookings' /\ \A s \in Subs : ~Owes(s)'
        BY <2>1 DEF Dunning, Bookings, NoneOpen, Owes, Open
    <2>3. Idle.pc # "getsub"
        BY DEF Idle
    <2> QED
        BY <2>1, <2>2, <2>3, NoneOn
<1>5. ~CheckoutBlind(h) /\ ~CheckoutCustomer(h)
    BY <1>0, NoFault DEF CheckoutBlind, CheckoutCustomer, At, Agreement, Stand
<1> QED
    BY <1>1, <1>2, <1>3, <1>4, <1>5 DEF Checkouts

LEMMA ManagingDuns ==
    ASSUME Types, Agreement, Dunning, Dunnable', NEW h \in Handlers, Managing(h)
    PROVE  Dunning'
<1>0. Idle.pc = "idle"
    BY DEF Idle
<1>1. CASE CancelPlan(h)
    <2>1. PICK e : Start(h, "cancel", [Idle EXCEPT !.pc = "sget", !.ent = e])
        BY <1>1 DEF CancelPlan
    <2>2. [Idle EXCEPT !.pc = "sget", !.ent = e].pc = "sget"
        BY DEF Idle
    <2> QED
        BY <2>1, <2>2, StartDuns DEF RowOnly
<1>2. CASE CancelGet(h)
    <2>1. PICK q \in Request : q = req[h] /\ q.pc = "sget"
        BY <1>2, GoodIs DEF CancelGet, At
    <2>2. PICK pc \in {"scancel", "swrite"} :
              \E end : Goto(h, [q EXCEPT !.pc = pc, !.ent.end = end]) \/ Goto(h, [q EXCEPT !.pc = pc])
        BY <1>2, <2>1 DEF CancelGet, Step
    <2>3. PICK r : Goto(h, r) /\ r.pc = pc
        <3>1. \A end : [q EXCEPT !.pc = pc, !.ent.end = end].pc = pc /\ [q EXCEPT !.pc = pc].pc = pc
            BY DEF Request
        <3> QED
            BY <2>2, <3>1
    <2> QED
        BY <1>2, <2>1, <2>3, OwnDuns DEF RowOnly, Owners, CancelGet
<1>3. CASE CancelMollie(h)
    <2>1. PICK q \in Request : q = req[h] /\ q.pc = "scancel" /\ Stand(q) /\ q.ent.sid \in Subs
        BY <1>3, OwnIs DEF CancelMollie, At, Owners, RequestOK
    <2>2. OnlyOpen(q.ent.sid)
        BY <2>1 DEF Stand
    <2>3. PICK r : r = [q EXCEPT !.pc = "swrite"]
        OBVIOUS
    <2>4. r.pc = "swrite"
        BY <2>3 DEF Request
    <2>5. CancelAt(q.ent.sid) /\ Goto(h, r)
        BY <1>3, <2>1, <2>3 DEF CancelMollie, Step
    <2> QED
        BY <2>1, <2>2, <2>4, <2>5, CancelDuns DEF Owners
<1>4. CASE CancelWrite(h)
    <2>1. req[h].pc = "swrite" /\ Stand(req[h])
        BY <1>4, OwnIs DEF CancelWrite, At, Owners
    <2>2. NoneOpen
        BY <2>1 DEF Stand, Ending
    <2> QED
        BY <1>0, <1>4, <2>1, <2>2, OwnNone DEF Owners, CancelWrite, End
<1>5. ASSUME NEW op, NEW plan, NEW id, NEW e, NEW pc,
             Start(h, op, [Idle EXCEPT !.pc = pc, !.plan = plan, !.id = id, !.ent = e]),
             pc = "recreate" \/ (pc = "patch" /\ Entitled(row).st = "active")
      PROVE  Dunning'
    <2>1. PICK r : r = [Idle EXCEPT !.pc = pc, !.plan = plan, !.id = id, !.ent = e]
        OBVIOUS
    <2>2. r.pc = pc
        BY <2>1 DEF Idle
    <2>3. Start(h, op, r)
        BY <1>5, <2>1
    <2> QED
        BY <1>5, <2>2, <2>3, StartDuns DEF RowOnly
<1>6. CASE UndoCancel(h)
    BY <1>5, <1>6 DEF UndoCancel
<1>7. CASE ChangePlan(h)
    BY <1>5, <1>7 DEF ChangePlan
<1>8. CASE Recreate(h)
    <2>1. PICK q \in Request : q = req[h] /\ q.pc = "recreate" /\ Stand(q) /\ Turn(h)
        BY <1>8, OwnIs DEF Recreate, At, Owners
    <2>2. NoneOpen
        BY <2>1 DEF Stand, Ending
    <2>3. PICK s \in Subs : /\ Create(s, q.plan, Later(q.ent.end, now))
                            /\ Goto(h, Syncing(Idle, s, mollie'[s], "idle", FALSE, FALSE))
        BY <1>8, <2>1 DEF Recreate
    <2>4. Bookings' /\ \A t \in Subs : ~Owes(t)'
        BY <2>2, <2>3, CreateOwes
    <2>5. PICK r : r = Syncing(Idle, s, mollie'[s], "idle", FALSE, FALSE)
        OBVIOUS
    <2>6. r.pc = "sync"
        BY <2>5 DEF Syncing, Idle
    <2> QED
        BY <2>1, <2>3, <2>4, <2>5, <2>6, NoneOn
<1>9. CASE Patch(h)
    <2>1. PICK q \in Request : q = req[h] /\ q.pc = "patch" /\ Presses(q, row) /\ Turn(h)
        BY <1>9, OwnIs, OwnDunsNow DEF Patch, At, Owners
    <2>2. \A s \in Subs : ~Owes(s)
        BY <2>1 DEF Presses
    <2>3. /\ mollie' = [mollie EXCEPT ![q.id].plan = q.plan] /\ UNCHANGED <<hooks, owed>>
          /\ Goto(h, Syncing(Idle, q.id, mollie'[q.id], "idle", FALSE, FALSE))
          /\ q.id \in Subs
        BY <1>9, <2>1 DEF Patch, Real
    <2>4. \A s \in Subs : mollie'[s].st = mollie[s].st
        BY <2>3 DEF Types, MarketOK, Sub
    <2>5. Bookings' /\ \A s \in Subs : ~Owes(s)'
        <3>1. owed \subseteq Subs
            BY DEF Types, MarketOK
        <3> QED
            BY <2>2, <2>3, <2>4, <3>1 DEF Dunning, Bookings, Owes, Open
    <2>6. PICK r : r = Syncing(Idle, q.id, mollie'[q.id], "idle", FALSE, FALSE)
        OBVIOUS
    <2>7. r.pc = "sync"
        BY <2>6 DEF Syncing, Idle
    <2> QED
        BY <2>1, <2>3, <2>5, <2>6, <2>7, NoneOn
<1>10. CASE PatchRefused(h)
    BY <1>0, <1>10, OwnDuns DEF RowOnly, Owners, PatchRefused, At, End
<1> QED
    BY <1>1, <1>2, <1>3, <1>4, <1>6, <1>7, <1>8, <1>9, <1>10 DEF Managing

LEMMA HealthChecksDun ==
    ASSUME Types, Agreement, Dunning, Dunnable', NEW h \in Handlers, HealthChecks(h)
    PROVE  Dunning'
<1>0. Agreeable' /\ Idle.pc = "idle"
    BY Milder DEF Agreeable, Dunnable, Idle
<1>1. ASSUME NEW pc \in Owners, req[h].pc = pc
      PROVE  \E q \in Request : /\ q = req[h] /\ q.pc = pc /\ Stand(q) /\ Presses(q, row) /\ Turn(h) /\ hooks = {}
                                /\ RequestOK(q)
    BY <1>1, OwnIs, OwnDunsNow
<1>2. CASE Health(h)
    <2>1. PICK id, r : /\ Start(h, "health", r)
                       /\ r = [Idle EXCEPT !.pc = "fin"] \/ r = [Idle EXCEPT !.pc = "hget", !.id = id]
        BY <1>2 DEF Health
    <2>2. r.pc = "fin" \/ r.pc = "hget"
        BY <2>1 DEF Idle
    <2> QED
        BY <2>1, <2>2, StartDuns DEF RowOnly
\* Copying what Mollie has answered: what is owed is suspended.
<1>3. ASSUME NEW q \in Request, q = req[h], q.pc \in Owners, UNCHANGED <<row, market>>,
             NEW m, NEW ret \in {"cut", "fin"}, NEW clear, Goto(h, Syncing(q, q.id, m, ret, clear, FALSE)),
             \A s \in Subs : Owes(s) => mollie[s].st = "suspended"
      PROVE  Dunning'
    <2>1. PICK r : r = Syncing(q, q.id, m, ret, clear, FALSE)
        OBVIOUS
    <2>2. r.pc = "sync" /\ r.ret = ret
        BY <2>1 DEF Syncing, Request
    <2>3. Presses(r, row)
        BY <1>3, <2>2 DEF Presses, Restoring, Syncs
    <2>4. Turn(h)
        BY <1>3, OwnIs
    <2> QED
        BY <1>3, <2>1, <2>3, <2>4, DunsStill
<1>4. CASE HealthGet(h)
    <2>1. PICK q \in Request : q = req[h] /\ q.pc = "hget" /\ Stand(q)
        BY <1>1, <1>4 DEF HealthGet, At, Owners
    <2>2. OnlyOpen(q.id) /\ UNCHANGED <<row, market>>
        BY <1>4, <2>1 DEF Stand, Aiming, HealthGet
    <2>3. CASE Real(q.id)
        <3>1. Goto(h, Syncing(q, q.id, mollie[q.id], "cut", FALSE, FALSE))
            BY <1>0, <1>4, <2>1, <2>3, NoFault DEF HealthGet
        <3>2. ~(mollie[q.id].st = "active" /\ row.st = "past_due")
            <4>1. Happens(IF Real(q.id) /\ mollie[q.id].st = "active" /\ row.st = "past_due"
                          THEN {"forgiven"} ELSE {})
                BY <1>0, <1>4, <2>1, NoFault DEF HealthGet
            <4> QED
                BY <2>3, <4>1 DEF Happens, Dunnable, Harmless
        <3>3. \A s \in Subs : Owes(s) => mollie[s].st = "suspended"
            <4>1. \A s \in Subs : Owes(s) => s = q.id /\ row.st = "past_due"
                BY <2>1, <2>2, OwnDunsNow DEF OnlyOpen, Owes, Owners
            <4> QED
                BY <3>2, <4>1 DEF Owes, Open
        <3> QED
            BY <1>3, <2>1, <2>2, <3>1, <3>3 DEF Owners
    <2>4. CASE ~Real(q.id)
        <3>1. PICK r : r = [q EXCEPT !.pc = "missing"]
            OBVIOUS
        <3>2. r.pc = "missing" /\ Goto(h, r)
            BY <1>0, <1>4, <2>1, <2>4, <3>1, NoFault DEF HealthGet, Request
        <3> QED
            BY <2>1, <2>2, <3>2, OwnDuns DEF RowOnly, Owners
    <2> QED
        BY <2>3, <2>4
<1>5. CASE HealthMissing(h)
    <2>1. PICK q \in Request : q = req[h] /\ q.pc = "missing" /\ Stand(q)
        BY <1>1, <1>5 DEF HealthMissing, At, Owners
    <2>2. NoneOpen
        BY <2>1 DEF Stand, Ending
    <2>3. PICK r : Goto(h, r) /\ (r = [q EXCEPT !.pc = "cut", !.id = None] \/ r = [q EXCEPT !.pc = "hwrite"])
        BY <1>5, <2>1 DEF HealthMissing, Step
    <2>4. r.pc # "getsub"
        BY <2>3 DEF Request
    <2> QED
        BY <1>5, <2>1, <2>2, <2>3, <2>4, OwnNone DEF HealthMissing, Owners
<1>6. CASE HealthWrite(h)
    <2>1. PICK q \in Request : q = req[h] /\ q.pc = "hwrite" /\ Stand(q)
        BY <1>1, <1>6 DEF HealthWrite, At, Owners
    <2>2. NoneOpen
        BY <2>1 DEF Stand, Ending
    <2>3. [q EXCEPT !.pc = "cut", !.id = None].pc = "cut"
        BY DEF Request
    <2> QED
        BY <1>6, <2>1, <2>2, <2>3, OwnNone DEF HealthWrite, Owners
<1>7. CASE Cut(h)
    <2>1. PICK q \in Request : q = req[h] /\ q.pc = "cut" /\ Presses(q, row) /\ Turn(h)
        BY <1>1, <1>7 DEF Cut, At, Owners
    <2>2. PICK id, r : Goto(h, r) /\ (r = [q EXCEPT !.pc = "cutget", !.id = id] \/ r = [q EXCEPT !.pc = "fin"])
        BY <1>7, <2>1 DEF Cut
    <2>3. r.pc = "cutget" \/ r.pc = "fin"
        BY <2>2 DEF Request
    <2>4. Presses(r, row)
        BY <2>1, <2>3 DEF Presses, Restoring, Syncs
    <2> QED
        BY <1>7, <2>1, <2>2, <2>4, DunsStill DEF Cut
<1>8. CASE CutGet(h)
    <2>1. PICK q \in Request : q = req[h] /\ q.pc = "cutget" /\ Presses(q, row)
        BY <1>1, <1>8 DEF CutGet, At, Owners
    <2>2. UNCHANGED <<row, market>>
        BY <1>8 DEF CutGet
    <2>3. \A s \in Subs : Owes(s) => mollie[s].st = "suspended"
        BY <2>1 DEF Presses
    <2>4. PICK r : \/ Goto(h, r) /\ (r = [q EXCEPT !.pc = "fin", !.id = None] \/ r = [q EXCEPT !.pc = "cutcancel"])
                   \/ Goto(h, Syncing(q, q.id, mollie[q.id], "fin", mollie[q.id].st = "active", FALSE))
        BY <1>8, <2>1 DEF CutGet
    <2>5. CASE Goto(h, Syncing(q, q.id, mollie[q.id], "fin", mollie[q.id].st = "active", FALSE))
        <3>1. PICK m, clear : m = mollie[q.id] /\ clear = (mollie[q.id].st = "active")
            OBVIOUS
        <3> QED
            BY <1>3, <2>1, <2>2, <2>3, <2>5, <3>1 DEF Owners
    <2>6. CASE Goto(h, r) /\ (r = [q EXCEPT !.pc = "fin", !.id = None] \/ r = [q EXCEPT !.pc = "cutcancel"])
        <3>1. r.pc = "fin" \/ r.pc = "cutcancel"
            BY <2>6 DEF Request
        <3> QED
            BY <2>1, <2>2, <2>6, <3>1, OwnDuns DEF RowOnly, Owners
    <2> QED
        BY <2>4, <2>5, <2>6
<1>9. CASE CutCancel(h)
    <2>1. PICK q \in Request : q = req[h] /\ q.pc = "cutcancel" /\ Stand(q) /\ q.id \in Subs
        BY <1>1, <1>9 DEF CutCancel, At, Owners, RequestOK
    <2>2. OnlyOpen(q.id)
        BY <2>1 DEF Stand, Aiming
    <2>3. PICK r : r = Syncing(q, q.id, Canceled(mollie[q.id]), "fin", FALSE, FALSE)
        OBVIOUS
    <2>4. r.pc = "sync"
        BY <2>3 DEF Syncing, Request
    <2>5. CancelAt(q.id) /\ Goto(h, r)
        BY <1>0, <1>9, <2>1, <2>3, NoFault DEF CutCancel
    <2> QED
        BY <2>1, <2>2, <2>4, <2>5, CancelDuns DEF Owners
<1>10. CASE Fin(h)
    <2>1. PICK q \in Request : q = req[h] /\ q.pc = "fin"
        BY <1>1, <1>10 DEF Fin, At, Owners
    <2>2. PICK id, r : Goto(h, r) /\ (r = [q EXCEPT !.pc = "finget", !.id = id] \/ r = Idle)
        BY <1>10, <2>1 DEF Fin
    <2>3. r.pc = "finget" \/ r.pc = "idle"
        BY <1>0, <2>2 DEF Request
    <2> QED
        BY <1>10, <2>1, <2>2, <2>3, OwnDuns DEF Fin, RowOnly, Owners
<1>11. CASE FinCancel(h)
    <2>1. PICK q \in Request : q = req[h] /\ q.pc = "finget" /\ Stand(q)
        BY <1>1, <1>11 DEF FinCancel, At, Owners
    <2>2. NoneOpen
        BY <2>1 DEF Stand, Ending
    <2>3. PICK r : r = [q EXCEPT !.pc = "finwrite"]
        OBVIOUS
    <2>4. r.pc = "finwrite" /\ Goto(h, r) /\ UNCHANGED market
        BY <1>11, <2>1, <2>2, <2>3 DEF FinCancel, Real, NoneOpen, Step, Request
    <2> QED
        BY <2>1, <2>2, <2>4, OwnNone DEF Owners
<1>12. CASE FinWrite(h)
    <2>1. PICK q \in Request : q = req[h] /\ q.pc = "finwrite" /\ Stand(q)
        BY <1>1, <1>12 DEF FinWrite, At, Owners
    <2>2. NoneOpen
        BY <2>1 DEF Stand, Ending
    <2> QED
        BY <1>0, <1>12, <2>1, <2>2, OwnNone DEF FinWrite, End, Owners
<1> QED
    BY <1>2, <1>4, <1>5, <1>6, <1>7, <1>8, <1>9, <1>10, <1>11, <1>12 DEF HealthChecks

LEMMA VisitsDun ==
    ASSUME Types, Agreement, Dunning, Dunnable', NEW h \in Handlers, Visit(h) \/ VisitBlind(h) \/ VisitStamp(h)
    PROVE  Dunning'
<1>0. Idle.pc = "idle" /\ ~VisitBlind(h)
    BY NoFault, Milder DEF Idle, VisitBlind, Agreeable, Dunnable
<1>1. CASE Visit(h)
    <2>1. PICK id, r : /\ Start(h, "visit", r)
                       /\ r = [Idle EXCEPT !.pc = "vstamp"] \/ r = [Idle EXCEPT !.pc = "finwrite", !.id = id]
        BY <1>1 DEF Visit
    <2>2. r.pc = "vstamp" \/ r.pc = "finwrite"
        BY <2>1 DEF Idle
    <2> QED
        BY <2>1, <2>2, StartDuns DEF RowOnly
<1>2. CASE VisitStamp(h)
    <2>1. Turn(h) /\ Duns(row) /\ row \in Row /\ Agrees(row)
        BY <1>2, OwnIs, OwnDunsNow DEF VisitStamp, At, Owners, Types
    <2>2. PICK w : w = Stamped(row)
        OBVIOUS
    <2>3. Duns(w)
        BY <2>1, <2>2, DunsLoaded
    <2>4. Presses(Idle, w)
        BY <1>0, <2>3, IdlePresses
    <2> QED
        BY <1>2, <2>1, <2>2, <2>4, DunsStill DEF VisitStamp, End
<1> QED
    BY <1>0, <1>1, <1>2

LEMMA InitDunning == Init => Dunning
<1> SUFFICES ASSUME Init PROVE Dunning
    OBVIOUS
<1>1. owed = {} /\ Idle.pc = "idle" /\ \A h \in Handlers : req[h] = Idle
    BY DEF Init, Idle
<1> QED
    BY <1>1 DEF Dunning, Bookings, Duns, Owes

LEMMA NextDuns ==
    ASSUME Types, Agreement, Dunning, Dunnable', [Next]_vars
    PROVE  Dunning'
<1>1. CASE UNCHANGED vars
    BY <1>1 DEF vars, market, Dunning, Bookings, Presses, Duns, Owes, Open, Failing, Restoring, Fails, Quiet
<1>2. CASE Market
    BY <1>2, MarketDuns
<1>3. ASSUME NEW h \in Handlers, Webhook(h) PROVE Dunning'
    BY <1>3, DeliverDuns, FetchDuns, FirstDuns, RenewedDuns, MandateDuns, DoneDuns DEF Webhook
<1>4. ASSUME NEW h \in Handlers, Sync(h) \/ Checkouts(h) \/ Managing(h) \/ HealthChecks(h) PROVE Dunning'
    BY <1>4, SyncDuns, CheckoutsDun, ManagingDuns, HealthChecksDun
<1>5. ASSUME NEW h \in Handlers, Visit(h) \/ VisitBlind(h) \/ VisitStamp(h) \/ NotFound(h) \/ Vanish(h)
      PROVE  Dunning'
    <2>1. Agreeable'
        BY Milder DEF Agreeable, Dunnable
    <2> QED
        BY <1>5, <2>1, VisitsDun, AlwaysFound, NoFault DEF Vanish
<1> QED
    BY <1>1, <1>2, <1>3, <1>4, <1>5 DEF Next

\* As long as no health check forgives it, the row says what has failed.
LEMMA StaysDunned == Spec => [](Types /\ (Agreeable => Agreement) /\ (Dunnable => Dunning))
<1>1. Init => Types /\ (Agreeable => Agreement) /\ (Dunnable => Dunning)
    BY InitTypes, InitAgreement, InitDunning
<1>2. Types /\ (Agreeable => Agreement) /\ (Dunnable => Dunning) /\ [Next]_vars
      => (Types /\ (Agreeable => Agreement) /\ (Dunnable => Dunning))'
    BY NextTypes, NextAgrees, NextDuns, StillUndisturbed, Milder
<1> QED
    BY <1>1, <1>2, PTL DEF Spec

\* A restaurant whose charge has failed is dunned until it pays.
THEOREM FailedChargesAreDunned == Spec => []UnpaidIsDunned
<1>1. Types /\ (Agreeable => Agreement) /\ (Dunnable => Dunning) => UnpaidIsDunned
    <2> SUFFICES ASSUME Types, Dunning, Settled, NEW s \in owed, Open(s) PROVE row.st = "past_due"
        BY DEF UnpaidIsDunned, Dunnable
    <2>1. Duns(row) /\ hooks = {} /\ s \in Subs
        BY DEF Dunning, Settled, Types, MarketOK
    <2> QED
        BY <2>1 DEF Duns, Owes, Failing
<1> QED
    BY <1>1, StaysDunned, PTL

-----------------------------------------------------------------------------
(* The steps and what was paid for *)

LEMMA NowOrLater ==
    ASSUME Types
    PROVE  /\ now \in Nat /\ now >= 1 /\ paidUntil \in Nat /\ Interval \in Nat /\ Interval > 0
           /\ \A s \in Subs : mollie[s].next \in Nat
<1>1. now \in Nat /\ now >= 1 /\ paidUntil \in Nat /\ mollie \in [Subs -> Sub]
    BY NowIsNat DEF Types, MarketOK
<1> QED
    BY <1>1, BoundsAreNat DEF Sub

LEMMA ServesNow ==
    ASSUME Types, Agreement, Serving, NEW h \in Handlers, Turn(h)
    PROVE  Unclaimed(req[h], row) /\ Covers(req[h], row)
<1>1. CASE req[h].pc # "idle"
    BY <1>1 DEF Serving
<1>2. CASE Quiet
    <2>1. req[h].pc = "idle" /\ Rests(row)
        BY <1>2, AllIdle DEF Serving
    <2> QED
        BY <2>1 DEF Unclaimed, Covers, Rests, Unpaid, Restoring, Holding, Syncs
<1> QED
    BY <1>1, <1>2 DEF Turn

LEMMA ServesOn ==
    ASSUME Types, Agreement, Serving, NEW h \in Handlers, Turn(h), NEW r, Goto(h, r), Terms',
           NEW w, w = row', Unclaimed(r, w), Covers(r, w)', r.pc = "idle" => Rests(w)'
    PROVE  Serving'
<1>1. req'[h] = r /\ \A g \in Handlers : g # h => req'[g].pc = "idle"
    BY Turns
<1>2. Unclaimed(r, row)' /\ Covers(r, row)' /\ (r.pc = "idle" => Rests(row)')
    BY DEF Unclaimed, Holding, Restoring, Covers, Copies, Firm, Serves, Rests
<1>3. \A g \in Handlers : req'[g].pc # "idle" => Unclaimed(req[g], row)' /\ Covers(req[g], row)'
    BY <1>1, <1>2
<1>4. Quiet' => Rests(row)'
    <2>1. Idle.pc = "idle"
        BY DEF Idle
    <2>2. Quiet' => r.pc = "idle"
        BY <1>1, <2>1 DEF Quiet
    <2> QED
        BY <1>2, <2>2
<1> QED
    BY <1>3, <1>4 DEF Serving

LEMMA StillPaid ==
    ASSUME UNCHANGED market
    PROVE  /\ Due' = Due /\ Terms' = Terms
           /\ \A w : Serves(w)' = Serves(w) /\ Firm(w)' = Firm(w) /\ Rests(w)' = Rests(w)
           /\ \A r, w : Covers(r, w)' = Covers(r, w)
BY DEF market, Due, Terms, Serves, Firm, Rests, Covers, Unpaid, Restoring, Copies, Over, Renewing, FirstCalled

LEMMA IdleRests ==
    ASSUME NEW r, r.pc = "idle", NEW w, Rests(w)
    PROVE  Unclaimed(r, w) /\ Covers(r, w)
BY DEF Unclaimed, Covers, Rests, Unpaid, Restoring, Holding, Syncs

LEMMA RestsIdle ==
    ASSUME NEW r, r.pc = "idle", NEW w, Unclaimed(r, w), Covers(r, w)
    PROVE  Rests(w)
BY DEF Unclaimed, Covers, Rests, Holding, Syncs

\* A step that leaves the market alone.
LEMMA ServesStill ==
    ASSUME Types, Agreement, Serving, NEW h \in Handlers, Turn(h), NEW r, Goto(h, r), UNCHANGED market,
           NEW w, w = row', Unclaimed(r, w), Covers(r, w)
    PROVE  Serving'
<1>1. Covers(r, w)' /\ Terms' /\ (r.pc = "idle" => Rests(w)')
    BY StillPaid, RestsIdle DEF Serving
<1> QED
    BY <1>1, ServesOn

\* After the period that was paid for, nothing is promised.
LEMMA Past == ASSUME ~Due, NEW r, NEW w PROVE Covers(r, w)
BY DEF Covers

\* A row but for its stamp.
LEMMA ServesSame ==
    ASSUME NEW v, NEW w, w.plan = v.plan, w.sid = v.sid, w.soft = v.soft, w.st = v.st, w.end = v.end
    PROVE  (Serves(w) <=> Serves(v)) /\ (Firm(w) <=> Firm(v))
BY DEF Serves, Firm

LEMMA StampedIs ==
    ASSUME NEW w \in Row, NEW x, x = Stamped(w) \/ \E d : x = [w EXCEPT !.due = d]
    PROVE  x.plan = w.plan /\ x.sid = w.sid /\ x.soft = w.soft /\ x.st = w.st /\ x.end = w.end
<1>1. \E d : x = [w EXCEPT !.due = d] \/ x = w
    BY DEF Stamped
<1> QED
    BY <1>1 DEF Row

\* What a visit writes of a plan that is paid for, and what is made of it.
LEMMA ServesLoaded ==
    ASSUME Types, NEW w \in Row
    PROVE  /\ Entitled(w).sid = w.sid /\ Loaded(w).sid = w.sid
           /\ Due /\ Serves(w) => Serves(Loaded(w)) /\ Entitled(w) = w /\ ~PeriodOver(w)
<1>1. Entitled(w).sid = w.sid
    BY DEF Entitled, Row
<1>2. Loaded(w).sid = w.sid
    <2>1. Ended(w.sid).sid = w.sid
        BY DEF Ended, NewRow
    <2>2. Stamped(w).sid = w.sid
        BY StampedIs
    <2> QED
        BY <2>1, <2>2 DEF Loaded
<1>3. ASSUME Due, Serves(w) PROVE Serves(Loaded(w)) /\ Entitled(w) = w /\ ~PeriodOver(w)
    <2>1. ~PeriodOver(w)
        <3>1. w.soft => w.end >= paidUntil
            BY <1>3 DEF Serves
        <3> QED
            BY <1>3, <3>1, NowOrLater, RowFields DEF PeriodOver, Due
    <2>2. Loaded(w) = w \/ Loaded(w) = Stamped(w)
        BY <2>1 DEF Loaded
    <2>3. Serves(Stamped(w))
        BY <1>3, StampedIs, ServesSame
    <2> QED
        BY <1>3, <2>1, <2>2, <2>3 DEF Entitled
<1> QED
    BY <1>1, <1>2, <1>3

LEMMA ServesMarket ==
    ASSUME Types, Serving, Quiet, UNCHANGED <<row, req>>, Terms', Due' /\ ~FirstCalled' => Serves(row)'
    PROVE  Serving'
<1>1. Idle.pc = "idle" /\ Rests(row)
    BY DEF Idle, Serving
<1>2. Rests(row)'
    BY <1>1 DEF Rests
<1> QED
    BY <1>1, <1>2 DEF Serving, Quiet

LEMMA MarketServes == ASSUME Types, Agreement, Serving, Servable', Market PROVE Serving'
<1>0. /\ mollie \in [Subs -> Sub] /\ hooks \subseteq Hook /\ Agreeable' /\ Terms
    BY Milder DEF Types, MarketOK, Serving, Servable, Agreeable
<1>1. ASSUME NEW p \in Pays, PayFirst(p) PROVE Serving'
    <2>1. /\ Quiet /\ NoneOpen /\ UNCHANGED <<row, mollie, req, now>>
          /\ hooks' = hooks \cup {[kind |-> "first", id |-> p, paid |-> TRUE]}
          /\ paidUntil' = Later(paidUntil, now + Interval)
        BY <1>0, <1>1, NoneToPay DEF PayFirst
    <2>2. PICK k : k = [kind |-> "first", id |-> p, paid |-> TRUE]
        OBVIOUS
    <2>3. hooks' = hooks \cup {k} /\ k.kind = "first"
        BY <2>1, <2>2
    <2>4. \A j \in hooks : j.kind # "renewal"
        <3>1. \A j \in hooks : j.kind = "renewal" => j.id \in Subs
            BY <1>0, HookIs
        <3> QED
            BY <2>1, <3>1 DEF Agreement, Orders, NoneOpen
    <2>5. paidUntil' = now + Interval
        BY <1>0, <2>1, NowOrLater DEF Terms, Later
    <2>6. Terms'
        BY <1>0, <2>1, <2>3, <2>4, <2>5, NowOrLater DEF Terms, NoneOpen, Open
    <2>7. FirstCalled'
        BY <2>3 DEF FirstCalled
    <2> QED
        BY <2>1, <2>6, <2>7, ServesMarket
\* Of a charge, or of what was suspended and is paid.
<1>2. ASSUME NEW s \in Subs, Charge(s) \/ Recover(s) PROVE Serving'
    <2>1. Quiet /\ UNCHANGED <<row, req, now>> /\ Open(s) /\ ~Hooked(s) /\ Agrees(row)
        BY <1>0, <1>2, QuietThen, QuietAgrees DEF Charge, Recover, Open
    <2>2. \A t \in Subs : Open(t) => t = s
        BY <2>1 DEF Agrees
    <2>3. \A j \in hooks : j.kind # "renewal"
        <3>1. \A j \in hooks : j.kind = "renewal" => j.id \in Subs
            BY <1>0, HookIs
        <3> QED
            BY <2>1, <2>2, <3>1 DEF Agreement, Orders, Hooked
    <2>4. PICK paid \in BOOLEAN, next \in Nat :
              /\ hooks' = Renewal(s, paid)
              /\ paid => mollie'[s].st = "active" /\ mollie'[s].next = next /\ paidUntil' = next /\ next <= now + Interval
              /\ ~paid => /\ UNCHANGED paidUntil /\ ~Due
                          /\ mollie'[s].st \in {"active", "suspended"}
                          /\ mollie'[s].st = "active" => mollie'[s].next >= paidUntil
              /\ \A t \in Subs : t # s => mollie'[t] = mollie[t]
        <3>1. PICK m \in Sub : m = mollie[s]
            BY <1>0
        <3>2. m.next \in Nat /\ (m.st = "active" => m.next >= paidUntil)
            BY <1>0, <3>1, SubFields DEF Terms
        <3>3. CASE Recover(s)
            <4>1. /\ mollie' = [mollie EXCEPT ![s].st = "active", ![s].next = now + Interval]
                  /\ hooks' = Renewal(s, TRUE)
                  /\ paidUntil' = Later(paidUntil, now + Interval)
                BY <3>3 DEF Recover
            <4>2. mollie'[s].st = "active" /\ mollie'[s].next = now + Interval /\ \A t \in Subs : t # s => mollie'[t] = mollie[t]
                BY <1>0, <4>1 DEF Sub
            <4>3. paidUntil' = now + Interval /\ now + Interval \in Nat
                BY <1>0, <4>1, NowOrLater DEF Terms, Later
            <4>4. now + Interval <= now + Interval
                BY <4>3
            <4> QED
                BY <4>1, <4>2, <4>3, <4>4
        <3>4. CASE /\ Charge(s)
                   /\ mollie' = [mollie EXCEPT ![s].next = @ + Interval]
                   /\ hooks' = Renewal(s, TRUE)
                   /\ paidUntil' = Later(paidUntil, mollie[s].next + Interval)
            <4>1. m.st = "active" /\ m.next <= now
                BY <3>1, <3>4 DEF Charge
            <4>2. mollie'[s].st = "active" /\ mollie'[s].next = m.next + Interval /\ \A t \in Subs : t # s => mollie'[t] = mollie[t]
                BY <1>0, <3>1, <3>4, <4>1 DEF Sub
            <4>3. paidUntil' = m.next + Interval /\ m.next + Interval \in Nat /\ m.next + Interval <= now + Interval
                BY <3>1, <3>2, <3>4, <4>1, NowOrLater DEF Later
            <4> QED
                BY <3>4, <4>2, <4>3
        <3>5. CASE /\ Charge(s)
                   /\ mollie' \in {[mollie EXCEPT ![s].next = @ + Interval],
                                   [mollie EXCEPT ![s].st = "suspended", ![s].next = 0]}
                   /\ hooks' = Renewal(s, FALSE)
                   /\ UNCHANGED paidUntil
            <4>1. m.st = "active" /\ m.next <= now
                BY <3>1, <3>5 DEF Charge
            <4>2. ~Due
                BY <3>2, <4>1, NowOrLater DEF Due
            <4>3. /\ mollie'[s].st \in {"active", "suspended"}
                  /\ mollie'[s].st = "active" => mollie'[s].next = m.next + Interval
                  /\ \A t \in Subs : t # s => mollie'[t] = mollie[t]
                BY <1>0, <3>1, <3>5, <4>1 DEF Sub
            <4>4. m.next + Interval >= paidUntil
                BY <3>2, <4>1, NowOrLater
            <4> QED
                BY <3>2, <3>5, <4>2, <4>3, <4>4
        <3> QED
            BY <1>2, <3>3, <3>4, <3>5 DEF Charge
    <2>5. PICK k \in Hook : k.kind = "renewal" /\ k.id = s /\ k.paid = paid /\ hooks' = hooks \cup {k}
        BY <2>4, HookMakes DEF Renewal
    <2>6. Terms'
        <3>1. paidUntil' <= now' + Interval
            BY <1>0, <2>1, <2>4 DEF Terms
        <3>2. ~paid => ~Due'
            BY <2>1, <2>4 DEF Due
        <3>3. /\ mollie'[s].st = "active" => mollie'[s].next >= paidUntil'
              /\ mollie'[s].st = "suspended" => ~Due'
              /\ mollie'[s].st # "canceled"
            BY <2>4, <3>2
        <3>4. ASSUME NEW t \in Subs, t # s
              PROVE  mollie'[t].st # "active" /\ mollie'[t].st # "suspended"
                     /\ (mollie'[t].st = "canceled" => mollie'[t].next = 0)
            BY <1>0, <2>2, <2>4, <3>4 DEF Terms, Open
        <3>5. \A j \in hooks' : j.kind = "renewal" => IF j.paid THEN mollie'[j.id].st = "active" ELSE ~Due'
            BY <2>3, <2>4, <2>5, <3>2
        <3>6. \A t \in Subs : /\ mollie'[t].st = "active" => mollie'[t].next >= paidUntil'
                              /\ mollie'[t].st = "suspended" => ~Due'
                              /\ mollie'[t].st = "canceled" => mollie'[t].next = 0
            BY <3>3, <3>4
        <3> QED
            BY <3>1, <3>5, <3>6 DEF Terms
    <2>7. Due' => Serves(row)'
        <3>1. CASE ~paid
            BY <2>1, <2>4, <3>1 DEF Due
        <3>2. CASE paid
            <4>1. row.sid = s /\ row.plan # Free /\ ~row.soft
                BY <2>1 DEF Agrees, Agreement, Orders
            <4>2. Renewing(s)'
                BY <2>5, <3>2 DEF Renewing
            <4> QED
                BY <2>1, <2>4, <3>2, <4>1, <4>2 DEF Serves
        <3> QED
            BY <3>1, <3>2
    <2> QED
        BY <2>1, <2>6, <2>7, ServesMarket
<1>3. CASE NewMandate
    <2>1. Quiet /\ UNCHANGED <<row, mollie, req, now, paidUntil>> /\ Rests(row)
        BY <1>0, <1>3, QuietThen DEF NewMandate, Serving
    <2>2. PICK k : k = [kind |-> "mandate", id |-> None, paid |-> TRUE]
        OBVIOUS
    <2>3. hooks' = hooks \cup {k} /\ k.kind = "mandate"
        BY <1>3, <2>2 DEF NewMandate
    <2>4. Terms' /\ FirstCalled' = FirstCalled /\ Due' = Due
        BY <1>0, <2>1, <2>3 DEF Terms, FirstCalled, Due
    <2>5. Serves(row) => Serves(row)'
        BY <2>1, <2>3 DEF Serves, Renewing, Over
    <2> QED
        BY <2>1, <2>4, <2>5, ServesMarket DEF Rests
<1>4. CASE Tick
    <2>1. Due' => Due
        BY <1>4, NowOrLater DEF Tick, Due
    <2>2. UNCHANGED <<row, mollie, hooks, req, paidUntil>>
        BY <1>4 DEF Tick
    <2>3. Terms'
        <3>1. paidUntil' <= now' + Interval
            BY <1>0, <1>4, NowOrLater DEF Terms, Tick
        <3> QED
            BY <1>0, <2>1, <2>2, <3>1 DEF Terms
    <2>4. \A w : /\ Serves(w)' = Serves(w) /\ Firm(w)' = Firm(w)
                 /\ Rests(w) => Rests(w)'
        BY <2>1, <2>2 DEF Serves, Firm, Over, Renewing, Rests, FirstCalled
    <2>5. \A r, w : Covers(r, w) => Covers(r, w)'
        BY <2>1, <2>2 DEF Covers, Serves, Firm, Over, Renewing, FirstCalled, Unpaid, Copies, Restoring
    <2>6. PICK w : w = row
        OBVIOUS
    <2>7. ASSUME NEW h \in Handlers, req'[h].pc # "idle" PROVE Unclaimed(req[h], row)' /\ Covers(req[h], row)'
        <3>1. PICK q : q = req[h]
            OBVIOUS
        <3>2. Unclaimed(q, w) /\ Covers(q, w)'
            BY <2>2, <2>5, <2>6, <2>7, <3>1 DEF Serving
        <3> QED
            BY <2>2, <2>6, <3>1, <3>2 DEF Unclaimed, Holding, Restoring, Covers, Unpaid, Copies, Firm, Serves
    <2>8. Quiet' => Rests(row)'
        BY <2>2, <2>4, <2>6 DEF Serving, Quiet, Rests, Serves
    <2> QED
        BY <2>3, <2>7, <2>8 DEF Serving
<1> QED
    BY <1>1, <1>2, <1>3, <1>4 DEF Market

LEMMA RestsNow ==
    ASSUME Types, Agreement, Serving, NEW h \in Handlers, Turn(h), req[h].pc \notin Syncs \cup {"create", "restore", "swrite"}
    PROVE  Rests(row)
<1>1. Unclaimed(req[h], row) /\ Covers(req[h], row)
    BY ServesNow
<1> QED
    BY <1>1 DEF Unclaimed, Covers, Holding, Rests

\* To a statement that asks for no more than the row.
LEMMA RestsOnly ==
    ASSUME NEW r, NEW w, Rests(w),
           r.pc \in {"idle", "fetch", "state", "stamp", "getsub", "entitle", "patch", "cut", "fin", "vstamp"}
    PROVE  Unclaimed(r, w) /\ Covers(r, w)
BY DEF Unclaimed, Covers, Rests, Unpaid, Restoring, Holding, Syncs

LEMMA DeliverServes ==
    ASSUME Types, Agreement, Serving, Servable', NEW h \in Handlers, Deliver(h)
    PROVE  Serving'
<1>1. PICK k \in hooks : Begin(h, [Idle EXCEPT !.pc = "fetch", !.hook = k]) /\ Quiet
    BY NoFault, QuietThen, Milder DEF Deliver, Agreeable, Servable
<1>2. PICK r : r = [Idle EXCEPT !.pc = "fetch", !.hook = k]
    OBVIOUS
<1>3. r.pc = "fetch"
    BY <1>2 DEF Idle
<1>4. Goto(h, r) /\ UNCHANGED <<row, market>> /\ Turn(h) /\ Rests(row)
    BY <1>1, <1>2 DEF Begin, Turn, Serving, Deliver
<1>5. Unclaimed(r, row) /\ Covers(r, row)
    BY <1>3, <1>4, RestsOnly
<1> QED
    BY <1>4, <1>5, ServesStill

LEMMA FetchServes ==
    ASSUME Types, Agreement, Serving, Servable', NEW h \in Handlers, Fetch(h)
    PROVE  Serving'
<1>1. PICK q \in Request : q = req[h] /\ q.pc = "fetch"
    BY GoodIs DEF Fetch, At
<1>2. Turn(h) /\ Rests(row)
    BY <1>1, RestsNow DEF Turn, Syncs
<1>3. PICK pc \in {"existing", "state", "entitle"} : Step(h, pc)
    BY NoFault DEF Fetch
<1>4. PICK r : r = [q EXCEPT !.pc = pc]
    OBVIOUS
<1>5. r.pc = pc
    BY <1>4 DEF Request
<1>6. Unclaimed(r, row) /\ Covers(r, row)
    BY <1>2, <1>5 DEF Unclaimed, Covers, Rests, Unpaid, Restoring, Holding, Syncs
<1>7. Goto(h, r) /\ UNCHANGED <<row, market>>
    BY <1>1, <1>3, <1>4 DEF Step, Fetch
<1> QED
    BY <1>2, <1>6, <1>7, ServesStill

\* A first payment is served only after its call.
LEMMA FirstServes ==
    ASSUME Types, Agreement, Serving, Servable', NEW h \in Handlers, First(h)
    PROVE  Serving'
<1>0. Agreeable'
    BY Milder DEF Agreeable, Servable
<1>1. /\ req[h].pc \in Firsts /\ Turn(h) /\ NoneOpen /\ req[h].hook \in hooks /\ req[h].hook.kind = "first"
      /\ FirstCalled
    BY <1>0, FirstShape DEF FirstCalled
<1>2. PICK q \in Request : q = req[h] /\ q.pc \in Firsts /\ q.hook.kind = "first" /\ q.hook.id \in Pays
    BY <1>0, <1>1, FirstHook, GoodIs
<1>3. Unclaimed(q, row)
    BY <1>1, <1>2, ServesNow
<1>4. ASSUME NEW r, Goto(h, r), UNCHANGED market, NEW w, w = row', r.pc \in {"get", "list", "claim", "take", "create"},
             r.hook = q.hook, r.pc # "create" => w.sid \notin Pays, r.pc = "take" => w.sid = r.id
      PROVE  Serving'
    <2>1. Unclaimed(r, w)
        BY <1>2, <1>4 DEF Unclaimed, Holding, Restoring, Syncs
    <2>2. Covers(r, w)
        BY <1>1, <1>4 DEF Covers, Unpaid, Restoring, Syncs
    <2> QED
        BY <1>1, <1>4, <2>1, <2>2, ServesStill
<1>5. ASSUME UNCHANGED <<row, market>>, row.sid \notin Pays,
             NEW pc \in {"get", "list", "claim", "take"}, NEW id, pc = "take" => id = row.sid,
             NEW r, Goto(h, r), (pc # "take" /\ r = [q EXCEPT !.pc = pc]) \/ r = [q EXCEPT !.pc = pc, !.id = id]
      PROVE  Serving'
    <2>1. r.pc = pc /\ r.hook = q.hook /\ (pc = "take" => r.id = id)
        BY <1>5 DEF Request
    <2> QED
        BY <1>4, <1>5, <2>1
<1>6. CASE LookExisting(h)
    <2>1. row.sid \notin Pays
        BY <1>2, <1>3, <1>6 DEF LookExisting, At, Unclaimed, Holding, Syncs
    <2>2. PICK id : id = row.sid
        OBVIOUS
    <2>3. PICK r : Goto(h, r) /\ (r = [q EXCEPT !.pc = "get", !.id = id] \/ r = [q EXCEPT !.pc = "list"])
        BY <1>2, <1>6, <2>2, NoFault DEF LookExisting
    <2> QED
        BY <1>5, <1>6, <2>1, <2>3 DEF LookExisting
<1>7. CASE GetExisting(h)
    <2>1. q.pc = "get" /\ row.sid \notin Pays /\ q.id \in Subs
        BY <1>2, <1>3, <1>7, GoodIs DEF GetExisting, At, Unclaimed, Holding, Syncs, RequestOK
    <2>2. Goto(h, [q EXCEPT !.pc = "list", !.id = None])
        BY <1>1, <1>2, <1>7, <2>1 DEF GetExisting, NoneOpen
    <2> QED
        BY <1>5, <1>7, <2>1, <2>2 DEF GetExisting
<1>8. CASE ListExisting(h)
    <2>1. row.sid \notin Pays
        BY <1>2, <1>3, <1>8 DEF ListExisting, At, Unclaimed, Holding, Syncs
    <2>2. Goto(h, [q EXCEPT !.pc = "claim"])
        BY <1>1, <1>2, <1>8 DEF ListExisting, NoneOpen, Step
    <2> QED
        BY <1>5, <1>8, <2>1, <2>2 DEF ListExisting
<1>9. CASE Claim(h)
    <2>1. row.sid \notin Pays
        BY <1>2, <1>3, <1>9 DEF Claim, At, Unclaimed, Holding, Syncs
    <2>2. ~(Real(row.sid) /\ OpenRow /\ Happens(IF Open(row.sid) THEN {} ELSE {"leftover"}))
        BY <1>1 DEF Happens, Servable, Harmless, Real, NoneOpen
    <2>3. PICK id : id = row.sid
        OBVIOUS
    <2>4. Goto(h, [q EXCEPT !.pc = "take", !.id = id])
        BY <1>2, <1>9, <2>1, <2>2, <2>3, NoFault DEF Claim, Hooking
    <2> QED
        BY <1>5, <1>9, <2>1, <2>3, <2>4 DEF Claim
<1>10. CASE Take(h)
    <2>1. row.sid = q.id
        BY <1>2, <1>3, <1>10 DEF Take, At, Unclaimed
    <2>2. Goto(h, [q EXCEPT !.pc = "create", !.id = None]) /\ UNCHANGED market
        BY <1>0, <1>2, <1>10, <2>1, NoFault DEF Take
    <2>3. PICK r : r = [q EXCEPT !.pc = "create", !.id = None]
        OBVIOUS
    <2>4. r.pc = "create" /\ r.hook = q.hook
        BY <2>3 DEF Request
    <2> QED
        BY <1>4, <2>2, <2>3, <2>4
<1>11. CASE TakeAgain(h) \/ Release(h)
    BY <1>2, <1>3, <1>11 DEF TakeAgain, Release, At, Unclaimed
<1>12. CASE CreateFirst(h)
    <2>1. PICK s \in Subs : /\ Create(s, pay[Hooking(h).id].plan, now + Interval)
                            /\ Goto(h, Syncing(q, s, mollie'[s], "done", TRUE, FALSE))
        BY <1>2, <1>12, NoFault DEF CreateFirst
    <2>2. /\ mollie \in [Subs -> Sub] /\ UNCHANGED <<hooks, now, paidUntil>>
          /\ mollie'[s].st = "active" /\ mollie'[s].next = now + Interval
          /\ \A t \in Subs : t # s => mollie'[t] = mollie[t]
        BY <2>1 DEF Create, Types, MarketOK
    <2>3. Terms'
        <3>1. \A j \in hooks : j.kind # "renewal"
            <4>1. \A j \in hooks : j.kind = "renewal" => j.id \in Subs
                BY HookIs DEF Types, MarketOK
            <4> QED
                BY <1>1, <4>1 DEF Agreement, Orders, NoneOpen
        <3> QED
            BY <1>1, <2>2, <3>1, NowOrLater DEF Serving, Terms, NoneOpen, Open, Due
    <2>4. PICK m : m = mollie'[s]
        OBVIOUS
    <2>5. PICK r : r = Syncing(q, s, m, "done", TRUE, FALSE)
        OBVIOUS
    <2>6. r.pc = "sync" /\ r.id = s /\ r.sub = m /\ r.ret = "done" /\ ~r.keep /\ r.hook = q.hook
        BY <2>5 DEF Syncing, Request
    <2>7. PICK w : w = row'
        OBVIOUS
    <2>8. Unclaimed(r, w)
        BY <1>2, <2>6 DEF Unclaimed, Holding, Restoring, Syncs
    <2>9. Covers(r, w)'
        BY <2>2, <2>4, <2>6 DEF Covers, Unpaid, Restoring, Syncs
    <2>10. Goto(h, r)
        BY <2>1, <2>4, <2>5
    <2> QED
        BY <1>1, <2>3, <2>6, <2>7, <2>8, <2>9, <2>10, ServesOn
<1> QED
    BY <1>6, <1>7, <1>8, <1>9, <1>10, <1>11, <1>12 DEF First

LEMMA RenewedServes ==
    ASSUME Types, Agreement, Serving, Servable', NEW h \in Handlers, Renewed(h)
    PROVE  Serving'
<1>0. req[h].pc \in Renewals /\ Agreeable'
    BY Milder DEF Renewed, LookRenewed, StampFailed, GetRenewed, At, Renewals, Agreeable, Servable
<1>1. PICK q \in Request : q = req[h] /\ q.pc \in Renewals
    BY <1>0, GoodIs
<1>2. /\ Turn(h) /\ q.hook \in hooks /\ q.hook.kind = "renewal"
      /\ q.hook.id \in Subs /\ Open(q.hook.id) /\ row.sid = q.hook.id
    BY <1>0, <1>1, RenewedIs
<1>3. Rests(row)
    BY <1>1, <1>2, RestsNow DEF Renewals, Syncs
<1>4. CASE LookRenewed(h)
    <2>1. PICK w : w = row
        OBVIOUS
    <2>2. PICK r : \E pc \in {"getsub", "stamp"} :
              Goto(h, r) /\ (r = [q EXCEPT !.seen = w, !.pc = pc] \/ r = [q EXCEPT !.pc = pc])
        BY <1>1, <1>2, <1>4, <2>1 DEF LookRenewed, Hooking, Step
    <2>3. Goto(h, r) /\ r.pc \in {"getsub", "stamp"}
        BY <2>2 DEF Request
    <2> QED
        BY <1>2, <1>3, <1>4, <2>2, <2>3, RestsOnly, ServesStill DEF LookRenewed
<1>5. CASE StampFailed(h)
    <2>1. PICK r : r = [q EXCEPT !.pc = "getsub"]
        OBVIOUS
    <2>2. r.pc = "getsub"
        BY <2>1 DEF Request
    <2>3. Goto(h, r) /\ UNCHANGED market /\ row' \in {row, Stamped(row)}
        BY <1>1, <1>5, <2>1 DEF StampFailed, Step
    <2>4. PICK w \in {row, Stamped(row)} : w = row'
        BY <2>3
    <2>5. Rests(w)
        BY <1>3, <2>4, StampedIs, ServesSame DEF Rests, Types
    <2> QED
        BY <1>2, <2>2, <2>3, <2>4, <2>5, RestsOnly, ServesStill
<1>6. CASE GetRenewed(h)
    <2>1. /\ Goto(h, Syncing(q, q.hook.id, mollie[q.hook.id], "done", q.hook.paid, ~q.hook.paid))
          /\ UNCHANGED <<row, market>>
        BY <1>0, <1>1, <1>6, NoFault DEF GetRenewed, Hooking
    <2>2. PICK m, keep : m = mollie[q.hook.id] /\ keep = ~q.hook.paid
        OBVIOUS
    <2>3. PICK r : r = Syncing(q, q.hook.id, m, "done", q.hook.paid, keep)
        OBVIOUS
    <2>4. r.pc = "sync" /\ r.ret = "done" /\ r.keep = keep /\ r.id = q.hook.id /\ r.sub = m
        BY <2>3 DEF Syncing, Request
    <2>5. Due => q.hook.paid /\ mollie[q.hook.id].st = "active"
        BY <1>2 DEF Serving, Terms
    <2>6. Unclaimed(r, row)
        BY <1>3, <2>4 DEF Unclaimed, Restoring, Syncs, Rests
    <2>7. Covers(r, row)
        BY <2>2, <2>4, <2>5 DEF Covers, Unpaid, Restoring, Syncs
    <2>8. Goto(h, r)
        BY <2>1, <2>2, <2>3
    <2> QED
        BY <1>2, <2>1, <2>6, <2>7, <2>8, ServesStill
<1> QED
    BY <1>4, <1>5, <1>6 DEF Renewed

LEMMA MandateServes ==
    ASSUME Types, Agreement, Serving, Servable', NEW h \in Handlers, Mandate(h)
    PROVE  Serving'
<1>0. req[h].pc \in {"entitle", "update", "restore"} /\ Agreeable' /\ ~EntitleBlind(h)
    <2>1. Agreeable'
        BY Milder DEF Agreeable, Servable
    <2> QED
        BY <2>1, NoFault DEF Mandate, Entitle, EntitleBlind, UpdateMandate, Restore, At
<1>1. PICK q \in Request : q = req[h] /\ q.pc \in {"entitle", "update", "restore"}
    BY <1>0, GoodIs
<1>2. /\ Turn(h) /\ Stand(q) /\ row \in Row /\ Unclaimed(q, row) /\ Covers(q, row)
      /\ q.hook \in hooks /\ q.hook.kind = "mandate"
    <2>1. Turn(h) /\ Stand(q) /\ row \in Row
        BY <1>1, Turned DEF Turn, Types
    <2>2. Unclaimed(q, row) /\ Covers(q, row)
        BY <1>1, <2>1, ServesNow
    <2> QED
        BY <1>1, <2>1, <2>2 DEF Stand, Called, Restoring
<1>3. row.sid \notin Pays
    BY <1>2 DEF Unclaimed, Holding
\* What is restored serves as what was read did.
<1>4. q.pc \in {"update", "restore"} => q.ent.sid \notin Pays /\ (Due /\ ~FirstCalled => Serves(q.ent))
    BY <1>2 DEF Unclaimed, Covers, Restoring
<1>5. CASE Entitle(h)
    <2>1. PICK e : e = Entitled(row)
        OBVIOUS
    <2>2. PICK w : w = Loaded(row)
        OBVIOUS
    <2>3. q.pc = "entitle" /\ Rests(row)
        BY <1>1, <1>2, <1>5, RestsNow DEF Entitle, At, Syncs
    <2>4. Rests(w) /\ Rests(e)
        BY <1>2, <2>1, <2>2, <2>3, ServesLoaded DEF Rests
    <2>5. PICK pc \in {"update", "restore"} : Goto(h, [q EXCEPT !.ent = e, !.id = e.sid, !.pc = pc])
        BY <1>1, <1>5, <2>1 DEF Entitle
    <2>6. PICK r : r = [q EXCEPT !.ent = e, !.id = e.sid, !.pc = pc]
        OBVIOUS
    <2>7. r.ent = e /\ r.pc = pc /\ r.hook = q.hook
        BY <2>6 DEF Request
    <2>8. Unclaimed(r, w)
        BY <2>4, <2>7 DEF Unclaimed, Rests
    <2>9. Covers(r, w)
        BY <2>4, <2>7 DEF Covers, Rests, Unpaid, Syncs
    <2> QED
        BY <1>0, <1>2, <1>5, <2>2, <2>5, <2>6, <2>8, <2>9, NoFault, ServesStill DEF Entitle
<1>6. CASE UpdateMandate(h)
    <2>0. q.pc = "update" /\ UNCHANGED <<row, market>>
        BY <1>1, <1>6 DEF UpdateMandate, At
    <2>1. CASE Real(q.id) /\ Open(q.id) /\ Goto(h, Syncing(q, q.id, mollie[q.id], "restore", FALSE, FALSE))
        <3>1. PICK m : m = mollie[q.id]
            OBVIOUS
        <3>2. PICK r : r = Syncing(q, q.id, m, "restore", FALSE, FALSE)
            OBVIOUS
        <3>3. r.pc = "sync" /\ r.ret = "restore" /\ r.ent = q.ent /\ ~r.keep /\ r.sub = m /\ r.id = q.id /\ r.hook = q.hook
            BY <3>2 DEF Syncing, Request
        <3>4. Due => mollie[q.id].st = "active"
            BY <2>1 DEF Serving, Terms, Real, Open
        <3>5. Unclaimed(r, row)
            BY <1>3, <1>4, <2>0, <3>3 DEF Unclaimed
        <3>6. Covers(r, row)
            BY <1>2, <1>4, <2>0, <3>1, <3>3, <3>4 DEF Covers, Unpaid, Syncs
        <3> QED
            BY <1>2, <2>0, <2>1, <3>1, <3>2, <3>5, <3>6, ServesStill
    <2>2. CASE Step(h, "restore")
        <3>1. PICK r : r = [q EXCEPT !.pc = "restore"]
            OBVIOUS
        <3>2. r.pc = "restore" /\ r.ent = q.ent /\ r.hook = q.hook
            BY <3>1, Moves DEF Keeps
        <3>3. Unclaimed(r, row)
            BY <1>3, <1>4, <2>0, <3>2 DEF Unclaimed
        <3>4. Covers(r, row)
            BY <1>4, <2>0, <3>2 DEF Covers, Unpaid, Syncs
        <3> QED
            BY <1>1, <1>2, <2>0, <2>2, <3>1, <3>3, <3>4, ServesStill DEF Step
    <2> QED
        BY <1>1, <1>6, <2>1, <2>2 DEF UpdateMandate
<1>7. CASE Restore(h)
    <2>1. row' = [q.ent EXCEPT !.due = row.due] /\ Goto(h, Answered(h)) /\ UNCHANGED market /\ q.pc = "restore"
        BY <1>0, <1>1, <1>7, NoFault DEF Restore, At
    <2>2. PICK w : w = [q.ent EXCEPT !.due = row.due]
        OBVIOUS
    <2>3. Rests(w)
        <3>1. q.ent \in Row
            BY Fields
        <3>2. w.sid = q.ent.sid /\ (Serves(w) <=> Serves(q.ent))
            BY <2>2, <3>1, StampedIs, ServesSame
        <3> QED
            BY <1>4, <2>1, <3>2 DEF Rests
    <2>4. PICK r : r = Answered(h)
        OBVIOUS
    <2>5. r.pc = "done" /\ r.hook.kind = "mandate"
        BY <1>1, <1>2, <2>4, AnsweredIs
    <2>6. Unclaimed(r, w) /\ Covers(r, w)
        BY <2>3, <2>5 DEF Unclaimed, Covers, Rests, Unpaid, Restoring, Holding, Syncs
    <2> QED
        BY <1>2, <2>1, <2>2, <2>4, <2>6, ServesStill
<1> QED
    BY <1>0, <1>5, <1>6, <1>7 DEF Mandate

LEMMA DoneServes ==
    ASSUME Types, Agreement, Serving, Servable', NEW h \in Handlers, Done(h)
    PROVE  Serving'
<1>0. Agreeable'
    BY Milder DEF Agreeable, Servable
<1>1. PICK q \in Request : q = req[h] /\ q.pc = "done"
    BY GoodIs DEF Done, At
<1>2. Turn(h) /\ Unclaimed(q, row) /\ Covers(q, row) /\ Rests(row) /\ q.hook \in hooks
    <2>1. Turn(h)
        BY <1>1 DEF Turn
    <2>2. Stand(q)
        BY <1>1, <2>1, Turned
    <2> QED
        BY <1>1, <2>1, <2>2, ServesNow, RestsNow DEF Stand, Called, Syncs
<1>3. hooks' = hooks \ {q.hook} /\ Goto(h, Idle) /\ UNCHANGED <<row, mollie, now, paidUntil>>
    BY <1>0, <1>1, NoFault DEF Done, Hooking, End
<1>4. Terms'
    BY <1>3 DEF Serving, Terms, Due
<1>5. PICK w : w = row
    OBVIOUS
<1>6. Rests(w)'
    <2> SUFFICES ASSUME Due', ~FirstCalled' PROVE Serves(w)'
        BY <1>2, <1>5 DEF Rests
    <2>1. Due
        BY <1>3 DEF Due
    <2>2. Firm(w) => Serves(w)'
        BY <1>3 DEF Firm, Serves, Over
    <2>3. CASE q.hook.kind \in {"first", "renewal"}
        BY <1>1, <1>2, <1>5, <2>1, <2>2, <2>3 DEF Covers
    <2>4. CASE q.hook.kind \notin {"first", "renewal"}
        <3>1. FirstCalled' = FirstCalled /\ \A s : Renewing(s)' = Renewing(s)
            BY <1>3, <2>4 DEF FirstCalled, Renewing
        <3>2. Serves(w)
            BY <1>2, <1>5, <2>1, <3>1 DEF Rests
        <3> QED
            BY <1>3, <3>1, <3>2 DEF Serves, Over
    <2> QED
        BY <2>3, <2>4
<1>7. PICK r : r = Idle
    OBVIOUS
<1>8. r.pc = "idle" /\ r.hook.kind = "none"
    BY <1>7 DEF Idle, NoHook
<1>9. Unclaimed(r, w)
    BY <1>2, <1>5, <1>8 DEF Unclaimed, Rests, Restoring, Syncs
<1>10. Covers(r, w)'
    BY <1>6, <1>8 DEF Covers, Rests, Unpaid, Restoring, Syncs
<1> QED
    BY <1>2, <1>3, <1>4, <1>5, <1>6, <1>7, <1>9, <1>10, ServesOn

\* The copy of an ended subscription that the row holds on to.
LEMMA CopyOfHeld ==
    ASSUME Types, NEW r \in Request, NEW d, Due, ~r.keep, r.id \in Subs, r.sub = mollie[r.id], Copies(r, r.seen)
    PROVE  Firm(Payload(r, d))
<1>1. /\ r.sub.st = "canceled" /\ r.sub.next = 0
      /\ r.seen.soft /\ r.seen.st = "active" /\ r.seen.end >= paidUntil /\ r.seen.plan # Free
    BY DEF Copies, Over, Firm, Serves
<1>2. PeriodEnd(r) = r.seen.end
    BY <1>1 DEF PeriodEnd
<1>3. r.seen.end > now /\ r.seen.end # 0
    BY <1>1, NowOrLater, Fields, RowFields DEF Due
<1>4. Held(r)
    BY <1>1, <1>2, <1>3 DEF Held
<1>5. Dunned(r, d) = "active"
    <2>1. Status(r) = "active"
        BY <1>1, <1>4 DEF Status
    <2> QED
        BY <2>1 DEF Dunned
<1>6. /\ Payload(r, d).sid = r.id /\ Payload(r, d).soft /\ Payload(r, d).st = "active"
      /\ Payload(r, d).plan = r.seen.plan /\ Payload(r, d).end = r.seen.end
    BY <1>1, <1>3, <1>4, <1>5, PayloadIs
<1>7. Over(r.id)
    BY DEF Copies
<1> QED
    BY <1>1, <1>6, <1>7 DEF Firm, Serves

\* The copy of a subscription that goes on.
LEMMA CopyOfActive ==
    ASSUME Agreement, NEW r, NEW d, ~r.keep, r.id \in Subs, r.sub = mollie[r.id], mollie[r.id].st = "active"
    PROVE  Firm(Payload(r, d))
<1>1. ~Payload(r, d).soft /\ Payload(r, d).plan = mollie[r.id].plan /\ Payload(r, d).st = "active"
    BY CopyOfOpen
<1>2. mollie[r.id].plan # Free
    BY DEF Agreement, Orders, Open
<1>3. Payload(r, d).sid = r.id
    BY PayloadIs
<1> QED
    BY <1>1, <1>2, <1>3 DEF Firm, Serves

LEMMA SyncServes ==
    ASSUME Types, Agreement, Serving, Servable', NEW h \in Handlers, Sync(h)
    PROVE  Serving'
<1>0. req[h].pc \in Syncs /\ Agreeable'
    BY Milder DEF Sync, SyncRead, SyncDue, SyncMark, SyncWrite, At, Syncs, Agreeable, Servable
<1>1. PICK q \in Request : q = req[h] /\ RequestOK(q) /\ q.pc \in Syncs
    BY <1>0, GoodIs
<1>2. Turn(h) /\ Unclaimed(q, row) /\ Covers(q, row) /\ q.ret \in Returns /\ q.id \in Subs
    <2>1. Turn(h)
        BY <1>1 DEF Turn, Syncs
    <2> QED
        BY <1>1, <2>1, ServesNow DEF RequestOK
\* One statement further in the copy.
<1>3. ASSUME NEW r, r.pc \in Syncs, r.hook = q.hook, r.ret = q.ret, r.ent = q.ent, NEW w, w.sid = row.sid,
             r.pc \in {"mark", "write"} => r.seen.sid \notin Pays
      PROVE  Unclaimed(r, w)
    BY <1>1, <1>2, <1>3 DEF Unclaimed, Holding, Restoring, Syncs
<1>4. CASE SyncRead(h)
    <2>1. PICK w : w = row
        OBVIOUS
    <2>2. Goto(h, [q EXCEPT !.pc = "due", !.seen = w]) /\ UNCHANGED <<row, market>> /\ q.pc = "sync"
        BY <1>1, <1>4, <2>1, NoFault DEF SyncRead, At
    <2>3. PICK r : r = [q EXCEPT !.pc = "due", !.seen = w]
        OBVIOUS
    <2>4. /\ r.pc = "due" /\ r.seen = w /\ r.hook = q.hook /\ r.ret = q.ret /\ r.ent = q.ent /\ r.keep = q.keep
          /\ r.id = q.id /\ r.sub = q.sub
        BY <2>3 DEF Request
    <2>5. Unclaimed(r, row)
        BY <1>3, <2>4 DEF Syncs
    <2>6. Covers(r, row)
        BY <1>2, <2>1, <2>2, <2>4 DEF Covers, Unpaid, Restoring, Syncs, Copies
    <2> QED
        BY <1>2, <2>2, <2>3, <2>5, <2>6, ServesStill
<1>5. CASE SyncDue(h)
    <2>1. PICK d : Goto(h, [q EXCEPT !.seen = Payload(q, d),
                                     !.pc = IF (Payload(q, d).due = 0) = (d = 0) THEN "write" ELSE "mark"])
        BY <1>1, <1>5 DEF SyncDue
    <2>2. PICK w : w = Payload(q, d)
        OBVIOUS
    <2>3. PICK pc \in {"write", "mark"} : Goto(h, [q EXCEPT !.seen = w, !.pc = pc])
        BY <2>1, <2>2
    <2>4. PICK r : r = [q EXCEPT !.seen = w, !.pc = pc]
        OBVIOUS
    <2>5. r.pc = pc /\ r.seen = w /\ r.hook = q.hook /\ r.ret = q.ret /\ r.ent = q.ent
        BY <2>4 DEF Request
    <2>6. q.pc = "due" /\ UNCHANGED <<row, market>>
        BY <1>1, <1>5 DEF SyncDue, At
    <2>7. Due => Firm(w)
        <3>1. Due => /\ q.sub = mollie[q.id] /\ ~q.keep
                     /\ mollie[q.id].st = "active" \/ Copies(q, q.seen)
            BY <1>2, <2>6 DEF Covers
        <3> QED
            BY <1>2, <2>2, <3>1, CopyOfHeld, CopyOfActive
    <2>8. w.sid \notin Pays
        BY <1>2, <2>2, PayloadIs, IdsDistinct
    <2>9. Unclaimed(r, row)
        BY <1>3, <2>5, <2>8 DEF Syncs
    <2>10. Covers(r, row)
        BY <1>2, <2>5, <2>6, <2>7 DEF Covers, Unpaid, Restoring, Syncs
    <2> QED
        BY <1>2, <2>3, <2>4, <2>6, <2>9, <2>10, ServesStill
<1>6. CASE SyncMark(h)
    <2>1. PICK r : r = [q EXCEPT !.pc = "write"]
        OBVIOUS
    <2>2. r.pc = "write" /\ Keeps(r, q)
        BY <2>1, Moves
    <2>3. q.pc = "mark" /\ Goto(h, r) /\ UNCHANGED market
        BY <1>1, <1>6, <2>1 DEF SyncMark, At, Step
    <2>4. PICK w : w = row'
        OBVIOUS
    <2>5. w.sid = row.sid
        <3>1. w = row \/ w = [row EXCEPT !.due = 0] \/ w = Stamped(row)
            BY <1>6, <2>4 DEF SyncMark
        <3> QED
            BY <3>1, StampedIs DEF Types
    <2>6. Unclaimed(r, w)
        BY <1>2, <1>3, <2>2, <2>3, <2>5 DEF Unclaimed, Keeps, Syncs
    <2>7. Covers(r, w)
        BY <1>2, <2>2, <2>3 DEF Covers, Unpaid, Restoring, Syncs, Keeps
    <2> QED
        BY <1>2, <2>3, <2>4, <2>6, <2>7, ServesStill
<1>7. CASE SyncWrite(h)
    <2>1. row' = q.seen /\ Goto(h, Synced(q)) /\ UNCHANGED market /\ q.pc = "write"
        BY <1>0, <1>1, <1>7, NoFault DEF SyncWrite, At
    <2>2. PICK r : r = Synced(q)
        OBVIOUS
    <2>3. r.pc = q.ret /\ (q.ret # "idle" => r.hook = q.hook /\ r.ent = q.ent)
        BY <1>2, <2>2, SyncedIs
    <2>4. PICK w : w = q.seen
        OBVIOUS
    <2>5. w.sid \notin Pays /\ (q.ret = "restore" => q.ent.sid \notin Pays)
        BY <1>2, <2>1, <2>4 DEF Unclaimed, Restoring, Syncs
    <2>6. Due => Firm(w) /\ q.ret # "cpay" /\ (q.ret = "restore" /\ ~FirstCalled => Serves(q.ent))
        BY <1>2, <2>1, <2>4 DEF Covers, Unpaid, Restoring, Syncs
    <2>7. Unclaimed(r, w)
        BY <1>2, <2>3, <2>5 DEF Unclaimed, Restoring, Syncs, Returns
    <2>8. Covers(r, w)
        BY <1>2, <2>3, <2>6 DEF Covers, Unpaid, Restoring, Syncs, Returns, Firm
    <2> QED
        BY <1>2, <2>1, <2>2, <2>4, <2>7, <2>8, ServesStill
<1> QED
    BY <1>4, <1>5, <1>6, <1>7 DEF Sync

-----------------------------------------------------------------------------
(* The restaurant's requests and what was paid for *)

\* Between them and Mollie nothing is unanswered: what serves is active.
LEMMA OwnServesNow ==
    ASSUME Types, Agreement, Serving, NEW h \in Handlers, req[h].pc \in Owners
    PROVE  /\ Turn(h) /\ hooks = {} /\ Unclaimed(req[h], row) /\ Covers(req[h], row)
           /\ row.sid \notin Pays
           /\ Due /\ req[h].pc # "swrite" => Firm(row)
<1>1. Turn(h) /\ hooks = {} /\ ~FirstCalled
    BY OwnIs
<1>2. Unclaimed(req[h], row) /\ Covers(req[h], row)
    BY <1>1, ServesNow
<1>3. row.sid \notin Pays
    BY <1>2 DEF Unclaimed, Holding, Owners, Syncs
<1>4. Due /\ req[h].pc # "swrite" => Serves(row)
    BY <1>1, <1>2 DEF Covers, Owners, Syncs
<1> QED
    BY <1>1, <1>2, <1>3, <1>4 DEF Firm, Serves, Renewing

LEMMA StartServesNow ==
    ASSUME Types, Agreement, Serving, Servable', NEW h, NEW op, NEW r, Start(h, op, r)
    PROVE  /\ Quiet /\ hooks = {} /\ UNCHANGED market /\ Goto(h, r) /\ Turn(h)
           /\ row.sid \notin Pays /\ Entitled(row).sid = row.sid
           /\ Due => Firm(row) /\ Entitled(row) = row /\ ~PeriodOver(row)
           /\ Rests(row')
<1>1. Quiet /\ hooks = {} /\ UNCHANGED market /\ Goto(h, r) /\ Turn(h)
    BY Milder, StartIs DEF Turn, Agreeable, Servable
<1>2. Rests(row) /\ ~FirstCalled /\ row \in Row
    BY <1>1 DEF Serving, FirstCalled, Types
<1>3. Due => Firm(row)
    BY <1>1, <1>2 DEF Rests, Firm, Serves, Renewing
<1>4. Rests(row')
    BY <1>2, ServesLoaded DEF Start, Rests
<1> QED
    BY <1>1, <1>2, <1>3, <1>4, ServesLoaded DEF Rests

LEMMA StartServes ==
    ASSUME Types, Agreement, Serving, Servable', NEW h \in Handlers, NEW op, NEW r, Start(h, op, r),
           r.pc \in {"cget", "cpay", "sget", "recreate", "patch", "hget", "fin", "vstamp", "finwrite"},
           r.pc \in {"cget", "cpay", "finwrite"} => ~Due,
           r.pc = "sget" => r.ent.sid \notin Pays /\ (Due => Firm(r.ent) /\ ~r.ent.soft),
           r.pc = "recreate" => (Due => r.ent.end >= paidUntil),
           r.pc = "finwrite" => r.id \notin Pays,
           r.pc = "hget" => r.id = row.sid /\ op = "health"
    PROVE  Serving'
<1>1. UNCHANGED market /\ Goto(h, r) /\ Turn(h) /\ Rests(row') /\ row.sid \notin Pays
    BY StartServesNow
<1>2. PICK w : w = row'
    OBVIOUS
<1>3. r.pc = "hget" => w.sid = r.id
    BY <1>2 DEF Start
<1>4. Unclaimed(r, w)
    BY <1>1, <1>2, <1>3 DEF Unclaimed, Restoring, Rests, Syncs
<1>5. Covers(r, w)
    BY <1>1, <1>2 DEF Covers, Unpaid, Restoring, Rests, Syncs
<1> QED
    BY <1>1, <1>2, <1>4, <1>5, ServesStill

\* The row stays, and the request goes on to a statement for which there is nothing paid.
LEMMA OwnPast ==
    ASSUME Types, Agreement, Serving, NEW h \in Handlers, req[h].pc \in Owners, ~Due, NEW r, Goto(h, r),
           UNCHANGED market, NEW w, w = row', w.sid \notin Pays,
           r.pc \in {"ccancel", "cpay", "missing", "hwrite", "cut", "cutcancel", "fin", "finget", "finwrite", "swrite", "idle"},
           r.pc \in {"missing", "hwrite", "finget", "finwrite"} => r.id \notin Pays,
           r.pc = "swrite" => r.ent.sid \notin Pays
    PROVE  Serving'
<1>1. Turn(h)
    BY OwnIs
<1>2. Unclaimed(r, w)
    BY DEF Unclaimed, Restoring, Syncs
<1> QED
    BY <1>1, <1>2, Past, ServesStill

\* The row stays, and the next statement asks for no more than the row.
LEMMA OwnServes ==
    ASSUME Types, Agreement, Serving, NEW h \in Handlers, req[h].pc \in Owners \ {"swrite"}, NEW r, Goto(h, r),
           UNCHANGED <<row, market>>, r.pc \in {"idle", "cut", "fin"}
    PROVE  Serving'
<1>1. Turn(h) /\ Rests(row)
    BY OwnServesNow DEF Rests, Firm
<1> QED
    BY <1>1, RestsOnly, ServesStill

\* The one subscription ends at Mollie.
LEMMA CancelServes ==
    ASSUME Types, Agreement, Serving, NEW h \in Handlers, req[h].pc \in Owners, NEW id \in Subs, CancelAt(id),
           UNCHANGED row, NEW r, Goto(h, r),
           \/ ~Due /\ r.pc = "sync" /\ r.ret \in {"cpay", "fin"}
           \/ /\ r.pc = "swrite" /\ r.ent.sid = id
              /\ Due => /\ Firm(r.ent) /\ r.ent.end >= paidUntil /\ r.ent \in Row
    PROVE  Serving'
<1>1. Turn(h) /\ hooks = {} /\ row.sid \notin Pays
    BY OwnServesNow
<1>2. /\ mollie' = [mollie EXCEPT ![id] = Canceled(@)] /\ UNCHANGED <<hooks, now, paidUntil>>
      /\ mollie \in [Subs -> Sub]
    BY DEF CancelAt, Types, MarketOK
<1>3. mollie'[id].st = "canceled" /\ mollie'[id].next = 0 /\ \A s \in Subs : s # id => mollie'[s] = mollie[s]
    BY <1>2 DEF Canceled, Sub
<1>4. Terms' /\ Due' = Due
    <2>1. Due' = Due
        BY <1>2 DEF Due
    <2> QED
        BY <1>1, <1>2, <1>3, <2>1 DEF Serving, Terms
<1>5. PICK w : w = row
    OBVIOUS
<1>6. Unclaimed(r, w)
    BY <1>1, <1>5, IdsDistinct DEF Unclaimed, Restoring, Syncs
<1>7. Covers(r, w)'
    <2>1. CASE ~Due
        BY <1>4, <2>1 DEF Covers
    <2>2. CASE /\ r.pc = "swrite" /\ r.ent.sid = id
               /\ Firm(r.ent) /\ r.ent.end >= paidUntil /\ r.ent \in Row
        <3>1. PICK x : x = [r.ent EXCEPT !.soft = TRUE]
            OBVIOUS
        <3>2. x.soft /\ x.sid = id /\ x.st = "active" /\ x.plan = r.ent.plan /\ x.end = r.ent.end
            BY <2>2, <3>1 DEF Firm, Row
        <3>3. x.plan # Free /\ x.end >= paidUntil'
            BY <1>2, <2>2, <3>2 DEF Firm, Serves
        <3>4. Firm(x)'
            BY <1>3, <3>2, <3>3 DEF Firm, Serves, Over
        <3>5. Firm([r.ent EXCEPT !.soft = TRUE])'
            BY <3>1, <3>4 DEF Firm, Serves
        <3> QED
            BY <2>2, <3>5 DEF Covers, Unpaid, Restoring, Syncs
    <2> QED
        BY <2>1, <2>2
<1>8. r.pc # "idle"
    OBVIOUS
<1> QED
    BY <1>1, <1>4, <1>5, <1>6, <1>7, <1>8, ServesOn

LEMMA CheckoutsServe ==
    ASSUME Types, Agreement, Serving, Servable', NEW h \in Handlers, Checkouts(h)
    PROVE  Serving'
<1>0. Agreeable' /\ Idle.pc = "idle"
    BY Milder DEF Agreeable, Servable, Idle
<1>1. CASE Checkout(h)
    <2>1. PICK e : e = Entitled(row)
        OBVIOUS
    <2>2. PICK plan, r :
              /\ Start(h, "checkout", r)
              /\ \/ /\ GraceOver(row)
                    /\ r = [Idle EXCEPT !.pc = "cget", !.plan = plan, !.id = e.sid]
                 \/ /\ ~(e.sid # None /\ e.st \in {"active", "past_due"})
                    /\ r = [Idle EXCEPT !.pc = "cpay", !.plan = plan]
        BY <1>1, <2>1 DEF Checkout
    <2>3. Due => Firm(row) /\ e = row
        BY <2>1, <2>2, StartServesNow
    <2>4. ~Due
        BY <2>2, <2>3, IdsDistinct DEF Firm, Serves, GraceOver
    <2>5. r.pc \in {"cget", "cpay"}
        BY <2>2 DEF Idle
    <2> QED
        BY <2>2, <2>4, <2>5, StartServes
<1>2. CASE CheckoutGet(h)
    <2>1. PICK q \in Request : q = req[h] /\ q.pc = "cget" /\ ~Due /\ row.sid \notin Pays
        BY <1>2, OwnIs, OwnServesNow DEF CheckoutGet, At, Owners, Covers, Unpaid
    <2>2. PICK r : Goto(h, r) /\ (r = [q EXCEPT !.pc = "ccancel"] \/ r = [q EXCEPT !.pc = "cpay", !.id = None])
        BY <1>2, <2>1 DEF CheckoutGet
    <2>3. r.pc \in {"ccancel", "cpay"}
        BY <2>2 DEF Request
    <2> QED
        BY <1>2, <2>1, <2>2, <2>3, OwnPast DEF CheckoutGet, Owners
<1>3. CASE CheckoutCancel(h)
    <2>1. PICK q \in Request : q = req[h] /\ q.pc = "ccancel" /\ ~Due /\ q.id \in Subs
        BY <1>3, OwnIs, OwnServesNow DEF CheckoutCancel, At, Owners, Covers, Unpaid, RequestOK
    <2>2. PICK r : r = Syncing(q, q.id, Canceled(mollie[q.id]), "cpay", FALSE, FALSE)
        OBVIOUS
    <2>3. r.pc = "sync" /\ r.ret = "cpay"
        BY <2>2 DEF Syncing, Request
    <2>4. CancelAt(q.id) /\ UNCHANGED row /\ Goto(h, r)
        BY <1>0, <1>3, <2>1, <2>2, NoFault DEF CheckoutCancel
    <2> QED
        BY <2>1, <2>3, <2>4, CancelServes DEF Owners
<1>4. CASE CheckoutPay(h)
    <2>1. PICK q \in Request : /\ q = req[h] /\ q.pc = "cpay" /\ ~Due /\ row.sid \notin Pays /\ row \in Row
                               /\ Turn(h) /\ q.plan \in Plans \cup {Free}
        BY <1>4, OwnIs, OwnServesNow, Fields DEF CheckoutPay, At, Owners, Covers, Unpaid, Types
    <2>2. UNCHANGED <<mollie, hooks, now, paidUntil>> /\ Goto(h, Idle)
        BY <1>4 DEF CheckoutPay, End
    <2>3. Terms' /\ Due' = Due
        BY <2>2 DEF Serving, Terms, Due
    <2>4. PICK w : w = row'
        OBVIOUS
    <2>5. w.sid \notin Pays
        <3>1. [row EXCEPT !.plan = q.plan, !.st = "incomplete", !.end = 0].sid = row.sid
            BY <2>1 DEF Row
        <3>2. w = row \/ w = [row EXCEPT !.plan = q.plan, !.st = "incomplete", !.end = 0]
            BY <1>4, <2>1, <2>4 DEF CheckoutPay
        <3> QED
            BY <2>1, <3>1, <3>2
    <2>6. PICK r : r = Idle
        OBVIOUS
    <2>7. r.pc = "idle"
        BY <1>0, <2>6
    <2>8. Unclaimed(r, w)
        BY <2>5, <2>7 DEF Unclaimed, Restoring, Syncs
    <2>9. Covers(r, w)' /\ Rests(w)'
        BY <2>1, <2>3, <2>5 DEF Covers, Rests
    <2> QED
        BY <2>1, <2>2, <2>3, <2>4, <2>6, <2>8, <2>9, ServesOn
<1>5. ~CheckoutBlind(h) /\ ~CheckoutCustomer(h)
    BY <1>0, NoFault DEF CheckoutBlind, CheckoutCustomer, At, Agreement, Stand
<1> QED
    BY <1>1, <1>2, <1>3, <1>4, <1>5 DEF Checkouts

LEMMA ManagingServes ==
    ASSUME Types, Agreement, Serving, Servable', NEW h \in Handlers, Managing(h)
    PROVE  Serving'
<1>0. Idle.pc = "idle"
    BY DEF Idle
<1>1. CASE CancelPlan(h)
    <2>1. PICK e : e = Entitled(row)
        OBVIOUS
    <2>2. PICK r : r = [Idle EXCEPT !.pc = "sget", !.ent = e]
        OBVIOUS
    <2>3. r.pc = "sget" /\ r.ent = e
        BY <2>2 DEF Idle
    <2>4. Start(h, "cancel", r) /\ ~e.soft
        BY <1>1, <2>1, <2>2 DEF CancelPlan
    <2>5. e.sid \notin Pays /\ (Due => Firm(e))
        BY <2>1, <2>4, StartServesNow
    <2> QED
        BY <2>3, <2>4, <2>5, StartServes
<1>2. CASE CancelGet(h)
    <2>1. PICK q \in Request : /\ q = req[h] /\ q.pc = "sget" /\ Turn(h) /\ q.ent \in Row /\ row.sid \notin Pays
                               /\ q.ent.sid \notin Pays /\ (Due => Firm(q.ent) /\ ~q.ent.soft /\ Firm(row))
        BY <1>2, OwnIs, OwnServesNow, Fields DEF CancelGet, At, Owners, Covers, Unclaimed
    <2>2. UNCHANGED <<row, market>>
        BY <1>2 DEF CancelGet
    <2>3. CASE ~Real(q.ent.sid)
        <3>1. PICK r : r = [q EXCEPT !.pc = "swrite"]
            OBVIOUS
        <3>2. r.pc = "swrite" /\ r.ent = q.ent /\ Goto(h, r)
            BY <1>2, <2>1, <2>3, <3>1 DEF CancelGet, Step, Request
        <3>3. ~Due
            BY <2>1, <2>3 DEF Firm, Serves, Real
        <3> QED
            BY <2>1, <2>2, <3>2, <3>3, OwnPast DEF Owners
    <2>4. CASE Real(q.ent.sid)
        <3>1. PICK pc, end : /\ pc = IF Open(q.ent.sid) THEN "scancel" ELSE "swrite"
                             /\ end = IF mollie[q.ent.sid].next # 0 THEN mollie[q.ent.sid].next ELSE q.ent.end
            OBVIOUS
        <3>2. Goto(h, [q EXCEPT !.pc = pc, !.ent.end = end])
            BY <1>2, <2>1, <2>4, <3>1 DEF CancelGet
        <3>3. PICK r : r = [q EXCEPT !.pc = pc, !.ent.end = end]
            OBVIOUS
        <3>4. /\ r.pc = pc /\ r.ent.sid = q.ent.sid /\ r.ent.plan = q.ent.plan /\ r.ent.soft = q.ent.soft
              /\ r.ent.st = q.ent.st /\ r.ent.end = end
            BY <2>1, <3>3 DEF Request, Row
        <3>5. CASE ~Due
            <4>1. Unclaimed(r, row)
                BY <2>1, <3>1, <3>4 DEF Unclaimed, Holding, Restoring, Syncs
            <4> QED
                BY <2>1, <2>2, <3>2, <3>3, <3>5, <4>1, Past, ServesStill
        <3>6. CASE Due
            <4>1. mollie[q.ent.sid].st = "active"
                BY <2>1, <3>6 DEF Firm, Serves
            <4>2. pc = "scancel"
                BY <3>1, <4>1 DEF Open
            <4>3. end >= paidUntil
                <5>1. mollie[q.ent.sid].next >= paidUntil
                    BY <2>4, <4>1 DEF Serving, Terms, Real
                <5>2. mollie[q.ent.sid].next \in Nat
                    BY <2>4, NowOrLater DEF Real
                <5> QED
                    BY <3>1, <3>6, <5>1, <5>2, NowOrLater DEF Due
            <4>4. Firm(r.ent)
                BY <2>1, <3>4, <3>6, <4>1 DEF Firm, Serves
            <4>5. Unclaimed(r, row)
                BY <2>1, <3>4, <4>2 DEF Unclaimed, Holding, Restoring, Syncs
            <4>6. Covers(r, row)
                BY <2>1, <3>4, <3>6, <4>2, <4>3, <4>4 DEF Covers, Unpaid, Restoring, Syncs, Firm
            <4> QED
                BY <2>1, <2>2, <3>2, <3>3, <4>5, <4>6, ServesStill
        <3> QED
            BY <3>5, <3>6
    <2> QED
        BY <2>3, <2>4
<1>3. CASE CancelMollie(h)
    <2>1. PICK q \in Request : /\ q = req[h] /\ q.pc = "scancel" /\ q.ent.sid \in Subs /\ q.ent \in Row
                               /\ Due => Firm(q.ent) /\ q.ent.end >= paidUntil
        BY <1>3, OwnIs, OwnServesNow, Fields DEF CancelMollie, At, Owners, RequestOK, Covers
    <2>2. PICK r : r = [q EXCEPT !.pc = "swrite"]
        OBVIOUS
    <2>3. r.pc = "swrite" /\ r.ent = q.ent
        BY <2>2 DEF Request
    <2>4. CancelAt(q.ent.sid) /\ UNCHANGED row /\ Goto(h, r)
        BY <1>3, <2>1, <2>2 DEF CancelMollie, Step
    <2> QED
        BY <2>1, <2>3, <2>4, CancelServes DEF Owners
<1>4. CASE CancelWrite(h)
    <2>1. PICK q \in Request : /\ q = req[h] /\ q.pc = "swrite" /\ q.ent \in Row /\ Turn(h)
                               /\ q.ent.sid \notin Pays /\ (Due => Firm([q.ent EXCEPT !.soft = TRUE]))
        BY <1>4, OwnIs, OwnServesNow, Fields DEF CancelWrite, At, Owners, Covers, Unclaimed
    <2>2. PICK x, w : x = [q.ent EXCEPT !.soft = TRUE] /\ w = [q.ent EXCEPT !.soft = TRUE, !.due = row.due]
        OBVIOUS
    <2>3. w.plan = x.plan /\ w.sid = x.sid /\ w.soft = x.soft /\ w.st = x.st /\ w.end = x.end /\ w.sid = q.ent.sid
        BY <2>1, <2>2 DEF Row
    <2>4. Rests(w)
        <3>1. Firm(w) <=> Firm(x)
            BY <2>3, ServesSame
        <3>2. Due => Serves(w)
            BY <2>1, <2>2, <3>1 DEF Firm
        <3> QED
            BY <2>1, <2>3, <3>2 DEF Rests
    <2>5. row' = w /\ Goto(h, Idle) /\ UNCHANGED market
        BY <1>4, <2>1, <2>2 DEF CancelWrite, End
    <2> QED
        BY <1>0, <2>1, <2>4, <2>5, IdleRests, ServesStill
\* A plan is taken back, or changed.
<1>5. ASSUME NEW op, NEW plan, NEW pc \in {"recreate", "patch"},
             Start(h, op, [Idle EXCEPT !.pc = pc, !.plan = plan, !.id = Entitled(row).sid, !.ent = Entitled(row)]),
             pc = "recreate" => Entitled(row).soft
      PROVE  Serving'
    <2>1. PICK e : e = Entitled(row)
        OBVIOUS
    <2>2. PICK r : r = [Idle EXCEPT !.pc = pc, !.plan = plan, !.id = e.sid, !.ent = e]
        OBVIOUS
    <2>3. r.pc = pc /\ r.ent = e
        BY <2>2 DEF Idle
    <2>4. Start(h, op, r)
        BY <1>5, <2>1, <2>2
    <2>5. Due => Firm(e)
        BY <2>1, <2>4, StartServesNow
    <2>6. pc = "recreate" => (Due => e.end >= paidUntil)
        BY <1>5, <2>1, <2>5 DEF Firm, Serves
    <2> QED
        BY <2>3, <2>4, <2>6, StartServes
<1>6. CASE UndoCancel(h)
    BY <1>5, <1>6 DEF UndoCancel
<1>7. CASE ChangePlan(h)
    BY <1>5, <1>7 DEF ChangePlan
<1>8. CASE Recreate(h)
    <2>1. PICK q \in Request : /\ q = req[h] /\ q.pc = "recreate" /\ Stand(q) /\ Turn(h) /\ hooks = {}
                               /\ row.sid \notin Pays /\ (Due => q.ent.end >= paidUntil) /\ q.ent.end \in Nat
        BY <1>8, OwnIs, OwnServesNow, Fields, RowFields DEF Recreate, At, Owners, Covers
    <2>2. NoneOpen
        BY <2>1 DEF Stand, Ending
    <2>3. PICK s \in Subs : /\ Create(s, q.plan, Later(q.ent.end, now))
                            /\ Goto(h, Syncing(Idle, s, mollie'[s], "idle", FALSE, FALSE)) /\ UNCHANGED row
        BY <1>8, <2>1 DEF Recreate
    <2>4. /\ mollie \in [Subs -> Sub] /\ UNCHANGED <<hooks, now, paidUntil>>
          /\ mollie'[s].st = "active" /\ mollie'[s].next = Later(q.ent.end, now)
          /\ \A t \in Subs : t # s => mollie'[t] = mollie[t]
        BY <2>3 DEF Create, Types, MarketOK
    <2>5. Later(q.ent.end, now) >= paidUntil
        BY <2>1, NowOrLater DEF Later, Due
    <2>6. Terms'
        BY <2>1, <2>2, <2>4, <2>5 DEF Serving, Terms, NoneOpen, Open, Due
    <2>7. PICK m : m = mollie'[s]
        OBVIOUS
    <2>8. PICK r : r = Syncing(Idle, s, m, "idle", FALSE, FALSE)
        OBVIOUS
    <2>9. r.pc = "sync" /\ r.id = s /\ r.sub = m /\ r.ret = "idle" /\ ~r.keep
        BY <2>8 DEF Syncing, Idle
    <2>10. PICK w : w = row
        OBVIOUS
    <2>11. Unclaimed(r, w)
        BY <2>1, <2>9, <2>10 DEF Unclaimed, Restoring, Syncs
    <2>12. Covers(r, w)'
        BY <2>4, <2>7, <2>9 DEF Covers, Unpaid, Restoring, Syncs
    <2>13. Goto(h, r) /\ r.pc # "idle" /\ w = row'
        BY <2>3, <2>7, <2>8, <2>9, <2>10
    <2> QED
        BY <2>1, <2>6, <2>11, <2>12, <2>13, ServesOn
<1>9. CASE Patch(h)
    <2>1. PICK q \in Request : q = req[h] /\ q.pc = "patch" /\ Turn(h) /\ hooks = {} /\ row.sid \notin Pays
        BY <1>9, OwnIs, OwnServesNow DEF Patch, At, Owners
    <2>2. /\ mollie' = [mollie EXCEPT ![q.id].plan = q.plan] /\ UNCHANGED <<row, hooks, now, paidUntil>>
          /\ Goto(h, Syncing(Idle, q.id, mollie'[q.id], "idle", FALSE, FALSE))
          /\ q.id \in Subs /\ Open(q.id)
        BY <1>9, <2>1 DEF Patch, Real
    <2>3. \A s \in Subs : mollie'[s].st = mollie[s].st /\ mollie'[s].next = mollie[s].next
        BY <2>2 DEF Types, MarketOK, Sub
    <2>4. Terms' /\ Due' = Due
        <3>1. Due' = Due
            BY <2>2 DEF Due
        <3> QED
            BY <2>1, <2>2, <2>3, <3>1 DEF Serving, Terms
    <2>5. PICK m : m = mollie'[q.id]
        OBVIOUS
    <2>6. PICK r : r = Syncing(Idle, q.id, m, "idle", FALSE, FALSE)
        OBVIOUS
    <2>7. r.pc = "sync" /\ r.id = q.id /\ r.sub = m /\ r.ret = "idle" /\ ~r.keep
        BY <2>6 DEF Syncing, Idle
    <2>8. Due => mollie'[q.id].st = "active"
        BY <2>2, <2>3 DEF Serving, Terms, Open
    <2>9. PICK w : w = row
        OBVIOUS
    <2>10. Unclaimed(r, w)
        BY <2>1, <2>7, <2>9 DEF Unclaimed, Restoring, Syncs
    <2>11. Covers(r, w)'
        BY <2>4, <2>5, <2>7, <2>8 DEF Covers, Unpaid, Restoring, Syncs
    <2>12. Goto(h, r) /\ r.pc # "idle" /\ w = row'
        BY <2>2, <2>5, <2>6, <2>7, <2>9
    <2> QED
        BY <2>1, <2>4, <2>10, <2>11, <2>12, ServesOn
<1>10. CASE PatchRefused(h)
    BY <1>0, <1>10, OwnServes DEF Owners, PatchRefused, At, End
<1> QED
    BY <1>1, <1>2, <1>3, <1>4, <1>6, <1>7, <1>8, <1>9, <1>10 DEF Managing

LEMMA HealthChecksServe ==
    ASSUME Types, Agreement, Serving, Servable', NEW h \in Handlers, HealthChecks(h)
    PROVE  Serving'
<1>0. Agreeable' /\ Idle.pc = "idle"
    BY Milder DEF Agreeable, Servable, Idle
<1>1. ASSUME NEW pc \in Owners \ {"swrite"}, req[h].pc = pc
      PROVE  \E q \in Request : /\ q = req[h] /\ q.pc = pc /\ Stand(q) /\ Unclaimed(q, row) /\ Covers(q, row) /\ Turn(h)
                                /\ RequestOK(q) /\ row.sid \notin Pays /\ (Due => Firm(row))
    BY <1>1, OwnIs, OwnServesNow
<1>2. CASE Health(h)
    <2>1. PICK id : id = row.sid
        OBVIOUS
    <2>2. PICK r : /\ Start(h, "health", r)
                   /\ r = [Idle EXCEPT !.pc = "fin"] \/ r = [Idle EXCEPT !.pc = "hget", !.id = id]
        BY <1>2, <2>1 DEF Health
    <2>3. r.pc = "fin" \/ (r.pc = "hget" /\ r.id = id)
        BY <2>2 DEF Idle
    <2> QED
        BY <2>1, <2>2, <2>3, StartServes
\* Copying what Mollie has answered for the subscription that the row names.
<1>3. ASSUME NEW q \in Request, q = req[h], q.pc \in {"hget", "cutget"}, Unclaimed(q, row), UNCHANGED <<row, market>>,
             NEW m, m = mollie[q.id], NEW ret \in {"cut", "fin"}, NEW clear,
             Goto(h, Syncing(q, q.id, m, ret, clear, FALSE))
      PROVE  Serving'
    <2>1. PICK r : r = Syncing(q, q.id, m, ret, clear, FALSE)
        OBVIOUS
    <2>2. r.pc = "sync" /\ r.ret = ret /\ r.id = q.id /\ r.sub = m /\ ~r.keep
        BY <2>1 DEF Syncing, Request
    <2>3. Turn(h) /\ row.sid \notin Pays /\ (Due => Firm(row))
        BY <1>3, OwnServesNow DEF Owners
    <2>4. row.sid = q.id
        BY <1>3 DEF Unclaimed
    <2>5. Unclaimed(r, row)
        BY <2>2, <2>3 DEF Unclaimed, Restoring, Syncs
    <2>6. Due => mollie[r.id].st = "active" \/ Copies(r, row)
        BY <2>2, <2>3, <2>4 DEF Copies, Firm, Serves
    <2>7. Covers(r, row)
        BY <1>3, <2>2, <2>6 DEF Covers, Unpaid, Restoring, Syncs
    <2> QED
        BY <1>3, <2>1, <2>3, <2>5, <2>7, ServesStill
<1>4. CASE HealthGet(h)
    <2>1. PICK q \in Request : /\ q = req[h] /\ q.pc = "hget" /\ Unclaimed(q, row) /\ row.sid \notin Pays
                               /\ (Due => Firm(row))
        BY <1>1, <1>4 DEF HealthGet, At, Owners
    <2>2. UNCHANGED <<row, market>>
        BY <1>4 DEF HealthGet
    <2>3. CASE Real(q.id)
        <3>1. PICK m : m = mollie[q.id]
            OBVIOUS
        <3>2. Goto(h, Syncing(q, q.id, m, "cut", FALSE, FALSE))
            BY <1>0, <1>4, <2>1, <2>3, <3>1, NoFault DEF HealthGet
        <3> QED
            BY <1>3, <2>1, <2>2, <3>1, <3>2
    <2>4. CASE ~Real(q.id)
        <3>1. PICK r : r = [q EXCEPT !.pc = "missing"]
            OBVIOUS
        <3>2. r.pc = "missing" /\ r.id = q.id /\ Goto(h, r)
            BY <1>0, <1>4, <2>1, <2>4, <3>1, NoFault DEF HealthGet, Request
        <3>3. row.sid = q.id
            BY <2>1 DEF Unclaimed
        <3>4. ~Due
            BY <2>1, <2>4, <3>3 DEF Firm, Serves, Real
        <3> QED
            BY <2>1, <2>2, <3>2, <3>3, <3>4, OwnPast DEF Owners
    <2> QED
        BY <2>3, <2>4
<1>5. CASE HealthMissing(h)
    <2>1. PICK q \in Request : q = req[h] /\ q.pc = "missing" /\ ~Due /\ q.id \notin Pays /\ row.sid \notin Pays
        BY <1>1, <1>5 DEF HealthMissing, At, Owners, Covers, Unpaid, Unclaimed
    <2>2. PICK r : Goto(h, r) /\ (r = [q EXCEPT !.pc = "cut", !.id = None] \/ r = [q EXCEPT !.pc = "hwrite"])
        BY <1>5, <2>1 DEF HealthMissing, Step
    <2>3. r.pc = "cut" \/ (r.pc = "hwrite" /\ r.id = q.id)
        BY <2>2 DEF Request
    <2> QED
        BY <1>5, <2>1, <2>2, <2>3, OwnPast DEF HealthMissing, Owners
\* The end of a plan is written.
<1>6. ASSUME req[h].pc \in {"hwrite", "finwrite"}, NEW r, Goto(h, r), r.pc \in {"cut", "idle"}, UNCHANGED market,
             row' = Ended(req[h].id)
      PROVE  Serving'
    <2>1. PICK q \in Request : q = req[h] /\ ~Due /\ q.id \notin Pays
        BY <1>1, <1>6 DEF Owners, Covers, Unpaid, Unclaimed
    <2>2. PICK w : w = row'
        OBVIOUS
    <2>3. w.sid = q.id
        BY <1>6, <2>1, <2>2 DEF Ended, NewRow
    <2> QED
        BY <1>6, <2>1, <2>2, <2>3, OwnPast DEF Owners
<1>7. CASE HealthWrite(h)
    <2>1. PICK q \in Request : q = req[h] /\ q.pc = "hwrite"
        BY <1>1, <1>7 DEF HealthWrite, At, Owners
    <2>2. [q EXCEPT !.pc = "cut", !.id = None].pc = "cut"
        BY DEF Request
    <2> QED
        BY <1>0, <1>6, <1>7, <2>1, <2>2, NoFault DEF HealthWrite
<1>8. CASE Cut(h)
    <2>1. PICK q \in Request : q = req[h] /\ q.pc = "cut" /\ Turn(h) /\ row.sid \notin Pays /\ (Due => Firm(row))
        BY <1>1, <1>8 DEF Cut, At, Owners
    <2>2. PICK id : id = row.sid
        OBVIOUS
    <2>3. PICK r : Goto(h, r) /\ (r = [q EXCEPT !.pc = "cutget", !.id = id] \/ r = [q EXCEPT !.pc = "fin"])
        BY <1>8, <2>1, <2>2 DEF Cut
    <2>4. (r.pc = "cutget" /\ r.id = id) \/ r.pc = "fin"
        BY <2>3 DEF Request
    <2>5. Unclaimed(r, row)
        BY <2>1, <2>2, <2>4 DEF Unclaimed, Restoring, Syncs
    <2>6. Covers(r, row)
        BY <2>1, <2>4 DEF Covers, Unpaid, Restoring, Syncs, Firm
    <2> QED
        BY <1>8, <2>1, <2>3, <2>5, <2>6, ServesStill DEF Cut
<1>9. CASE CutGet(h)
    <2>1. PICK q \in Request : q = req[h] /\ q.pc = "cutget" /\ Unclaimed(q, row) /\ row.sid \notin Pays
        BY <1>1, <1>9 DEF CutGet, At, Owners
    <2>2. UNCHANGED <<row, market>>
        BY <1>9 DEF CutGet
    <2>3. CASE Goto(h, [q EXCEPT !.pc = "fin", !.id = None])
        <3>1. PICK r : r = [q EXCEPT !.pc = "fin", !.id = None]
            OBVIOUS
        <3>2. r.pc = "fin"
            BY <3>1 DEF Request
        <3> QED
            BY <2>1, <2>2, <2>3, <3>1, <3>2, OwnServes DEF Owners
    <2>4. CASE Real(q.id) /\ mollie[q.id].st = "suspended" /\ Goto(h, [q EXCEPT !.pc = "cutcancel"])
        <3>1. PICK r : r = [q EXCEPT !.pc = "cutcancel"]
            OBVIOUS
        <3>2. r.pc = "cutcancel"
            BY <3>1 DEF Request
        <3>3. ~Due
            BY <2>4 DEF Serving, Terms, Real
        <3> QED
            BY <2>1, <2>2, <2>4, <3>1, <3>2, <3>3, OwnPast DEF Owners
    <2>5. CASE Goto(h, Syncing(q, q.id, mollie[q.id], "fin", mollie[q.id].st = "active", FALSE))
        <3>1. PICK m, clear : m = mollie[q.id] /\ clear = (mollie[q.id].st = "active")
            OBVIOUS
        <3> QED
            BY <1>3, <2>1, <2>2, <2>5, <3>1
    <2> QED
        BY <1>9, <2>1, <2>3, <2>4, <2>5 DEF CutGet
<1>10. CASE CutCancel(h)
    <2>1. PICK q \in Request : q = req[h] /\ q.pc = "cutcancel" /\ ~Due /\ q.id \in Subs
        BY <1>1, <1>10 DEF CutCancel, At, Owners, RequestOK, Covers, Unpaid
    <2>2. PICK r : r = Syncing(q, q.id, Canceled(mollie[q.id]), "fin", FALSE, FALSE)
        OBVIOUS
    <2>3. r.pc = "sync" /\ r.ret = "fin"
        BY <2>2 DEF Syncing, Request
    <2>4. CancelAt(q.id) /\ UNCHANGED row /\ Goto(h, r)
        BY <1>0, <1>10, <2>1, <2>2, NoFault DEF CutCancel
    <2> QED
        BY <2>1, <2>3, <2>4, CancelServes DEF Owners
<1>11. CASE Fin(h)
    <2>1. PICK q \in Request : q = req[h] /\ q.pc = "fin" /\ row.sid \notin Pays /\ (Due => Firm(row))
        BY <1>1, <1>11 DEF Fin, At, Owners
    <2>2. PICK id : id = row.sid
        OBVIOUS
    <2>3. CASE PeriodOver(row) /\ Goto(h, [q EXCEPT !.pc = "finget", !.id = id])
        <3>1. PICK r : r = [q EXCEPT !.pc = "finget", !.id = id]
            OBVIOUS
        <3>2. r.pc = "finget" /\ r.id = id
            BY <3>1 DEF Request
        <3>3. ~Due
            BY <2>1, <2>3, ServesLoaded DEF Firm, Types
        <3> QED
            BY <1>11, <2>1, <2>2, <2>3, <3>1, <3>2, <3>3, OwnPast DEF Fin, Owners
    <2>4. CASE Goto(h, Idle)
        BY <1>0, <1>11, <2>1, <2>4, OwnServes DEF Fin, Owners
    <2> QED
        BY <1>11, <2>1, <2>2, <2>3, <2>4 DEF Fin
<1>12. CASE FinCancel(h)
    <2>1. PICK q \in Request : q = req[h] /\ q.pc = "finget" /\ Stand(q) /\ ~Due /\ q.id \notin Pays /\ row.sid \notin Pays
        BY <1>1, <1>12 DEF FinCancel, At, Owners, Covers, Unpaid, Unclaimed
    <2>2. NoneOpen
        BY <2>1 DEF Stand, Ending
    <2>3. PICK r : r = [q EXCEPT !.pc = "finwrite"]
        OBVIOUS
    <2>4. r.pc = "finwrite" /\ r.id = q.id /\ Goto(h, r) /\ UNCHANGED <<row, market>>
        BY <1>12, <2>1, <2>2, <2>3 DEF FinCancel, Real, NoneOpen, Step, Request
    <2> QED
        BY <2>1, <2>4, OwnPast DEF Owners
<1>13. CASE FinWrite(h)
    BY <1>0, <1>6, <1>13 DEF FinWrite, At, End
<1> QED
    BY <1>2, <1>4, <1>5, <1>7, <1>8, <1>9, <1>10, <1>11, <1>12, <1>13 DEF HealthChecks

LEMMA VisitsServe ==
    ASSUME Types, Agreement, Serving, Servable', NEW h \in Handlers, Visit(h) \/ VisitBlind(h) \/ VisitStamp(h)
    PROVE  Serving'
<1>0. Idle.pc = "idle" /\ ~VisitBlind(h)
    BY NoFault, Milder DEF Idle, VisitBlind, Agreeable, Servable
<1>1. CASE Visit(h)
    <2>1. PICK id : id = row.sid
        OBVIOUS
    <2>2. PICK r : /\ Start(h, "visit", r)
                   /\ \/ r = [Idle EXCEPT !.pc = "vstamp"]
                      \/ PeriodOver(row) /\ r = [Idle EXCEPT !.pc = "finwrite", !.id = id]
        BY <1>1, <2>1 DEF Visit
    <2>3. r.pc = "vstamp" \/ (r.pc = "finwrite" /\ r.id = id /\ PeriodOver(row))
        BY <2>2 DEF Idle
    <2>4. row.sid \notin Pays /\ (Due => ~PeriodOver(row))
        BY <2>2, StartServesNow
    <2> QED
        BY <2>1, <2>2, <2>3, <2>4, StartServes
<1>2. CASE VisitStamp(h)
    <2>1. Turn(h) /\ row.sid \notin Pays /\ (Due => Firm(row)) /\ row \in Row
        BY <1>2, OwnServesNow DEF VisitStamp, At, Owners, Types
    <2>2. PICK w : w = Stamped(row)
        OBVIOUS
    <2>3. w.sid = row.sid /\ (Serves(w) <=> Serves(row))
        BY <2>1, <2>2, StampedIs, ServesSame
    <2>4. Rests(w)
        BY <2>1, <2>3 DEF Rests, Firm
    <2>5. row' = w /\ Goto(h, Idle) /\ UNCHANGED market
        BY <1>2, <2>2 DEF VisitStamp, End
    <2> QED
        BY <1>0, <2>1, <2>4, <2>5, IdleRests, ServesStill
<1> QED
    BY <1>0, <1>1, <1>2

LEMMA InitServing == Init => Serving
<1> SUFFICES ASSUME Init PROVE Serving
    OBVIOUS
<1>1. /\ \A h \in Handlers : req[h] = Idle
      /\ \A s \in Subs : mollie[s].st = "none"
      /\ now = 1 /\ paidUntil = 0 /\ hooks = {} /\ row.sid = None /\ Idle.pc = "idle"
    BY DEF Init, Idle, NoSub, NewRow
<1>2. ~Due /\ paidUntil <= now + Interval
    BY <1>1, BoundsAreNat DEF Due
<1>3. Terms
    BY <1>1, <1>2 DEF Terms
<1>4. Rests(row)
    BY <1>1, <1>2, IdsDistinct DEF Rests
<1> QED
    BY <1>1, <1>3, <1>4 DEF Serving

LEMMA NextServes ==
    ASSUME Types, Agreement, Serving, Servable', [Next]_vars
    PROVE  Serving'
<1>1. CASE UNCHANGED vars
    <2>1. UNCHANGED <<row, req, market>>
        BY <1>1 DEF vars
    <2> QED
        BY <2>1, StillPaid DEF Serving, Unclaimed, Holding, Restoring, Quiet
<1>2. CASE Market
    BY <1>2, MarketServes
<1>3. ASSUME NEW h \in Handlers, Webhook(h) PROVE Serving'
    BY <1>3, DeliverServes, FetchServes, FirstServes, RenewedServes, MandateServes, DoneServes DEF Webhook
<1>4. ASSUME NEW h \in Handlers, Sync(h) \/ Checkouts(h) \/ Managing(h) \/ HealthChecks(h) PROVE Serving'
    BY <1>4, SyncServes, CheckoutsServe, ManagingServes, HealthChecksServe
<1>5. ASSUME NEW h \in Handlers, Visit(h) \/ VisitBlind(h) \/ VisitStamp(h) \/ NotFound(h) \/ Vanish(h)
      PROVE  Serving'
    <2>1. Agreeable'
        BY Milder DEF Agreeable, Servable
    <2> QED
        BY <1>5, <2>1, VisitsServe, AlwaysFound, NoFault DEF Vanish
<1> QED
    BY <1>1, <1>2, <1>3, <1>4, <1>5 DEF Next

\* As long as Mollie is asked and answers, the row has what was paid for.
LEMMA StaysServed == Spec => [](Types /\ (Agreeable => Agreement) /\ (Servable => Serving))
<1>1. Init => Types /\ (Agreeable => Agreement) /\ (Servable => Serving)
    BY InitTypes, InitAgreement, InitServing
<1>2. Types /\ (Agreeable => Agreement) /\ (Servable => Serving) /\ [Next]_vars
      => (Types /\ (Agreeable => Agreement) /\ (Servable => Serving))'
    BY NextTypes, NextAgrees, NextServes, StillUndisturbed, Milder
<1> QED
    BY <1>1, <1>2, PTL DEF Spec

\* What was paid for is there, until the end of the last period that was paid for.
THEOREM PaidPlansAreServed == Spec => []PaidIsServed
<1>1. Types /\ (Agreeable => Agreement) /\ (Servable => Serving) => PaidIsServed
    <2> SUFFICES ASSUME Types, Serving, Settled, Due PROVE Access(row)
        BY DEF PaidIsServed, Servable, Due
    <2>1. Rests(row) /\ hooks = {}
        BY DEF Serving, Settled
    <2>2. Serves(row) /\ row.st = "active"
        BY <2>1 DEF Rests, Serves, FirstCalled, Renewing
    <2>3. ~PeriodOver(row)
        BY <2>2, ServesLoaded DEF Types
    <2> QED
        BY <2>2, <2>3 DEF Access, Serves
<1> QED
    BY <1>1, StaysServed, PTL

-----------------------------------------------------------------------------
(* One subscription, whatever breaks off *)

\* The requests follow one another, but may fail at any statement, or vanish, unless a
\* subscription is created anew; but what Mollie lists for its one customer is found.
Recoverable ==
    /\ hist \cap {"overlap", "owner", "daily", "again", "list", "customer"} = {}
    /\ "recreated" \in hist => hist \cap {"vanish", "write"} = {}
Unbroken == hist \cap {"vanish", "write"} = {}

\* What the claim of a first payment rests on is what Mollie lists, not what the row says.
OneOpen == \A s, t \in Subs : Open(s) /\ Open(t) => s = t
NoRenewals == \A k \in hooks : k.kind # "renewal"
Owning(r) == r.pc \in Owners \/ (r.pc \in Syncs /\ r.ret \in {"cut", "fin", "cpay"})
Fresh(r) ==
    /\ r.pc # "cust"
    /\ r.pc \in {"fetch"} \cup Renewals => r.hook \in hooks
    /\ Owning(r) => NoRenewals
    /\ r.pc \in {"claim", "take", "again", "create", "release"} => NoneOpen

\* Only an undo rests on the row, which a request that broke off has left as it was: a
\* row that has lost its subscription is not cancelled, and cannot be.
Tied(w) == \A s \in Subs : Open(s) => w.sid \in {s, None} /\ ~w.soft
Ties(r) ==
    /\ r.pc \in {"swrite", "recreate", "missing", "hwrite", "finget", "finwrite"} => NoneOpen
    /\ r.pc \in Aiming => OnlyOpen(r.id)
    /\ r.pc \in {"sget", "scancel"} => OnlyOpen(r.ent.sid)
    /\ Restoring(r) => Tied(r.ent)
    /\ r.pc \in Syncs => \A s \in Subs : Open(s) => r.id = s /\ r.sub.st # "canceled"
    /\ r.pc \in {"mark", "write"} => Tied(r.seen)
    /\ r.pc \in {"fetch", "state"} => r.seen = NewRow
    /\ r.pc \in {"stamp", "getsub"} => r.seen = NewRow \/ Tied(r.seen)
Lasts(r, w) == Ties(r) /\ (r.pc \notin Syncs => Tied(w))

Lasting ==
    /\ Alone /\ OneOpen
    /\ \A k \in hooks : k.kind = "renewal" => Open(k.id)
    /\ \A h \in Handlers : Fresh(req[h])
    /\ Unbroken => /\ \A h \in Handlers : Ties(req[h])
                   /\ (\A h \in Handlers : req[h].pc \notin Syncs) => Tied(row)

LEMMA NoneBroken ==
    /\ Recoverable' => /\ ~Fault("again") /\ ~Fault("owner") /\ ~Fault("daily") /\ ~Fault("overlap") /\ ~Fault("list")
                       /\ ~Fault("customer")
    /\ Unbroken' => ~Fault("vanish") /\ ~Fault("write")
BY DEF Recoverable, Unbroken, Fault

LEMMA StillRecoverable == [Next]_vars => (Recoverable' => Recoverable) /\ (Unbroken' => Unbroken)
BY HistGrows DEF Recoverable, Unbroken

LEMMA QuietOr == Recoverable' /\ Beside("overlap") => Quiet
BY NoneBroken DEF Beside

\* What is known when a request takes a step.
LEMMA LastsNow ==
    ASSUME Types, Lasting, NEW h \in Handlers, Turn(h)
    PROVE  /\ Fresh(req[h]) /\ (Unbroken => Lasts(req[h], row))
           /\ req[h] \in Request /\ RequestOK(req[h])
           /\ \A g \in Handlers : g # h => req[g].pc = "idle"
<1>1. \A g \in Handlers : g # h => req[g].pc = "idle"
    BY DEF Turn, Lasting, Alone, Quiet, Idle
<1>2. req[h] \in Request /\ RequestOK(req[h])
    BY GoodIs
<1> QED
    BY <1>1, <1>2 DEF Lasting, Lasts, Syncs

LEMMA IdleLasts ==
    ASSUME NEW r, r.pc = "idle"
    PROVE  Fresh(r) /\ Ties(r)
BY DEF Fresh, Ties, Owning, Owners, Restoring, Aiming, Renewals, Syncs

LEMMA LastOn ==
    ASSUME Types, Lasting, NEW h \in Handlers, Turn(h), NEW r, Goto(h, r), OneOpen',
           (\A k \in hooks : k.kind = "renewal" => Open(k.id))', Fresh(r)', NEW w, w = row', Unbroken' => Lasts(r, w)'
    PROVE  Lasting'
<1>1. req'[h] = r /\ \A g \in Handlers : g # h => req'[g] = req[g] /\ req'[g].pc = "idle"
    BY LastsNow DEF Goto, Types, RequestsOK
<1>2. Alone'
    BY <1>1 DEF Alone
<1>3. \A g \in Handlers : Fresh(req[g])'
    <2> SUFFICES ASSUME NEW g \in Handlers PROVE Fresh(req[g])'
        OBVIOUS
    <2>1. CASE g = h
        BY <1>1, <2>1 DEF Fresh
    <2>2. CASE g # h
        BY <1>1, <2>2 DEF Fresh, Owning, Owners, Renewals, Syncs
    <2> QED
        BY <2>1, <2>2
<1>4. ASSUME Unbroken', NEW g \in Handlers PROVE Ties(req[g])'
    <2>1. CASE g = h
        BY <1>1, <1>4, <2>1 DEF Lasts, Ties
    <2>2. CASE g # h
        BY <1>1, <2>2 DEF Ties, Restoring, Aiming, Syncs
    <2> QED
        BY <2>1, <2>2
<1>5. ASSUME Unbroken', (\A g \in Handlers : req[g].pc \notin Syncs)' PROVE Tied(row)'
    <2>1. r.pc \notin Syncs
        BY <1>1, <1>5
    <2> QED
        BY <1>5, <2>1 DEF Lasts, Tied
<1> QED
    BY <1>2, <1>3, <1>4, <1>5 DEF Lasting

LEMMA StillOpen ==
    ASSUME UNCHANGED market
    PROVE  /\ OneOpen' = OneOpen /\ hooks' = hooks /\ \A s : Open(s)' = Open(s)
           /\ \A r, w : Fresh(r)' = Fresh(r) /\ Lasts(r, w)' = Lasts(r, w)
BY DEF market, OneOpen, Open, Fresh, Owning, NoRenewals, NoneOpen, Lasts, Ties, Tied, OnlyOpen, Restoring

\* A step that leaves the market alone.
LEMMA LastStill ==
    ASSUME Types, Lasting, NEW h \in Handlers, Turn(h), NEW r, Goto(h, r), UNCHANGED market, Fresh(r),
           NEW w, w = row', Unbroken' => Lasts(r, w)
    PROVE  Lasting'
<1>1. OneOpen' /\ (\A k \in hooks : k.kind = "renewal" => Open(k.id))' /\ Fresh(r)' /\ (Unbroken' => Lasts(r, w)')
    BY StillOpen DEF Lasting
<1> QED
    BY <1>1, LastOn

LEMMA QuietLasts ==
    ASSUME Lasting, Quiet
    PROVE  Unbroken => Tied(row)
<1>1. \A h \in Handlers : req[h].pc \notin Syncs
    BY AllIdle DEF Syncs
<1> QED
    BY <1>1 DEF Lasting

\* The market beside no request, or where the same subscriptions stay open.
LEMMA SameOpen ==
    ASSUME Types, Lasting, UNCHANGED <<row, req>>, (Unbroken' => Unbroken),
           \A s \in Subs : Open(s)' = Open(s),
           \A k \in hooks' : k \in hooks \/ k.kind # "renewal" \/ (Quiet /\ Open(k.id)'),
           hooks \subseteq hooks'
    PROVE  Lasting'
<1>0. hooks \subseteq Hook
    BY DEF Types, MarketOK
<1>1. Alone' /\ OneOpen' /\ NoneOpen' = NoneOpen
    BY DEF Lasting, Alone, OneOpen, NoneOpen
<1>2. (\A k \in hooks : k.kind = "renewal" => Open(k.id))'
    BY <1>0, HookIs DEF Lasting
<1>3. \A h \in Handlers : Fresh(req[h])'
    <2> SUFFICES ASSUME NEW h \in Handlers PROVE Fresh(req[h])'
        OBVIOUS
    <2>1. PICK r : r = req[h] /\ r = req'[h]
        OBVIOUS
    <2>2. Fresh(r)
        BY <2>1 DEF Lasting
    <2>3. Owning(r) => NoRenewals'
        <3>1. Quiet => ~Owning(r)
            BY <2>1, AllIdle DEF Owning, Owners, Syncs
        <3> QED
            BY <2>2, <3>1 DEF Fresh, NoRenewals
    <2>4. Fresh(r)'
        BY <1>1, <2>2, <2>3 DEF Fresh, Owning
    <2> QED
        BY <2>1, <2>4 DEF Fresh, Owning
<1>4. ASSUME Unbroken', NEW h \in Handlers PROVE Ties(req[h])'
    <2>1. PICK r : r = req[h] /\ r = req'[h]
        OBVIOUS
    <2>2. Ties(r) /\ (Quiet => r.pc = "idle")
        BY <1>4, <2>1, AllIdle DEF Lasting
    <2>3. Ties(r)'
        BY <1>1, <2>2 DEF Ties, Tied, OnlyOpen, Restoring
    <2> QED
        BY <2>1, <2>3 DEF Ties, Restoring
<1>5. Unbroken' /\ (\A h \in Handlers : req[h].pc \notin Syncs)' => Tied(row)'
    BY DEF Lasting, Tied
<1> QED
    BY <1>1, <1>2, <1>3, <1>4, <1>5 DEF Lasting

LEMMA MarketLasts == ASSUME Types, Lasting, Recoverable', Market, hist \subseteq hist' PROVE Lasting'
<1>0. (Unbroken' => Unbroken) /\ mollie \in [Subs -> Sub]
    BY DEF Unbroken, Types, MarketOK
<1>1. ASSUME NEW p \in Pays, PayFirst(p) PROVE Lasting'
    <2>1. UNCHANGED <<row, req, mollie>> /\ hooks' = hooks \cup {[kind |-> "first", id |-> p, paid |-> TRUE]}
        BY <1>1 DEF PayFirst
    <2>2. \A s \in Subs : Open(s)' = Open(s)
        BY <2>1 DEF Open
    <2> QED
        BY <1>0, <2>1, <2>2, SameOpen
<1>2. ASSUME NEW s \in Subs, Charge(s) \/ Recover(s) PROVE Lasting'
    <2>1. PICK paid \in BOOLEAN : hooks' = Renewal(s, paid) /\ UNCHANGED <<row, req>> /\ Quiet
        BY <1>2, QuietOr DEF Charge, Recover
    <2>2. /\ Open(s) /\ mollie'[s].st \in {"active", "suspended"}
          /\ \A t \in Subs : t # s => mollie'[t] = mollie[t]
        <3>1. CASE Charge(s)
            BY <1>0, <3>1 DEF Charge, Open, Sub
        <3>2. CASE Recover(s)
            BY <1>0, <3>2 DEF Recover, Open, Sub
        <3> QED
            BY <1>2, <3>1, <3>2
    <2>3. \A t \in Subs : Open(t)' = Open(t)
        BY <2>2 DEF Open
    <2>4. hooks \subseteq hooks' /\ \A k \in hooks' : k \in hooks \/ k.id = s
        BY <2>1 DEF Renewal
    <2> QED
        BY <1>0, <2>1, <2>2, <2>3, <2>4, SameOpen
<1>3. CASE NewMandate
    <2>1. /\ UNCHANGED <<row, req, mollie>>
          /\ hooks' = hooks \cup {[kind |-> "mandate", id |-> None, paid |-> TRUE]}
        BY <1>3 DEF NewMandate
    <2>2. \A s \in Subs : Open(s)' = Open(s)
        BY <2>1 DEF Open
    <2> QED
        BY <1>0, <2>1, <2>2, SameOpen
<1>4. CASE Tick
    <2>1. UNCHANGED <<row, req, mollie, hooks>>
        BY <1>4 DEF Tick
    <2>2. \A s \in Subs : Open(s)' = Open(s)
        BY <2>1 DEF Open
    <2> QED
        BY <1>0, <2>1, <2>2, SameOpen
<1> QED
    BY <1>1, <1>2, <1>3, <1>4 DEF Market

LEMMA DeliverLasts ==
    ASSUME Types, Lasting, Recoverable', Unbroken' => Unbroken, NEW h \in Handlers, Deliver(h)
    PROVE  Lasting'
<1>1. PICK k \in hooks : Begin(h, [Idle EXCEPT !.pc = "fetch", !.hook = k]) /\ Quiet
    BY NoneBroken, QuietOr DEF Deliver
<1>2. PICK r : r = [Idle EXCEPT !.pc = "fetch", !.hook = k]
    OBVIOUS
<1>3. r.pc = "fetch" /\ r.hook = k /\ r.seen = NewRow
    BY <1>2 DEF Idle
<1>4. Goto(h, r) /\ UNCHANGED <<row, market>> /\ Turn(h)
    BY <1>1, <1>2 DEF Begin, Turn, Deliver
<1>5. Fresh(r)
    BY <1>1, <1>3 DEF Fresh, Owning, Owners, Renewals, Syncs
<1>6. Unbroken => Lasts(r, row)
    BY <1>1, <1>3, QuietLasts DEF Lasts, Ties, Restoring, Aiming, Syncs
<1> QED
    BY <1>4, <1>5, <1>6, LastStill

LEMMA AnsweredLasts ==
    ASSUME Types, Lasting, Unbroken' => Unbroken, NEW h \in Handlers, Turn(h), Goto(h, Answered(h)), UNCHANGED market,
           NEW w, w = row', Unbroken' => Tied(w)
    PROVE  Lasting'
<1>1. PICK r : r = Answered(h)
    OBVIOUS
<1>2. r.pc = "done"
    BY <1>1, AnsweredIs
<1>3. Fresh(r) /\ (Unbroken' => Lasts(r, w))
    BY <1>2 DEF Fresh, Owning, Owners, Lasts, Ties, Restoring, Aiming, Renewals, Syncs
<1> QED
    BY <1>1, <1>3, LastStill

\* The request copies a subscription that is open.
LEMMA CopyLasts ==
    ASSUME Types, Lasting, Unbroken' => Unbroken, NEW h \in Handlers, Turn(h), UNCHANGED <<row, market>>,
           NEW s \in Subs, Unbroken => \A t \in Subs : Open(t) => t = s, NEW m, Open(s) => m.st = mollie[s].st,
           NEW q \in Request \cup {Idle}, NEW ret \in Returns, NEW clear, NEW keep,
           ret \in {"cut", "fin", "cpay"} => NoRenewals, ret = "restore" => (Unbroken => Tied(q.ent)),
           Goto(h, Syncing(q, s, m, ret, clear, keep))
    PROVE  Lasting'
<1>1. PICK r : r = Syncing(q, s, m, ret, clear, keep)
    OBVIOUS
<1>2. r.pc = "sync" /\ r.id = s /\ r.sub = m /\ r.ret = ret /\ r.ent = q.ent
    BY <1>1 DEF Syncing, Request, Idle
<1>3. Fresh(r)
    BY <1>2 DEF Fresh, Owning, Owners, Renewals, Syncs
<1>4. Unbroken => Lasts(r, row)
    BY <1>2 DEF Lasts, Ties, Open, Restoring, Aiming, Syncs
<1> QED
    BY <1>1, <1>3, <1>4, LastStill

\* What is created where nothing is open is the one that is open.
LEMMA CreateLasts ==
    ASSUME Types, Lasting, NEW h \in Handlers, Turn(h), NoneOpen, UNCHANGED row,
           NEW s \in Subs, NEW plan, NEW from, Create(s, plan, from),
           NEW q \in Request \cup {Idle}, NEW ret \in {"done", "idle"}, NEW clear, NEW keep,
           Goto(h, Syncing(q, s, mollie'[s], ret, clear, keep))
    PROVE  Lasting'
<1>1. PICK m : m = mollie'[s]
    OBVIOUS
<1>2. PICK r : r = Syncing(q, s, m, ret, clear, keep)
    OBVIOUS
<1>3. r.pc = "sync" /\ r.id = s /\ r.sub = m /\ r.ret = ret
    BY <1>2 DEF Syncing, Request, Idle
<1>4. m.st = "active" /\ UNCHANGED hooks /\ \A t \in Subs : t # s => mollie'[t] = mollie[t]
    BY <1>1 DEF Create, Types, MarketOK
<1>5. \A t \in Subs : Open(t)' => t = s
    BY <1>4 DEF Open, NoneOpen
<1>6. NoRenewals /\ NoRenewals'
    <2>1. hooks \subseteq Hook
        BY DEF Types, MarketOK
    <2> QED
        BY <1>4, <2>1, HookIs DEF Lasting, NoneOpen, NoRenewals
<1>7. OneOpen' /\ (\A k \in hooks : k.kind = "renewal" => Open(k.id))'
    BY <1>5, <1>6 DEF OneOpen, NoRenewals
<1>8. Fresh(r)'
    BY <1>3 DEF Fresh, Owning, Owners, Renewals, Syncs
<1>9. PICK w : w = row'
    OBVIOUS
<1>10. Lasts(r, w)'
    BY <1>3, <1>4, <1>5 DEF Lasts, Ties, Restoring, Aiming, Syncs
<1>11. Goto(h, r)
    BY <1>1, <1>2
<1> QED
    BY <1>7, <1>8, <1>9, <1>10, <1>11, LastOn

LEMMA FetchLasts ==
    ASSUME Types, Lasting, Unbroken' => Unbroken, NEW h \in Handlers, Fetch(h)
    PROVE  Lasting'
<1>1. PICK q \in Request : q = req[h] /\ q.pc = "fetch" /\ Turn(h) /\ Fresh(q) /\ (Unbroken => Lasts(q, row))
    BY LastsNow, GoodIs DEF Fetch, At, Turn
<1>2. CASE Goto(h, Answered(h))
    BY <1>1, <1>2, AnsweredLasts DEF Fetch, Lasts, Syncs
<1>3. ASSUME NEW pc \in {"existing", "state", "entitle"}, Step(h, pc)
      PROVE  Lasting'
    <2>1. PICK r : r = [q EXCEPT !.pc = pc]
        OBVIOUS
    <2>2. r.pc = pc /\ r.hook = q.hook /\ r.seen = q.seen
        BY <2>1 DEF Request
    <2>3. Fresh(r)
        BY <1>1, <2>2 DEF Fresh, Owning, Owners, Renewals, Syncs
    <2>4. Unbroken => Lasts(r, row)
        BY <1>1, <2>2 DEF Lasts, Ties, Restoring, Aiming, Syncs
    <2> QED
        BY <1>1, <1>3, <2>1, <2>3, <2>4, LastStill DEF Fetch, Step
<1>4. (\E pc \in {"existing", "state", "entitle"} : Step(h, pc)) \/ Goto(h, Answered(h))
    BY DEF Fetch
<1> QED
    BY <1>2, <1>3, <1>4

\* Who creates has seen that Mollie lists nothing.
LEMMA FirstLasts ==
    ASSUME Types, Lasting, Recoverable', Unbroken' => Unbroken, NEW h \in Handlers, First(h)
    PROVE  Lasting'
<1>0. req[h].pc \in Firsts
    BY DEF First, LookExisting, GetExisting, ListExisting, Claim, Take, TakeAgain, CreateFirst, Release, At,
            Firsts
<1>1. PICK q \in Request : /\ q = req[h] /\ q.pc \in Firsts /\ Turn(h) /\ Fresh(q) /\ (Unbroken => Tied(row))
                           /\ q.pc \in {"claim", "take", "again", "create", "release"} => NoneOpen
    BY <1>0, LastsNow, GoodIs DEF Turn, Firsts, Lasts, Fresh, Syncs
\* Within it, with a row that is as good.
<1>2. ASSUME NEW pc \in Firsts, NEW r, Goto(h, r), UNCHANGED market, NEW w, w = row',
             \/ r = [q EXCEPT !.pc = pc]
             \/ \E id : r = [q EXCEPT !.pc = pc, !.id = id],
             pc \in {"claim", "take", "again", "create", "release"} => NoneOpen, Unbroken => Tied(w)
      PROVE  Lasting'
    <2>1. r.pc = pc
        BY <1>2 DEF Request
    <2>2. Fresh(r)
        BY <1>2, <2>1 DEF Fresh, Owning, Owners, Firsts, Renewals, Syncs
    <2>3. Unbroken => Lasts(r, w)
        BY <1>2, <2>1 DEF Lasts, Ties, Restoring, Aiming, Firsts, Syncs
    <2> QED
        BY <1>1, <1>2, <2>2, <2>3, LastStill
<1>3. ASSUME NEW s \in Subs, Open(s), Goto(h, Activating(q, s)), UNCHANGED <<row, market>> PROVE Lasting'
    <2>1. PICK m : m = [mollie[s] EXCEPT !.plan = pay[q.hook.id].plan]
        OBVIOUS
    <2>2. m.st = mollie[s].st
        BY <2>1 DEF Types, MarketOK, Sub
    <2>3. \A t \in Subs : Open(t) => t = s
        BY <1>3 DEF Lasting, OneOpen
    <2>4. Goto(h, Syncing(q, s, m, "done", TRUE, FALSE))
        BY <1>3, <2>1 DEF Activating
    <2> QED
        BY <1>1, <1>3, <2>2, <2>3, <2>4, CopyLasts DEF Returns
<1>4. CASE LookExisting(h)
    <2>1. \/ Goto(h, [q EXCEPT !.pc = "get", !.id = row.sid])
          \/ Goto(h, [q EXCEPT !.pc = "list"])
        BY <1>1, <1>4 DEF LookExisting, Step
    <2> QED
        BY <1>1, <1>2, <1>4, <2>1 DEF LookExisting, Firsts
<1>5. CASE GetExisting(h)
    <2>1. q.id \in Subs
        BY <1>1, <1>5, GoodIs DEF GetExisting, At, RequestOK
    <2>2. \/ Open(q.id) /\ Goto(h, Activating(q, q.id))
          \/ Goto(h, [q EXCEPT !.pc = "list", !.id = None])
        BY <1>1, <1>5 DEF GetExisting
    <2> QED
        BY <1>1, <1>2, <1>3, <1>5, <2>1, <2>2 DEF GetExisting, Firsts
<1>6. CASE ListExisting(h)
    <2>1. \/ \E s \in Subs : Open(s) /\ Goto(h, Activating(q, s))
          \/ NoneOpen /\ Goto(h, [q EXCEPT !.pc = "claim"])
        BY <1>1, <1>6, NoneBroken DEF ListExisting, NoneOpen, Step
    <2> QED
        BY <1>1, <1>2, <1>3, <1>6, <2>1 DEF ListExisting, Firsts
\* Once it is claimed, nothing is open.
<1>7. ASSUME NoneOpen, NEW pc \in Firsts, NEW r, Goto(h, r), UNCHANGED market,
             r = [q EXCEPT !.pc = pc] \/ \E id : r = [q EXCEPT !.pc = pc, !.id = id]
      PROVE  Lasting'
    <2>1. PICK w : w = row'
        OBVIOUS
    <2>2. Tied(w)
        BY <1>7 DEF Tied, NoneOpen
    <2> QED
        BY <1>2, <1>7, <2>1, <2>2
<1>8. ASSUME NoneOpen, Goto(h, Answered(h)), UNCHANGED market PROVE Lasting'
    <2>1. PICK w : w = row'
        OBVIOUS
    <2>2. Tied(w)
        BY <1>8 DEF Tied, NoneOpen
    <2> QED
        BY <1>1, <1>8, <2>1, <2>2, AnsweredLasts
<1>9. CASE Claim(h)
    <2>1. NoneOpen /\ UNCHANGED market
        BY <1>1, <1>9 DEF Claim, At
    <2>2. \/ Goto(h, Answered(h)) \/ Goto(h, [q EXCEPT !.pc = "create"])
          \/ \E id : Goto(h, [q EXCEPT !.pc = "take", !.id = id])
        BY <1>1, <1>9 DEF Claim, Step
    <2> QED
        BY <1>7, <1>8, <2>1, <2>2 DEF Firsts
<1>10. CASE Take(h)
    <2>1. NoneOpen /\ UNCHANGED market
        BY <1>1, <1>10 DEF Take, At
    <2>2. \/ Goto(h, [q EXCEPT !.pc = "create", !.id = None])
          \/ Goto(h, [q EXCEPT !.pc = "again", !.id = None])
        BY <1>1, <1>10 DEF Take
    <2> QED
        BY <1>7, <2>1, <2>2 DEF Firsts
<1>11. CASE TakeAgain(h)
    <2>1. NoneOpen /\ UNCHANGED market
        BY <1>1, <1>11 DEF TakeAgain, At
    <2>2. Goto(h, [q EXCEPT !.pc = "create"]) \/ Goto(h, Answered(h))
        BY <1>1, <1>11 DEF TakeAgain
    <2> QED
        BY <1>7, <1>8, <2>1, <2>2 DEF Firsts
<1>12. CASE Release(h)
    <2>1. NoneOpen /\ UNCHANGED market
        BY <1>1, <1>12 DEF Release, At
    <2> QED
        BY <1>8, <1>12, <2>1 DEF Release
<1>13. CASE CreateFirst(h)
    <2>1. NoneOpen
        BY <1>1, <1>13 DEF CreateFirst, At
    <2>2. CASE Goto(h, [q EXCEPT !.pc = "release"]) /\ UNCHANGED market
        BY <1>7, <2>1, <2>2 DEF Firsts
    <2>3. ASSUME NEW s \in Subs, Create(s, pay[q.hook.id].plan, now + Interval), UNCHANGED row,
                 Goto(h, Syncing(q, s, mollie'[s], "done", TRUE, FALSE))
          PROVE  Lasting'
        BY <1>1, <2>1, <2>3, CreateLasts
    <2> QED
        BY <1>1, <1>13, <2>2, <2>3 DEF CreateFirst, Hooking, Step
<1> QED
    BY <1>4, <1>5, <1>6, <1>9, <1>10, <1>11, <1>12, <1>13 DEF First

LEMMA TiedSame ==
    ASSUME NEW v, NEW w, w.sid = v.sid, ~v.soft => ~w.soft
    PROVE  Tied(v) => Tied(w)
BY DEF Tied

LEMMA TiedLoaded ==
    ASSUME NEW w \in Row, Tied(w)
    PROVE  /\ Tied(Stamped(w)) /\ Tied(Entitled(w)) /\ Tied(Loaded(w))
           /\ Entitled(w).soft => NoneOpen
           /\ PeriodOver(w) => NoneOpen
           /\ Entitled(w).sid = w.sid
           /\ w.sid # None => OnlyOpen(w.sid)
<1>1. Tied(Stamped(w))
    <2>1. PICK x : x = Stamped(w)
        OBVIOUS
    <2> QED
        BY <2>1, StampedIs, TiedSame
<1>2. Entitled(w).sid = w.sid /\ (Entitled(w).soft => w.soft)
    BY DEF Entitled, Row
<1>3. w.soft => NoneOpen
    BY DEF Tied, NoneOpen
<1>4. PeriodOver(w) => NoneOpen
    BY <1>3 DEF PeriodOver
<1>5. Tied(Loaded(w))
    <2>1. CASE NoneOpen
        BY <2>1 DEF Tied, NoneOpen
    <2>2. CASE ~PeriodOver(w)
        BY <1>1, <2>2 DEF Loaded
    <2> QED
        BY <1>4, <2>1, <2>2
<1>6. Tied(Entitled(w))
    BY <1>2 DEF Tied
<1>7. w.sid # None => OnlyOpen(w.sid)
    BY DEF Tied, OnlyOpen
<1> QED
    BY <1>1, <1>2, <1>3, <1>4, <1>5, <1>6, <1>7

\* A row that was read blind has forgotten its subscription, and not that it goes on.
LEMMA TiedBlind ==
    ASSUME NEW w \in Row, Tied(w), NEW e \in Blind(w)
    PROVE  Tied(e) /\ Tied(LoadedBlind(w, e))
<1>1. Tied(NewRow)
    BY DEF Tied, NewRow
<1>2. PICK v \in Row : v = [w EXCEPT !.sid = None] /\ v.sid = None /\ v.soft = w.soft
    <2>1. PICK v : v = [w EXCEPT !.sid = None]
        OBVIOUS
    <2>2. v \in Row /\ v.sid = None /\ v.soft = w.soft
        BY <2>1 DEF Row
    <2> QED
        BY <2>1, <2>2
<1>3. Tied(v) /\ Tied(Entitled(v))
    <2>1. Tied(v)
        BY <1>2 DEF Tied
    <2> QED
        BY <2>1, TiedLoaded
<1>4. Tied(e)
    BY <1>1, <1>2, <1>3 DEF Blind
<1>5. PeriodOver(w) => Tied(Ended(None))
    BY TiedLoaded DEF Tied, NoneOpen
<1> QED
    BY <1>4, <1>5, TiedLoaded DEF LoadedBlind

LEMMA RenewedLasts ==
    ASSUME Types, Lasting, Recoverable', Unbroken' => Unbroken, NEW h \in Handlers, Renewed(h)
    PROVE  Lasting'
<1>0. req[h].pc \in Renewals
    BY DEF Renewed, LookRenewed, StampFailed, GetRenewed, At, Renewals
<1>1. PICK q \in Request : /\ q = req[h] /\ q.pc \in Renewals /\ Turn(h) /\ Fresh(q) /\ (Unbroken => Lasts(q, row))
                           /\ q.hook.kind = "renewal"
    BY <1>0, LastsNow, GoodIs DEF Turn, Renewals, RequestOK
<1>2. q.hook \in hooks /\ Open(q.hook.id) /\ q.hook.id \in Subs /\ (Unbroken => Tied(row)) /\ row \in Row
    <2>1. q.hook \in hooks /\ hooks \subseteq Hook
        BY <1>1 DEF Fresh, Types, MarketOK
    <2> QED
        BY <1>1, <2>1, HookIs DEF Lasting, Lasts, Renewals, Syncs, Types
<1>3. ASSUME NEW r, Goto(h, r), r.pc \in {"getsub", "stamp"}, r.hook = q.hook, UNCHANGED market, NEW w, w = row',
             Unbroken => Tied(w) /\ (r.seen = NewRow \/ Tied(r.seen))
      PROVE  Lasting'
    <2>1. Fresh(r)
        BY <1>2, <1>3 DEF Fresh, Owning, Owners, Syncs
    <2>2. Unbroken => Lasts(r, w)
        BY <1>3 DEF Lasts, Ties, Restoring, Aiming, Syncs
    <2> QED
        BY <1>1, <1>3, <2>1, <2>2, LastStill
<1>4. CASE LookRenewed(h)
    <2>0. UNCHANGED <<row, market>> /\ q.pc = "state"
        BY <1>1, <1>4 DEF LookRenewed, At
    <2>1. CASE Goto(h, Answered(h))
        BY <1>1, <1>2, <2>0, <2>1, AnsweredLasts
    <2>2. PICK w : w = row
        OBVIOUS
    <2>3. ASSUME NEW pc \in {"getsub", "stamp"}, NEW r, Goto(h, r),
                 r = [q EXCEPT !.seen = w, !.pc = pc] \/ r = [q EXCEPT !.pc = pc]
          PROVE  Lasting'
        <3>1. r.pc = pc /\ r.hook = q.hook /\ (r.seen = w \/ r.seen = q.seen)
            BY <2>3 DEF Request
        <3>2. Unbroken => q.seen = NewRow
            BY <1>1, <2>0 DEF Lasts, Ties
        <3> QED
            BY <1>2, <1>3, <2>0, <2>2, <2>3, <3>1, <3>2
    <2> QED
        BY <1>1, <1>4, <2>1, <2>2, <2>3 DEF LookRenewed, Hooking, Step
<1>5. CASE StampFailed(h)
    <2>1. PICK r : r = [q EXCEPT !.pc = "getsub"]
        OBVIOUS
    <2>2. r.pc = "getsub" /\ r.hook = q.hook /\ r.seen = q.seen
        BY <2>1 DEF Request
    <2>3. Goto(h, r) /\ UNCHANGED market /\ row' \in {row, Stamped(row)} /\ q.pc = "stamp"
        BY <1>1, <1>5, <2>1 DEF StampFailed, Step, At
    <2>4. PICK w \in {row, Stamped(row)} : w = row'
        BY <2>3
    <2>5. Unbroken => Tied(w) /\ (q.seen = NewRow \/ Tied(q.seen))
        BY <1>1, <1>2, <2>3, <2>4, TiedLoaded DEF Lasts, Ties
    <2> QED
        BY <1>3, <2>2, <2>3, <2>4, <2>5
<1>6. CASE GetRenewed(h)
    <2>1. q.pc = "getsub" /\ UNCHANGED market
        BY <1>1, <1>6 DEF GetRenewed, At
    <2>2. CASE /\ Goto(h, Syncing(q, q.hook.id, mollie[q.hook.id], "done", q.hook.paid, ~q.hook.paid))
               /\ UNCHANGED row
        <3>1. PICK m, keep : m = mollie[q.hook.id] /\ keep = ~q.hook.paid
            OBVIOUS
        <3>2. Goto(h, Syncing(q, q.hook.id, m, "done", q.hook.paid, keep))
            BY <2>2, <3>1
        <3>3. \A t \in Subs : Open(t) => t = q.hook.id
            BY <1>2 DEF Lasting, OneOpen
        <3> QED
            BY <1>1, <1>2, <2>1, <2>2, <3>1, <3>2, <3>3, CopyLasts DEF Returns
    <2>3. CASE /\ Goto(h, Answered(h))
               /\ row' = IF q.hook.paid \/ q.seen = NewRow THEN row
                         ELSE [q.seen EXCEPT !.plan = IF @ = Free THEN Basic ELSE @, !.st = "past_due", !.due = row.due]
        <3>1. PICK w : w = row'
            OBVIOUS
        <3>2. w = row \/ (w.sid = q.seen.sid /\ w.soft = q.seen.soft /\ q.seen # NewRow)
            BY <1>1, <2>3, <3>1, Fields DEF Row
        <3>3. Unbroken => Tied(w)
            <4>1. Unbroken => q.seen = NewRow \/ Tied(q.seen)
                BY <1>1, <2>1 DEF Lasts, Ties
            <4> QED
                BY <1>2, <3>2, <4>1, TiedSame
        <3> QED
            BY <1>1, <2>1, <2>3, <3>1, <3>3, AnsweredLasts
    <2> QED
        BY <1>1, <1>6, <2>2, <2>3 DEF GetRenewed, Hooking
<1> QED
    BY <1>4, <1>5, <1>6 DEF Renewed

LEMMA MandateLasts ==
    ASSUME Types, Lasting, Recoverable', Unbroken' => Unbroken, NEW h \in Handlers, Mandate(h)
    PROVE  Lasting'
<1>0. req[h].pc \in {"entitle", "update", "restore"}
    BY DEF Mandate, Entitle, EntitleBlind, UpdateMandate, Restore, At
<1>1. PICK q \in Request : /\ q = req[h] /\ q.pc \in {"entitle", "update", "restore"} /\ Turn(h)
                           /\ (Unbroken => Ties(q) /\ Tied(row)) /\ row \in Row /\ q.ent \in Row
    BY <1>0, LastsNow, GoodIs, Fields DEF Turn, Lasts, Syncs, Types
\* To the statement that gives the row what it said.
<1>2. ASSUME NEW r, Goto(h, r), r.pc \in {"update", "restore"}, UNCHANGED market, NEW w, w = row',
             Unbroken => Tied(w) /\ Tied(r.ent) /\ (r.pc = "update" => OnlyOpen(r.id))
      PROVE  Lasting'
    <2>1. Fresh(r)
        BY <1>2 DEF Fresh, Owning, Owners, Renewals, Syncs
    <2>2. Unbroken => Lasts(r, w)
        BY <1>2 DEF Lasts, Ties, Restoring, Aiming, Syncs
    <2> QED
        BY <1>1, <1>2, <2>1, <2>2, LastStill
<1>3. CASE Entitle(h)
    <2>1. PICK e, w : e = Entitled(row) /\ w = row' /\ w \in {row, Loaded(row)}
        BY <1>3 DEF Entitle
    <2>2. PICK pc \in {"update", "restore"} :
              Goto(h, [q EXCEPT !.ent = e, !.id = e.sid, !.pc = pc]) /\ (pc = "update" => e.sid # None)
        BY <1>1, <1>3, <2>1 DEF Entitle
    <2>3. PICK r : r = [q EXCEPT !.ent = e, !.id = e.sid, !.pc = pc]
        OBVIOUS
    <2>4. r.pc = pc /\ r.ent = e /\ r.id = e.sid
        BY <2>3 DEF Request
    <2>5. Unbroken => Tied(w) /\ Tied(e) /\ (pc = "update" => OnlyOpen(e.sid))
        BY <1>1, <2>1, <2>2, TiedLoaded
    <2> QED
        BY <1>2, <1>3, <2>1, <2>2, <2>3, <2>4, <2>5 DEF Entitle
<1>3a. CASE EntitleBlind(h)
    <2>1. PICK e \in Blind(row) : /\ Goto(h, [q EXCEPT !.ent = e, !.id = None, !.pc = "restore"])
                                  /\ row' = LoadedBlind(row, e) /\ UNCHANGED market
        BY <1>1, <1>3a DEF EntitleBlind
    <2>2. PICK w : w = LoadedBlind(row, e)
        OBVIOUS
    <2>3. PICK r : r = [q EXCEPT !.ent = e, !.id = None, !.pc = "restore"]
        OBVIOUS
    <2>4. r.pc = "restore" /\ r.ent = e
        BY <2>3 DEF Request
    <2>5. Unbroken => Tied(w) /\ Tied(e)
        BY <1>1, <2>2, TiedBlind
    <2> QED
        BY <1>2, <2>1, <2>2, <2>3, <2>4, <2>5
<1>4. CASE UpdateMandate(h)
    <2>0. UNCHANGED <<row, market>> /\ q.pc = "update"
        BY <1>1, <1>4 DEF UpdateMandate, At
    <2>1. CASE Goto(h, [q EXCEPT !.pc = "restore"])
        <3>1. PICK r : r = [q EXCEPT !.pc = "restore"]
            OBVIOUS
        <3>2. r.pc = "restore" /\ r.ent = q.ent
            BY <3>1 DEF Request
        <3> QED
            BY <1>1, <1>2, <2>0, <2>1, <3>1, <3>2 DEF Ties, Restoring
    <2>2. CASE /\ Real(q.id) /\ Open(q.id)
               /\ Goto(h, Syncing(q, q.id, mollie[q.id], "restore", FALSE, FALSE))
        <3>1. PICK m : m = mollie[q.id]
            OBVIOUS
        <3>2. \A t \in Subs : Open(t) => t = q.id
            BY <2>2 DEF Lasting, OneOpen, Real
        <3>3. Unbroken => Tied(q.ent)
            BY <1>1, <2>0 DEF Ties, Restoring
        <3>4. Goto(h, Syncing(q, q.id, m, "restore", FALSE, FALSE)) /\ q.id \in Subs
            BY <2>2, <3>1 DEF Real
        <3> QED
            BY <1>1, <2>0, <3>1, <3>2, <3>3, <3>4, CopyLasts DEF Returns
    <2> QED
        BY <1>1, <1>4, <2>1, <2>2 DEF UpdateMandate, Step
<1>5. CASE Restore(h)
    <2>1. q.pc = "restore" /\ UNCHANGED market /\ Goto(h, Answered(h))
        BY <1>1, <1>5 DEF Restore, At
    <2>2. PICK w : w = row'
        OBVIOUS
    <2>3. w = [q.ent EXCEPT !.due = row.due] \/ w = row
        BY <1>1, <1>5, <2>2 DEF Restore
    <2>4. w = row \/ (w.sid = q.ent.sid /\ w.soft = q.ent.soft)
        BY <1>1, <2>3 DEF Row
    <2>5. Unbroken => Tied(w)
        BY <1>1, <2>1, <2>4, TiedSame DEF Ties, Restoring
    <2> QED
        BY <1>1, <2>1, <2>2, <2>5, AnsweredLasts
<1> QED
    BY <1>3, <1>3a, <1>4, <1>5 DEF Mandate

LEMMA DoneLasts ==
    ASSUME Types, Lasting, Recoverable', Unbroken' => Unbroken, NEW h \in Handlers, Done(h)
    PROVE  Lasting'
<1>1. PICK q \in Request : q = req[h] /\ q.pc = "done" /\ Turn(h) /\ (Unbroken => Tied(row))
    BY LastsNow, GoodIs DEF Done, At, Turn, Lasts, Syncs
<1>2. hooks' \subseteq hooks /\ UNCHANGED <<row, mollie>> /\ Goto(h, Idle)
    BY NoneBroken DEF Done, End
<1>3. \A s \in Subs : Open(s)' = Open(s)
    BY <1>2 DEF Open
<1>4. hooks \subseteq Hook
    BY DEF Types, MarketOK
<1>5. OneOpen' /\ (\A k \in hooks : k.kind = "renewal" => Open(k.id))'
    BY <1>2, <1>3, <1>4, HookIs DEF Lasting, OneOpen
<1>6. PICK r, w : r = Idle /\ w = row
    OBVIOUS
<1>7. r.pc = "idle"
    BY <1>6 DEF Idle
<1>8. Fresh(r)'
    BY <1>7 DEF Fresh, Owning, Owners, Renewals, Syncs
<1>9. Unbroken' => Lasts(r, w)'
    BY <1>1, <1>3, <1>6, <1>7 DEF Lasts, Ties, Tied, Restoring, Aiming, Syncs
<1> QED
    BY <1>1, <1>2, <1>5, <1>6, <1>8, <1>9, LastOn

LEMMA SyncLasts ==
    ASSUME Types, Lasting, Recoverable', Unbroken' => Unbroken, NEW h \in Handlers, Sync(h)
    PROVE  Lasting'
<1>0. req[h].pc \in Syncs
    BY DEF Sync, SyncRead, SyncDue, SyncMark, SyncWrite, At, Syncs
<1>1. PICK q \in Request : /\ q = req[h] /\ q.pc \in Syncs /\ Turn(h) /\ Fresh(q) /\ (Unbroken => Ties(q))
                           /\ q.ret \in Returns
    BY <1>0, LastsNow, GoodIs DEF Turn, Syncs, Lasts, RequestOK
<1>2. ASSUME NEW r, Goto(h, r), r.pc \in Syncs, r.ret = q.ret, r.ent = q.ent, r.id = q.id, r.sub = q.sub,
             UNCHANGED market, Unbroken => (r.pc \in {"mark", "write"} => Tied(r.seen))
      PROVE  Lasting'
    <2>1. Fresh(r)
        BY <1>1, <1>2 DEF Fresh, Owning, Owners, Renewals, Syncs
    <2>2. PICK w : w = row'
        OBVIOUS
    <2>3. Unbroken => Lasts(r, w)
        BY <1>1, <1>2 DEF Lasts, Ties, Restoring, Aiming, Syncs
    <2> QED
        BY <1>1, <1>2, <2>1, <2>2, <2>3, LastStill
<1>3. CASE SyncRead(h)
    <2>1. PICK w : w = row
        OBVIOUS
    <2>2. PICK r : Goto(h, r) /\ (r = [q EXCEPT !.pc = "due", !.seen = w] \/ r = [q EXCEPT !.pc = "due"])
        BY <1>1, <1>3, <2>1 DEF SyncRead, Step
    <2>3. r.pc = "due" /\ r.ret = q.ret /\ r.ent = q.ent /\ r.id = q.id /\ r.sub = q.sub
        BY <2>2 DEF Request
    <2> QED
        BY <1>2, <1>3, <2>2, <2>3 DEF SyncRead, Syncs
<1>4. CASE SyncDue(h)
    <2>1. PICK d : Goto(h, [q EXCEPT !.seen = Payload(q, d),
                                     !.pc = IF (Payload(q, d).due = 0) = (d = 0) THEN "write" ELSE "mark"])
        BY <1>1, <1>4 DEF SyncDue
    <2>2. PICK w : w = Payload(q, d)
        OBVIOUS
    <2>3. PICK pc \in {"write", "mark"} : Goto(h, [q EXCEPT !.seen = w, !.pc = pc])
        BY <2>1, <2>2
    <2>4. PICK r : r = [q EXCEPT !.seen = w, !.pc = pc]
        OBVIOUS
    <2>5. r.pc = pc /\ r.seen = w /\ r.ret = q.ret /\ r.ent = q.ent /\ r.id = q.id /\ r.sub = q.sub
        BY <2>4 DEF Request
    <2>6. w.sid = q.id /\ (w.soft => q.sub.st = "canceled")
        BY <2>2, PayloadIs DEF Held
    <2>7. Unbroken => Tied(w)
        BY <1>1, <2>6 DEF Ties, Tied
    <2> QED
        BY <1>2, <1>4, <2>3, <2>4, <2>5, <2>7 DEF SyncDue, Syncs
<1>5. CASE SyncMark(h)
    <2>1. PICK r : r = [q EXCEPT !.pc = "write"]
        OBVIOUS
    <2>2. r.pc = "write" /\ r.seen = q.seen /\ r.ret = q.ret /\ r.ent = q.ent /\ r.id = q.id /\ r.sub = q.sub
        BY <2>1 DEF Request
    <2>3. q.pc = "mark" /\ Goto(h, r) /\ UNCHANGED market
        BY <1>1, <1>5, <2>1 DEF SyncMark, At, Step
    <2> QED
        BY <1>1, <1>2, <2>2, <2>3 DEF Ties, Syncs
<1>6. CASE SyncWrite(h)
    <2>1. Goto(h, Synced(q)) /\ UNCHANGED market /\ q.pc = "write"
        BY <1>1, <1>6 DEF SyncWrite, At
    <2>2. PICK r : r = Synced(q)
        OBVIOUS
    <2>3. r.pc = q.ret /\ (q.ret # "idle" => r.ent = q.ent)
        BY <1>1, <2>2, SyncedIs
    <2>4. PICK w : w = row'
        OBVIOUS
    <2>5. Unbroken' => Tied(w)
        <3>1. Unbroken' => w = q.seen
            BY <1>1, <1>6, <2>4, NoneBroken DEF SyncWrite
        <3>2. Unbroken => Tied(q.seen)
            BY <1>1, <2>1 DEF Ties
        <3> QED
            BY <3>1, <3>2
    <2>6. Fresh(r)
        BY <1>1, <2>1, <2>3 DEF Fresh, Owning, Owners, Renewals, Returns, Syncs
    <2>7. Unbroken' => Lasts(r, w)
        BY <1>1, <2>1, <2>3, <2>5 DEF Lasts, Ties, Restoring, Aiming, Returns, Syncs
    <2> QED
        BY <1>1, <2>1, <2>2, <2>4, <2>6, <2>7, LastStill
<1> QED
    BY <1>3, <1>4, <1>5, <1>6 DEF Sync

\* A request of the restaurant or of the day takes a step.
LEMMA OwnLastsNow ==
    ASSUME Types, Lasting, NEW h \in Handlers, req[h].pc \in Owners
    PROVE  /\ Turn(h) /\ NoRenewals /\ req[h] \in Request /\ RequestOK(req[h]) /\ row \in Row
           /\ Unbroken => Ties(req[h]) /\ Tied(row)
<1>1. Turn(h) /\ req[h].pc \notin Syncs
    BY DEF Turn, Owners, Syncs
<1> QED
    BY <1>1, LastsNow DEF Fresh, Owning, Lasts, Types

\* What the next statement asks for.
Points(r) ==
    /\ r.pc \in {"swrite", "recreate", "missing", "hwrite", "finget", "finwrite"} => NoneOpen
    /\ r.pc \in Aiming => OnlyOpen(r.id)
    /\ r.pc \in {"sget", "scancel"} => OnlyOpen(r.ent.sid)

LEMMA OwnLasts ==
    ASSUME Types, Lasting, Unbroken' => Unbroken, NEW h \in Handlers, req[h].pc \in Owners, NEW r, Goto(h, r),
           UNCHANGED market, r.pc \in Owners \cup {"idle"}, NEW w, w = row', Unbroken => Tied(w) /\ Points(r)
    PROVE  Lasting'
<1>1. Turn(h) /\ NoRenewals
    BY OwnLastsNow
<1>2. Fresh(r)
    BY <1>1 DEF Fresh, Owners, Renewals
<1>3. Unbroken => Lasts(r, w)
    BY DEF Lasts, Ties, Points, Restoring, Owners, Syncs
<1> QED
    BY <1>1, <1>2, <1>3, LastStill

LEMMA StartLastsNow ==
    ASSUME Types, Lasting, Recoverable', NEW h, NEW op, NEW r, Start(h, op, r)
    PROVE  /\ Quiet /\ hooks = {} /\ UNCHANGED market /\ Goto(h, r) /\ Turn(h)
           /\ Entitled(row).sid = row.sid
           /\ Unbroken => /\ Tied(row) /\ Tied(row') /\ (row.sid # None => OnlyOpen(row.sid))
                          /\ (Entitled(row).soft => NoneOpen) /\ (PeriodOver(row) => NoneOpen)
<1>1. Quiet /\ hooks = {} /\ UNCHANGED market /\ Goto(h, r) /\ Turn(h)
    BY NoneBroken DEF Start, Begin, Turn
<1>2. row \in Row /\ (Unbroken => Tied(row))
    BY <1>1, QuietLasts DEF Types
<1>3. Unbroken => Tied(row')
    BY <1>2, TiedLoaded DEF Start
<1>4. Entitled(row).sid = row.sid
    BY <1>2 DEF Entitled, Row
<1> QED
    BY <1>1, <1>2, <1>3, <1>4, TiedLoaded

LEMMA StartLasts ==
    ASSUME Types, Lasting, Recoverable', Unbroken' => Unbroken, NEW h \in Handlers, NEW op, NEW r, Start(h, op, r),
           r.pc \in Owners, Unbroken => Points(r)
    PROVE  Lasting'
<1>1. /\ hooks = {} /\ UNCHANGED market /\ Goto(h, r) /\ Turn(h) /\ (Unbroken => Tied(row'))
    BY StartLastsNow
<1>2. Fresh(r)
    BY <1>1 DEF Fresh, NoRenewals, Owners, Renewals
<1>3. PICK w : w = row'
    OBVIOUS
<1>4. Unbroken => Lasts(r, w)
    BY <1>1, <1>3 DEF Lasts, Ties, Points, Restoring, Owners, Syncs
<1> QED
    BY <1>1, <1>2, <1>3, <1>4, LastStill

\* A subscription ends at Mollie.
LEMMA CancelLasts ==
    ASSUME Types, Lasting, Unbroken' => Unbroken, NEW h \in Handlers, req[h].pc \in Owners, NEW id \in Subs, CancelAt(id),
           Unbroken => OnlyOpen(id), UNCHANGED row, NEW r, Goto(h, r),
           r.pc \in {"swrite", "finwrite"} \/ (r.pc = "sync" /\ r.ret \in {"cpay", "fin"})
    PROVE  Lasting'
<1>1. Turn(h) /\ NoRenewals
    BY OwnLastsNow
<1>2. UNCHANGED hooks /\ mollie' = [mollie EXCEPT ![id] = Canceled(@)] /\ mollie \in [Subs -> Sub]
    BY DEF CancelAt, Types, MarketOK
<1>3. \A s \in Subs : Open(s)' => Open(s) /\ s # id
    <2>1. mollie'[id].st = "canceled" /\ \A s \in Subs : s # id => mollie'[s] = mollie[s]
        BY <1>2 DEF Canceled, Sub
    <2> QED
        BY <2>1 DEF Open
<1>4. OneOpen' /\ (\A k \in hooks : k.kind = "renewal" => Open(k.id))'
    BY <1>1, <1>2, <1>3 DEF Lasting, OneOpen, NoRenewals
<1>5. Fresh(r)'
    BY <1>1, <1>2 DEF Fresh, NoRenewals, Renewals
<1>6. Unbroken => NoneOpen'
    BY <1>3 DEF OnlyOpen, NoneOpen
<1>7. PICK w : w = row'
    OBVIOUS
<1>8. Unbroken => Lasts(r, w)'
    BY <1>6 DEF Lasts, Ties, Tied, NoneOpen, Restoring, Aiming, Syncs
<1> QED
    BY <1>1, <1>4, <1>5, <1>7, <1>8, LastOn

LEMMA CheckoutsLast ==
    ASSUME Types, Lasting, Recoverable', Unbroken' => Unbroken, NEW h \in Handlers, Checkouts(h)
    PROVE  Lasting'
<1>1. CASE Checkout(h)
    <2>1. PICK e : e = Entitled(row)
        OBVIOUS
    <2>2. PICK plan, r :
              /\ Start(h, "checkout", r)
              /\ \/ e.sid # None /\ r = [Idle EXCEPT !.pc = "cget", !.plan = plan, !.id = e.sid]
                 \/ r = [Idle EXCEPT !.pc = "cpay", !.plan = plan]
        BY <1>1, <2>1 DEF Checkout
    <2>3. (r.pc = "cget" /\ r.id = e.sid /\ e.sid # None) \/ r.pc = "cpay"
        BY <2>2 DEF Idle
    <2>4. Unbroken => Points(r)
        BY <2>1, <2>2, <2>3, StartLastsNow DEF Points, Aiming
    <2> QED
        BY <2>2, <2>3, <2>4, StartLasts DEF Owners
<1>2. CASE CheckoutGet(h)
    <2>1. PICK q \in Request : q = req[h] /\ q.pc = "cget" /\ (Unbroken => Ties(q) /\ Tied(row))
        BY <1>2, OwnLastsNow DEF CheckoutGet, At, Owners
    <2>2. PICK r : Goto(h, r) /\ (r = [q EXCEPT !.pc = "ccancel"] \/ r = [q EXCEPT !.pc = "cpay", !.id = None])
        BY <1>2, <2>1 DEF CheckoutGet
    <2>3. (r.pc = "ccancel" /\ r.id = q.id) \/ r.pc = "cpay"
        BY <2>2 DEF Request
    <2>4. Unbroken => Points(r)
        BY <2>1, <2>3 DEF Points, Ties, Aiming
    <2> QED
        BY <1>2, <2>1, <2>2, <2>3, <2>4, OwnLasts DEF CheckoutGet, Owners
<1>3. CASE CheckoutCancel(h)
    <2>1. PICK q \in Request : q = req[h] /\ q.pc = "ccancel" /\ (Unbroken => Ties(q) /\ Tied(row)) /\ q.id \in Subs
        BY <1>3, OwnLastsNow DEF CheckoutCancel, At, Owners, RequestOK
    <2>2. CASE /\ CancelAt(q.id) /\ UNCHANGED row
               /\ Goto(h, Syncing(q, q.id, Canceled(mollie[q.id]), "cpay", FALSE, FALSE))
        <3>1. PICK r : r = Syncing(q, q.id, Canceled(mollie[q.id]), "cpay", FALSE, FALSE)
            OBVIOUS
        <3>2. r.pc = "sync" /\ r.ret = "cpay"
            BY <3>1 DEF Syncing, Request
        <3> QED
            BY <2>1, <2>2, <3>1, <3>2, CancelLasts DEF Owners, Ties, Aiming
    <2>3. CASE UNCHANGED <<row, market>> /\ Goto(h, [q EXCEPT !.pc = "cpay", !.id = None])
        <3>1. PICK r : r = [q EXCEPT !.pc = "cpay", !.id = None]
            OBVIOUS
        <3>2. r.pc = "cpay"
            BY <3>1 DEF Request
        <3> QED
            BY <2>1, <2>3, <3>1, <3>2, OwnLasts DEF Owners, Points, Aiming
    <2> QED
        BY <1>3, <2>1, <2>2, <2>3 DEF CheckoutCancel
<1>4. CASE CheckoutPay(h)
    <2>1. PICK q \in Request : q = req[h] /\ q.pc = "cpay" /\ Turn(h) /\ (Unbroken => Tied(row)) /\ row \in Row
        BY <1>4, OwnLastsNow DEF CheckoutPay, At, Owners
    <2>2. UNCHANGED <<mollie, hooks>> /\ Goto(h, Idle)
        BY <1>4 DEF CheckoutPay, End
    <2>3. \A s \in Subs : Open(s)' = Open(s)
        BY <2>2 DEF Open
    <2>4. OneOpen' /\ (\A k \in hooks : k.kind = "renewal" => Open(k.id))'
        <3>1. hooks \subseteq Hook
            BY DEF Types, MarketOK
        <3> QED
            BY <2>2, <2>3, <3>1, HookIs DEF Lasting, OneOpen
    <2>5. PICK r, w : r = Idle /\ w = row'
        OBVIOUS
    <2>6. r.pc = "idle"
        BY <2>5 DEF Idle
    <2>7. w.sid = row.sid /\ w.soft = row.soft
        <3>1. w = row \/ w = [row EXCEPT !.plan = q.plan, !.st = "incomplete", !.end = 0]
            BY <1>4, <2>1, <2>5 DEF CheckoutPay
        <3> QED
            BY <2>1, <3>1 DEF Row
    <2>8. Fresh(r)'
        BY <2>6 DEF Fresh, Owning, Owners, Renewals, Syncs
    <2>9. Unbroken => Tied(w)'
        BY <2>1, <2>3, <2>7 DEF Tied
    <2>10. Unbroken' => Lasts(r, w)'
        BY <2>6, <2>9 DEF Lasts, Ties, Restoring, Aiming, Syncs
    <2> QED
        BY <2>1, <2>2, <2>4, <2>5, <2>8, <2>10, LastOn
<1>5. ~CheckoutBlind(h) /\ ~CheckoutCustomer(h)
    BY NoneBroken DEF CheckoutBlind, CheckoutCustomer, At, Lasting, Fresh
<1> QED
    BY <1>1, <1>2, <1>3, <1>4, <1>5 DEF Checkouts

LEMMA ManagingLasts ==
    ASSUME Types, Lasting, Recoverable', Unbroken' => Unbroken, NEW h \in Handlers, Managing(h)
    PROVE  Lasting'
<1>0. Idle.pc = "idle" /\ Points(Idle)
    BY DEF Idle, Points, Aiming
<1>1. CASE CancelPlan(h)
    <2>1. PICK e : e = Entitled(row)
        OBVIOUS
    <2>2. PICK r : r = [Idle EXCEPT !.pc = "sget", !.ent = e]
        OBVIOUS
    <2>3. r.pc = "sget" /\ r.ent = e
        BY <2>2 DEF Idle
    <2>4. Start(h, "cancel", r) /\ e.sid # None
        BY <1>1, <2>1, <2>2 DEF CancelPlan, Managed
    <2>5. Unbroken => Points(r)
        BY <2>1, <2>3, <2>4, StartLastsNow DEF Points, Aiming
    <2> QED
        BY <2>3, <2>4, <2>5, StartLasts DEF Owners
<1>2. CASE CancelGet(h)
    <2>1. PICK q \in Request : q = req[h] /\ q.pc = "sget" /\ q.ent \in Row /\ (Unbroken => Ties(q) /\ Tied(row))
        BY <1>2, OwnLastsNow, Fields DEF CancelGet, At, Owners
    <2>2. PICK pc \in {"scancel", "swrite"} :
              /\ \E end : Goto(h, [q EXCEPT !.pc = pc, !.ent.end = end]) \/ Goto(h, [q EXCEPT !.pc = pc])
              /\ pc = "swrite" => ~(q.ent.sid \in Subs /\ Open(q.ent.sid))
        BY <1>2, <2>1 DEF CancelGet, Step, Real
    <2>3. PICK r : Goto(h, r) /\ r.pc = pc /\ r.ent.sid = q.ent.sid
        <3>1. \A end : [q EXCEPT !.pc = pc, !.ent.end = end].pc = pc
            BY DEF Request
        <3>2. \A end : [q EXCEPT !.pc = pc, !.ent.end = end].ent.sid = q.ent.sid
            BY <2>1 DEF Request, Row
        <3>3. [q EXCEPT !.pc = pc].pc = pc /\ [q EXCEPT !.pc = pc].ent = q.ent
            BY DEF Request
        <3> QED
            BY <2>2, <3>1, <3>2, <3>3
    <2>4. Unbroken => Points(r)
        BY <2>1, <2>2, <2>3 DEF Points, Ties, Aiming, OnlyOpen, NoneOpen
    <2> QED
        BY <1>2, <2>1, <2>2, <2>3, <2>4, OwnLasts DEF CancelGet, Owners
<1>3. CASE CancelMollie(h)
    <2>1. PICK q \in Request : q = req[h] /\ q.pc = "scancel" /\ q.ent.sid \in Subs /\ (Unbroken => Ties(q))
        BY <1>3, OwnLastsNow DEF CancelMollie, At, Owners, RequestOK
    <2>2. PICK r : r = [q EXCEPT !.pc = "swrite"]
        OBVIOUS
    <2>3. r.pc = "swrite"
        BY <2>2 DEF Request
    <2>4. CancelAt(q.ent.sid) /\ UNCHANGED row /\ Goto(h, r)
        BY <1>3, <2>1, <2>2 DEF CancelMollie, Step
    <2> QED
        BY <2>1, <2>3, <2>4, CancelLasts DEF Owners, Ties
<1>4. CASE CancelWrite(h)
    <2>1. PICK q \in Request : q = req[h] /\ q.pc = "swrite" /\ (Unbroken => Ties(q))
        BY <1>4, OwnLastsNow DEF CancelWrite, At, Owners
    <2>2. PICK w : w = row'
        OBVIOUS
    <2>3. Unbroken => Tied(w)
        BY <2>1 DEF Ties, Tied, NoneOpen
    <2> QED
        BY <1>0, <1>4, <2>1, <2>2, <2>3, OwnLasts DEF CancelWrite, End, Owners
\* A plan is taken back, or changed.
<1>5. ASSUME NEW op, NEW plan, NEW pc \in {"recreate", "patch"},
             Start(h, op, [Idle EXCEPT !.pc = pc, !.plan = plan, !.id = Entitled(row).sid, !.ent = Entitled(row)]),
             pc = "recreate" => Entitled(row).soft, Entitled(row).sid # None
      PROVE  Lasting'
    <2>1. PICK e : e = Entitled(row)
        OBVIOUS
    <2>2. PICK r : r = [Idle EXCEPT !.pc = pc, !.plan = plan, !.id = e.sid, !.ent = e]
        OBVIOUS
    <2>3. r.pc = pc /\ r.id = e.sid
        BY <2>2 DEF Idle
    <2>4. Start(h, op, r)
        BY <1>5, <2>1, <2>2
    <2>5. Unbroken => Points(r)
        BY <1>5, <2>1, <2>3, <2>4, StartLastsNow DEF Points, Aiming
    <2> QED
        BY <2>3, <2>4, <2>5, StartLasts DEF Owners
<1>6. CASE UndoCancel(h)
    BY <1>5, <1>6 DEF UndoCancel, Managed
<1>7. CASE ChangePlan(h)
    BY <1>5, <1>7 DEF ChangePlan, Managed
<1>8. CASE Recreate(h)
    <2>1. PICK q \in Request : q = req[h] /\ q.pc = "recreate" /\ Turn(h) /\ (Unbroken => Ties(q))
        BY <1>8, OwnLastsNow DEF Recreate, At, Owners
    <2>2. Unbroken'
        BY <1>8 DEF Recreate, Happens, Recoverable, Unbroken
    <2>3. NoneOpen
        BY <2>1, <2>2 DEF Ties
    <2>4. PICK s \in Subs : /\ Create(s, q.plan, Later(q.ent.end, now))
                            /\ Goto(h, Syncing(Idle, s, mollie'[s], "idle", FALSE, FALSE)) /\ UNCHANGED row
        BY <1>8, <2>1 DEF Recreate
    <2> QED
        BY <2>1, <2>3, <2>4, CreateLasts
<1>9. CASE Patch(h)
    <2>1. PICK q \in Request : q = req[h] /\ q.pc = "patch" /\ Turn(h) /\ (Unbroken => Tied(row))
        BY <1>9, OwnLastsNow DEF Patch, At, Owners
    <2>2. /\ mollie' = [mollie EXCEPT ![q.id].plan = q.plan] /\ UNCHANGED <<row, hooks>>
          /\ Goto(h, Syncing(Idle, q.id, mollie'[q.id], "idle", FALSE, FALSE))
          /\ q.id \in Subs /\ Open(q.id)
        BY <1>9, <2>1 DEF Patch, Real
    <2>3. \A s \in Subs : mollie'[s].st = mollie[s].st
        BY <2>2 DEF Types, MarketOK, Sub
    <2>4. \A s \in Subs : Open(s)' = Open(s)
        BY <2>3 DEF Open
    <2>5. OneOpen' /\ (\A k \in hooks : k.kind = "renewal" => Open(k.id))'
        <3>1. hooks \subseteq Hook
            BY DEF Types, MarketOK
        <3> QED
            BY <2>2, <2>4, <3>1, HookIs DEF Lasting, OneOpen
    <2>6. PICK m, w : m = mollie'[q.id] /\ w = row'
        OBVIOUS
    <2>7. PICK r : r = Syncing(Idle, q.id, m, "idle", FALSE, FALSE)
        OBVIOUS
    <2>8. r.pc = "sync" /\ r.id = q.id /\ r.sub = m /\ r.ret = "idle"
        BY <2>7 DEF Syncing, Idle
    <2>9. Fresh(r)'
        BY <2>8 DEF Fresh, Owning, Owners, Renewals, Syncs
    <2>10. m.st # "canceled" /\ \A s \in Subs : Open(s)' => s = q.id
        BY <2>2, <2>3, <2>4, <2>6 DEF Lasting, OneOpen, Open
    <2>11. Lasts(r, w)'
        BY <2>8, <2>10 DEF Lasts, Ties, Restoring, Aiming, Syncs
    <2>12. Goto(h, r)
        BY <2>2, <2>6, <2>7
    <2> QED
        BY <2>1, <2>5, <2>6, <2>9, <2>11, <2>12, LastOn
<1>10. CASE PatchRefused(h)
    <2>1. req[h].pc = "patch" /\ (Unbroken => Tied(row))
        BY <1>10, OwnLastsNow DEF PatchRefused, At, Owners
    <2> QED
        BY <1>0, <1>10, <2>1, OwnLasts DEF PatchRefused, End, Owners
<1> QED
    BY <1>1, <1>2, <1>3, <1>4, <1>6, <1>7, <1>8, <1>9, <1>10 DEF Managing

LEMMA HealthChecksLast ==
    ASSUME Types, Lasting, Recoverable', Unbroken' => Unbroken, NEW h \in Handlers, HealthChecks(h)
    PROVE  Lasting'
<1>0. Idle.pc = "idle" /\ Points(Idle)
    BY DEF Idle, Points, Aiming
<1>1. ASSUME NEW pc \in Owners, req[h].pc = pc
      PROVE  \E q \in Request : /\ q = req[h] /\ q.pc = pc /\ Turn(h) /\ NoRenewals /\ RequestOK(q) /\ row \in Row
                                /\ (Unbroken => Ties(q) /\ Tied(row))
    BY <1>1, OwnLastsNow
<1>2. CASE Health(h)
    <2>1. PICK id : id = row.sid
        OBVIOUS
    <2>2. PICK r : /\ Start(h, "health", r)
                   /\ \/ r = [Idle EXCEPT !.pc = "fin"]
                      \/ id # None /\ r = [Idle EXCEPT !.pc = "hget", !.id = id]
        BY <1>2, <2>1 DEF Health
    <2>3. r.pc = "fin" \/ (r.pc = "hget" /\ r.id = id /\ id # None)
        BY <2>2 DEF Idle
    <2>4. Unbroken => Points(r)
        BY <2>1, <2>2, <2>3, StartLastsNow DEF Points, Aiming
    <2> QED
        BY <2>2, <2>3, <2>4, StartLasts DEF Owners
\* Copying what Mollie has answered for the subscription that the row names.
<1>3. ASSUME NEW q \in Request, q = req[h], q.pc \in {"hget", "cutget"}, UNCHANGED <<row, market>>, q.id \in Subs,
             NEW m, m = mollie[q.id], NEW ret \in {"cut", "fin"}, NEW clear,
             Goto(h, Syncing(q, q.id, m, ret, clear, FALSE))
      PROVE  Lasting'
    <2>1. Turn(h) /\ NoRenewals /\ (Unbroken => Ties(q))
        BY <1>3, OwnLastsNow DEF Owners
    <2>2. Unbroken => \A t \in Subs : Open(t) => t = q.id
        BY <1>3, <2>1 DEF Ties, Aiming, OnlyOpen
    <2> QED
        BY <1>3, <2>1, <2>2, CopyLasts DEF Returns
\* On to the next, when this one has nothing to do or has failed.
<1>4. ASSUME req[h].pc \in Owners, NEW r, Goto(h, r), UNCHANGED <<row, market>>, r.pc \in {"cut", "fin", "idle"}
      PROVE  Lasting'
    <2>1. Points(r)
        BY <1>4 DEF Points, Aiming
    <2>2. PICK w : w = row'
        OBVIOUS
    <2>3. Unbroken => Tied(w)
        BY <1>4, <2>2, OwnLastsNow
    <2> QED
        BY <1>4, <2>1, <2>2, <2>3, OwnLasts DEF Owners
<1>5. CASE HealthGet(h)
    <2>1. PICK q \in Request : q = req[h] /\ q.pc = "hget" /\ (Unbroken => Ties(q) /\ Tied(row))
        BY <1>1, <1>5 DEF HealthGet, At, Owners
    <2>2. UNCHANGED <<row, market>>
        BY <1>5 DEF HealthGet
    <2>3. CASE Real(q.id) /\ Goto(h, Syncing(q, q.id, mollie[q.id], "cut", FALSE, FALSE))
        <3>1. PICK m : m = mollie[q.id]
            OBVIOUS
        <3> QED
            BY <1>3, <2>1, <2>2, <2>3, <3>1 DEF Real
    <2>4. CASE ~Real(q.id) /\ Goto(h, [q EXCEPT !.pc = "missing"])
        <3>1. PICK r : r = [q EXCEPT !.pc = "missing"]
            OBVIOUS
        <3>2. r.pc = "missing"
            BY <3>1 DEF Request
        <3>3. Unbroken => NoneOpen
            BY <2>1, <2>4 DEF Ties, Aiming, OnlyOpen, NoneOpen, Real
        <3>4. Unbroken => Points(r)
            BY <3>2, <3>3 DEF Points, Aiming
        <3> QED
            BY <2>1, <2>2, <2>4, <3>1, <3>2, <3>4, OwnLasts DEF Owners
    <2>5. CASE Goto(h, [q EXCEPT !.pc = "cut", !.id = None])
        <3>1. PICK r : r = [q EXCEPT !.pc = "cut", !.id = None]
            OBVIOUS
        <3>2. r.pc = "cut"
            BY <3>1 DEF Request
        <3> QED
            BY <1>4, <2>1, <2>2, <2>5, <3>1, <3>2 DEF Owners
    <2> QED
        BY <1>5, <2>1, <2>3, <2>4, <2>5 DEF HealthGet
<1>6. CASE HealthMissing(h)
    <2>1. PICK q \in Request : q = req[h] /\ q.pc = "missing" /\ (Unbroken => Ties(q) /\ Tied(row))
        BY <1>1, <1>6 DEF HealthMissing, At, Owners
    <2>2. PICK r : Goto(h, r) /\ (r = [q EXCEPT !.pc = "cut", !.id = None] \/ r = [q EXCEPT !.pc = "hwrite"])
        BY <1>6, <2>1 DEF HealthMissing, Step
    <2>3. r.pc = "cut" \/ r.pc = "hwrite"
        BY <2>2 DEF Request
    <2>4. Unbroken => Points(r)
        BY <2>1, <2>3 DEF Points, Ties, Aiming
    <2> QED
        BY <1>6, <2>1, <2>2, <2>3, <2>4, OwnLasts DEF HealthMissing, Owners
\* The end of a plan is written.
<1>7. ASSUME req[h].pc \in {"hwrite", "finwrite"}, NEW r, Goto(h, r), r.pc \in {"cut", "idle"}, UNCHANGED market
      PROVE  Lasting'
    <2>1. Unbroken => NoneOpen
        BY <1>1, <1>7 DEF Owners, Ties
    <2>2. PICK w : w = row'
        OBVIOUS
    <2>3. Unbroken => Tied(w) /\ Points(r)
        BY <1>7, <2>1 DEF Tied, NoneOpen, Points, Aiming
    <2> QED
        BY <1>7, <2>2, <2>3, OwnLasts DEF Owners
<1>8. CASE HealthWrite(h)
    <2>1. PICK q \in Request : q = req[h] /\ q.pc = "hwrite"
        BY <1>1, <1>8 DEF HealthWrite, At, Owners
    <2>2. [q EXCEPT !.pc = "cut", !.id = None].pc = "cut"
        BY DEF Request
    <2> QED
        BY <1>7, <1>8, <2>1, <2>2 DEF HealthWrite
<1>9. CASE Cut(h)
    <2>1. PICK q \in Request : q = req[h] /\ q.pc = "cut" /\ (Unbroken => Tied(row))
        BY <1>1, <1>9 DEF Cut, At, Owners
    <2>2. PICK id : id = row.sid
        OBVIOUS
    <2>3. PICK r : /\ Goto(h, r)
                   /\ (id # None /\ r = [q EXCEPT !.pc = "cutget", !.id = id]) \/ r = [q EXCEPT !.pc = "fin"]
        BY <1>9, <2>1, <2>2 DEF Cut
    <2>4. (r.pc = "cutget" /\ r.id = id /\ id # None) \/ r.pc = "fin"
        BY <2>3 DEF Request
    <2>5. Unbroken => Points(r)
        BY <2>1, <2>2, <2>4 DEF Points, Aiming, OnlyOpen, Tied
    <2> QED
        BY <1>9, <2>1, <2>3, <2>4, <2>5, OwnLasts DEF Cut, Owners
<1>10. CASE CutGet(h)
    <2>1. PICK q \in Request : q = req[h] /\ q.pc = "cutget" /\ (Unbroken => Ties(q) /\ Tied(row))
        BY <1>1, <1>10 DEF CutGet, At, Owners
    <2>2. UNCHANGED <<row, market>>
        BY <1>10 DEF CutGet
    <2>3. CASE Goto(h, [q EXCEPT !.pc = "fin", !.id = None])
        <3>1. PICK r : r = [q EXCEPT !.pc = "fin", !.id = None]
            OBVIOUS
        <3>2. r.pc = "fin"
            BY <3>1 DEF Request
        <3> QED
            BY <1>4, <2>1, <2>2, <2>3, <3>1, <3>2 DEF Owners
    <2>4. CASE Goto(h, [q EXCEPT !.pc = "cutcancel"])
        <3>1. PICK r : r = [q EXCEPT !.pc = "cutcancel"]
            OBVIOUS
        <3>2. r.pc = "cutcancel" /\ r.id = q.id
            BY <3>1 DEF Request
        <3>3. Unbroken => Points(r)
            BY <2>1, <3>2 DEF Points, Ties, Aiming
        <3> QED
            BY <2>1, <2>2, <2>4, <3>1, <3>2, <3>3, OwnLasts DEF Owners
    <2>5. CASE /\ Real(q.id)
               /\ Goto(h, Syncing(q, q.id, mollie[q.id], "fin", mollie[q.id].st = "active", FALSE))
        <3>1. PICK m, clear : m = mollie[q.id] /\ clear = (mollie[q.id].st = "active")
            OBVIOUS
        <3> QED
            BY <1>3, <2>1, <2>2, <2>5, <3>1 DEF Real
    <2> QED
        BY <1>10, <2>1, <2>3, <2>4, <2>5 DEF CutGet
<1>11. CASE CutCancel(h)
    <2>1. PICK q \in Request : q = req[h] /\ q.pc = "cutcancel" /\ q.id \in Subs /\ (Unbroken => Ties(q))
        BY <1>1, <1>11 DEF CutCancel, At, Owners, RequestOK
    <2>2. CASE /\ CancelAt(q.id) /\ UNCHANGED row
               /\ Goto(h, Syncing(q, q.id, Canceled(mollie[q.id]), "fin", FALSE, FALSE))
        <3>1. PICK r : r = Syncing(q, q.id, Canceled(mollie[q.id]), "fin", FALSE, FALSE)
            OBVIOUS
        <3>2. r.pc = "sync" /\ r.ret = "fin"
            BY <3>1 DEF Syncing, Request
        <3> QED
            BY <2>1, <2>2, <3>1, <3>2, CancelLasts DEF Owners, Ties, Aiming
    <2>3. CASE UNCHANGED <<row, market>> /\ Goto(h, [q EXCEPT !.pc = "fin", !.id = None])
        <3>1. PICK r : r = [q EXCEPT !.pc = "fin", !.id = None]
            OBVIOUS
        <3>2. r.pc = "fin"
            BY <3>1 DEF Request
        <3> QED
            BY <1>4, <2>1, <2>3, <3>1, <3>2 DEF Owners
    <2> QED
        BY <1>11, <2>1, <2>2, <2>3 DEF CutCancel
<1>12. CASE Fin(h)
    <2>1. PICK q \in Request : q = req[h] /\ q.pc = "fin" /\ row \in Row /\ (Unbroken => Tied(row))
        BY <1>1, <1>12 DEF Fin, At, Owners
    <2>2. CASE PeriodOver(row) /\ Goto(h, [q EXCEPT !.pc = "finget", !.id = row.sid])
        <3>1. PICK id : id = row.sid
            OBVIOUS
        <3>2. PICK r : r = [q EXCEPT !.pc = "finget", !.id = id]
            OBVIOUS
        <3>3. r.pc = "finget"
            BY <3>2 DEF Request
        <3>4. Unbroken => Points(r)
            BY <2>1, <2>2, <3>3, TiedLoaded DEF Points, Aiming
        <3> QED
            BY <1>12, <2>1, <2>2, <3>1, <3>2, <3>3, <3>4, OwnLasts DEF Fin, Owners
    <2>3. CASE Goto(h, Idle)
        BY <1>0, <1>4, <1>12, <2>1, <2>3 DEF Fin, Owners
    <2> QED
        BY <1>12, <2>1, <2>2, <2>3 DEF Fin
<1>13. CASE FinCancel(h)
    <2>1. PICK q \in Request : q = req[h] /\ q.pc = "finget" /\ (Unbroken => Ties(q) /\ Tied(row))
        BY <1>1, <1>13 DEF FinCancel, At, Owners
    <2>2. PICK r : r = [q EXCEPT !.pc = "finwrite"]
        OBVIOUS
    <2>3. r.pc = "finwrite" /\ Goto(h, r) /\ UNCHANGED row
        BY <1>13, <2>1, <2>2 DEF FinCancel, Step, Request
    <2>4. Unbroken => NoneOpen
        BY <2>1 DEF Ties
    <2>5. CASE UNCHANGED market
        <3>1. Unbroken => Points(r)
            BY <2>3, <2>4 DEF Points, Aiming
        <3> QED
            BY <2>1, <2>3, <2>5, <3>1, OwnLasts DEF Owners
    <2>6. CASE Real(q.id) /\ CancelAt(q.id)
        BY <2>1, <2>3, <2>4, <2>6, CancelLasts DEF Owners, Real, OnlyOpen, NoneOpen
    <2> QED
        BY <1>13, <2>1, <2>5, <2>6 DEF FinCancel
<1>14. CASE FinWrite(h)
    BY <1>0, <1>7, <1>14 DEF FinWrite, At, End
<1> QED
    BY <1>2, <1>5, <1>6, <1>8, <1>9, <1>10, <1>11, <1>12, <1>13, <1>14 DEF HealthChecks

LEMMA VisitsLast ==
    ASSUME Types, Lasting, Recoverable', Unbroken' => Unbroken, NEW h \in Handlers,
           Visit(h) \/ VisitBlind(h) \/ VisitStamp(h) \/ NotFound(h)
    PROVE  Lasting'
<1>0. Idle.pc = "idle" /\ Points(Idle) /\ ~VisitBlind(h) /\ ~NotFound(h)
    BY NoneBroken DEF Idle, Points, Aiming, VisitBlind, NotFound, Calm, Recoverable
<1>1. CASE Visit(h)
    <2>1. PICK id : id = row.sid
        OBVIOUS
    <2>2. PICK r : /\ Start(h, "visit", r)
                   /\ \/ r = [Idle EXCEPT !.pc = "vstamp"]
                      \/ PeriodOver(row) /\ r = [Idle EXCEPT !.pc = "finwrite", !.id = id]
        BY <1>1, <2>1 DEF Visit
    <2>3. r.pc = "vstamp" \/ (r.pc = "finwrite" /\ PeriodOver(row))
        BY <2>2 DEF Idle
    <2>4. Unbroken => Points(r)
        BY <2>2, <2>3, StartLastsNow DEF Points, Aiming
    <2> QED
        BY <2>2, <2>3, <2>4, StartLasts DEF Owners
<1>2. CASE VisitStamp(h)
    <2>1. req[h].pc = "vstamp" /\ row \in Row /\ (Unbroken => Tied(row))
        BY <1>2, OwnLastsNow DEF VisitStamp, At, Owners
    <2>2. PICK w : w = Stamped(row)
        OBVIOUS
    <2>3. Unbroken => Tied(w)
        BY <2>1, <2>2, TiedLoaded
    <2> QED
        BY <1>0, <1>2, <2>1, <2>2, <2>3, OwnLasts DEF VisitStamp, End, Owners
<1> QED
    BY <1>0, <1>1, <1>2

\* What a request that vanished leaves behind is what Mollie lists.
LEMMA VanishLasts ==
    ASSUME Types, Lasting, NEW h \in Handlers, Vanish(h)
    PROVE  Lasting'
<1>1. UNCHANGED market /\ ~Unbroken' /\ \A g \in Handlers : req'[g].pc = "idle" \/ req'[g] = req[g]
    BY NoneBroken DEF Vanish, End, Goto, Idle, Types, RequestsOK
<1>2. Alone' /\ OneOpen' /\ (\A k \in hooks : k.kind = "renewal" => Open(k.id))'
    BY <1>1, StillOpen DEF Lasting, Alone
<1>3. ASSUME NEW g \in Handlers PROVE Fresh(req[g])'
    <2>1. PICK r : r = req'[g]
        OBVIOUS
    <2>2. Fresh(r)
        BY <1>1, <2>1, IdleLasts DEF Lasting
    <2>3. Fresh(r)'
        BY <1>1, <2>2, StillOpen
    <2> QED
        BY <2>1, <2>3 DEF Fresh, Owning, Owners, Renewals, Syncs
<1> QED
    BY <1>1, <1>2, <1>3 DEF Lasting

LEMMA InitLasts == Init => Lasting
<1> SUFFICES ASSUME Init PROVE Lasting
    OBVIOUS
<1>1. /\ \A h \in Handlers : req[h] = Idle
      /\ \A s \in Subs : mollie[s].st = "none"
      /\ hooks = {} /\ Idle.pc = "idle"
    BY DEF Init, Idle, NoSub
<1>2. NoneOpen
    BY <1>1 DEF NoneOpen, Open
<1>3. Alone
    BY <1>1 DEF Alone
<1> QED
    BY <1>1, <1>2, <1>3, IdleLasts DEF Lasting, OneOpen, NoneOpen, Tied

LEMMA NextLasts ==
    ASSUME Types, Lasting, Recoverable', [Next]_vars
    PROVE  Lasting'
<1>0. (Unbroken' => Unbroken) /\ hist \subseteq hist'
    BY StillRecoverable, HistGrows
<1>1. CASE UNCHANGED vars
    <2>1. UNCHANGED <<row, req, market>>
        BY <1>1 DEF vars
    <2>2. \A s \in Subs : Open(s)' = Open(s)
        BY <2>1, StillOpen
    <2>3. hooks' = hooks
        BY <2>1 DEF market
    <2> QED
        BY <1>0, <2>1, <2>2, <2>3, SameOpen
<1>2. CASE Market
    BY <1>0, <1>2, MarketLasts
<1>3. ASSUME NEW h \in Handlers, Webhook(h) PROVE Lasting'
    BY <1>0, <1>3, DeliverLasts, FetchLasts, FirstLasts, RenewedLasts, MandateLasts, DoneLasts DEF Webhook
<1>4. ASSUME NEW h \in Handlers, Sync(h) \/ Checkouts(h) \/ Managing(h) \/ HealthChecks(h) PROVE Lasting'
    BY <1>0, <1>4, SyncLasts, CheckoutsLast, ManagingLasts, HealthChecksLast
<1>5. ASSUME NEW h \in Handlers, Visit(h) \/ VisitBlind(h) \/ VisitStamp(h) \/ NotFound(h) \/ Vanish(h)
      PROVE  Lasting'
    BY <1>0, <1>5, VisitsLast, VanishLasts
<1> QED
    BY <1>1, <1>2, <1>3, <1>4, <1>5 DEF Next

\* What comes next finds at Mollie what was left there.
LEMMA StaysLasting == Spec => [](Types /\ (Recoverable => Lasting))
<1>1. Init => Types /\ (Recoverable => Lasting)
    BY InitTypes, InitLasts
<1>2. Types /\ (Recoverable => Lasting) /\ [Next]_vars => (Types /\ (Recoverable => Lasting))'
    BY NextTypes, NextLasts, StillRecoverable
<1> QED
    BY <1>1, <1>2, PTL DEF Spec

\* Requests that follow one another leave one subscription, although subscriptions end
\* and new ones are created for the next payment, and whatever else fails, breaks off
\* or vanishes: the next webhook finds the one that is there, even if the row has lost
\* it (collectActiveSubscriptions), and who cancels or recreates holds no other.  Left
\* out is the list of Mollie's that fails, or knows another customer.
THEOREM RetriesFindTheFirst == Spec => [](Recoverable => OneSubscription)
<1>1. Types /\ (Recoverable => Lasting) => (Recoverable => OneSubscription)
    BY DEF Lasting, OneOpen, OneSubscription
<1> QED
    BY <1>1, StaysLasting, PTL
=============================================================================
