-------------------------- MODULE RegisterSession ---------------------------
(***************************************************************************)
(* The cash register of one restaurant: sessions (opened, closed with a    *)
(* numbered Z report), the copy of the open one in the fiscal config, the  *)
(* cash point closings at the fiscal service and the signed transactions   *)
(* they count (fiskaly-register-session.ts, register-report-aggregate.ts,  *)
(* pos-payment-pipeline.ts).  Requests take one statement, or one call of  *)
(* the service, per step.                                                  *)
(***************************************************************************)
EXTENDS Integers, FiniteSets

CONSTANTS
    Sessions, Txs, Closings,    \* ids
    Orders,                     \* the transactions that have the id of an order, not of a payment
    Handlers,                   \* requests that can be in flight at a time
    None,
    MaxTime,                    \* bound: the number of time stamps, no request begins after the last
    Allowed,                    \* the faults of this instance
    MaxFaults                   \* bound: the number of faults

ASSUME NoneIsNoId == None \notin Sessions \cup Txs \cup Closings
ASSUME OrdersAreTxs == Orders \subseteq Txs
ASSUME BoundsAreNat == MaxTime \in Nat \ {0} /\ MaxFaults \in Nat

VARIABLES
    sess,       \* pos_register_sessions
    config,     \* pos_restaurant_fiscal_config
    signed,     \* pos_fiscal_transactions: signed_at, 0 where there is no row
    closing,    \* the cash point closings at the service
    now,        \* the latest time stamp
    req,        \* the requests in flight
    hist,       \* history: which of Happenings there were, which transactions were signed again
    faults

tables == <<sess, config, signed, closing>>
vars == <<tables, now, req, hist, faults>>

Times == 0 .. MaxTime

\* A close in flight together with another request; a transaction signed while no
\* session was open, or while a close was counting; and what a fault left behind:
\* a closing at the service without its session, a closed session still in the
\* config, an open session that is not in the config.
Happenings == {"overlap", "late", "during", "unrecorded", "uncleared"}

Idle == [op |-> "none", pc |-> "idle", ret |-> "none", cash |-> FALSE, seen |-> 0,
         legacy |-> 0, s |-> None, at |-> 0, z |-> 0, txs |-> {}, c |-> None]
Pcs == {"idle", "find", "legacy", "backfill", "point", "config", "stamp", "insert", "link",
        "sign", "store", "counter", "build", "put", "wait", "record", "clear"}
Rets == {"none", "look", "gate", "ensure", "open", "close"}
Request == [op: {"none", "look", "open", "pay", "retry", "close"}, pc: Pcs, ret: Rets, cash: BOOLEAN, seen: Times,
            legacy: Times, s: Sessions \cup {None}, at: Times, z: Nat, txs: SUBSET Txs,
            c: Closings \cup {None}]

Session == [st: {"none", "open", "closed"}, opened: Times, closed: Times, z: Nat,
            closing: Closings \cup {None}]
Closing == [st: {"none", "pending", "completed", "error"}, z: Nat, from: Times, to: Times,
            txs: SUBSET Txs]

IsOpen(s) == sess[s].st = "open"
Closed == {s \in Sessions : sess[s].st = "closed"}

TypeOK ==
    /\ sess \in [Sessions -> Session]
    /\ \A s, t \in Sessions : IsOpen(s) /\ IsOpen(t) => s = t
    /\ config \in [opened: Times, cur: Sessions \cup {None}, counter: Nat]
    /\ signed \in [Txs -> Times]
    /\ closing \in [Closings -> Closing]
    /\ now \in Times
    /\ req \in [Handlers -> Request]
    /\ hist \subseteq Happenings \cup Txs
    /\ faults \in 0 .. MaxFaults

\* A restaurant from before the table of sessions has its register open in the
\* config only.
Init ==
    /\ sess = [s \in Sessions |-> [st |-> "none", opened |-> 0, closed |-> 0, z |-> 0,
                                   closing |-> None]]
    /\ config \in [opened: {0, 1}, cur: {None}, counter: {0}]
    /\ signed = [t \in Txs |-> 0]
    /\ closing = [c \in Closings |-> [st |-> "none", z |-> 0, from |-> 0, to |-> 0, txs |-> {}]]
    /\ now = 1
    /\ req = [h \in Handlers |-> Idle]
    /\ hist = {}
    /\ faults = 0

-----------------------------------------------------------------------------
(* Requests *)

Quiet == \A h \in Handlers : req[h] = Idle
At(h, pc) == req[h].pc = pc
Goto(h, r) == req' = [req EXCEPT ![h] = r]
Step(h, pc) == Goto(h, [req[h] EXCEPT !.pc = pc])
End(h) == Goto(h, Idle)
Fault(kind) == kind \in Allowed /\ faults < MaxFaults /\ faults' = faults + 1
Happens(what) == hist' = hist \cup what

\* new Date()
Stamp == now < MaxTime /\ now' = now + 1

\* A close in flight together with any other request.
Meets(r) ==
    \E h \in Handlers : req[h] # Idle /\ (r.op = "close" \/ req[h].op = "close")

Begin(h, r) ==
    /\ req[h] = Idle /\ now < MaxTime
    /\ Goto(h, r)
    /\ Happens(IF Meets(r) THEN {"overlap"} ELSE {})
    /\ UNCHANGED <<tables, now, faults>>

\* What a request leaves behind that ends before the statement it is at.
LeavesAt(pc) ==
    (IF pc \in {"wait", "record"} THEN {"unrecorded"} ELSE {})
        \cup (IF pc = "clear" THEN {"uncleared"} ELSE {})

\* A request ends between two statements.
Vanish(h) ==
    /\ req[h] # Idle
    /\ Fault("vanish")
    /\ End(h)
    /\ Happens(LeavesAt(req[h].pc))
    /\ UNCHANGED <<tables, now>>

-----------------------------------------------------------------------------
(* getOpenRegisterSession, called from five places (ret) *)

Call(r, ret) == [r EXCEPT !.pc = "find", !.ret = ret, !.legacy = 0]

ToSign(op) == [Idle EXCEPT !.op = op, !.pc = "sign"]

\* The register is open, or could not be opened: it is signed either way.
Opened(r) ==
    IF r.op \in {"pay", "retry"} THEN ToSign(r.op) ELSE Idle

\* What the caller does with what it gets, a session or null: look at the state;
\* refuse a payment, and make sure of a session before a cash payment is signed;
\* open one if there is none; close it.
Return(r, s) ==
    CASE r.ret = "gate" /\ s # None -> IF r.cash THEN Call(r, "ensure") ELSE Opened(r)
      [] r.ret = "ensure" -> IF s = None THEN [r EXCEPT !.pc = "config"] ELSE Opened(r)
      [] r.ret = "open" -> IF s = None /\ r.seen = 0 THEN [r EXCEPT !.pc = "stamp"] ELSE Opened(r)
      [] r.ret = "close" /\ s # None -> [r EXCEPT !.pc = "counter", !.s = s]
      [] OTHER -> Idle

\* An error reads like no row.
FindOpen(h) ==
    /\ At(h, "find")
    /\ \/ \E s \in Sessions : IsOpen(s) /\ Goto(h, Return(req[h], s)) /\ UNCHANGED faults
       \/ (\A s \in Sessions : ~IsOpen(s)) /\ Step(h, "legacy") /\ UNCHANGED faults
       \/ Fault("readfails") /\ Step(h, "legacy")
    /\ UNCHANGED <<tables, now, hist>>

FindLegacy(h) ==
    /\ At(h, "legacy")
    /\ \/ config.opened = 0 /\ Goto(h, Return(req[h], None))
       \/ config.opened # 0 /\ Goto(h, [req[h] EXCEPT !.pc = "backfill", !.legacy = config.opened])
    /\ UNCHANGED <<tables, now, hist, faults>>

\* Mutant: there is no unique index.
MayInsertAny == TRUE

\* The unique index: one session per restaurant without closed_at.
MayInsert == \A s \in Sessions : ~IsOpen(s)

Insert(s, opened) ==
    /\ MayInsert
    /\ sess[s].st = "none"
    /\ sess' = [sess EXCEPT ![s].st = "open", ![s].opened = opened]

\* A session for the register that is open in the config only.
Backfill(h) ==
    /\ At(h, "backfill")
    /\ \/ \E s \in Sessions :
             /\ Insert(s, req[h].legacy)
             /\ Goto(h, [req[h] EXCEPT !.pc = "point", !.s = s])
       \/ ~MayInsert /\ Goto(h, Return(req[h], None)) /\ UNCHANGED sess
    /\ UNCHANGED <<config, signed, closing, now, hist, faults>>

\* An error is not looked at.
BackfillPoint(h) ==
    LET r == req[h]
    IN  /\ At(h, "point")
        /\ \/ config' = [config EXCEPT !.cur = r.s] /\ UNCHANGED <<hist, faults>>
           \/ Fault("updatefails") /\ UNCHANGED <<config, hist>>
        /\ Goto(h, Return([r EXCEPT !.s = None], r.s))
        /\ UNCHANGED <<sess, signed, closing, now>>

\* The state of the register is polled; so do the checks of other requests.
Look(h) == Begin(h, Call([Idle EXCEPT !.op = "look"], "look"))

-----------------------------------------------------------------------------
(* openRegisterSession, ensureRegisterSessionOpen *)

Open(h) == Begin(h, [Idle EXCEPT !.op = "open", !.pc = "config"])

\* The automatic opening asks for an open session first.
OpenAuto(h) == Begin(h, Call([Idle EXCEPT !.op = "open"], "ensure"))

\* The service does not know the register, or the config is read.
OpenRead(h) ==
    /\ At(h, "config")
    /\ \/ Fault("notready") /\ Goto(h, Opened(req[h]))
       \/ Goto(h, Call([req[h] EXCEPT !.seen = config.opened], "open")) /\ UNCHANGED faults
    /\ UNCHANGED <<tables, now, hist>>

OpenStamp(h) ==
    /\ At(h, "stamp")
    /\ Stamp
    /\ Goto(h, [req[h] EXCEPT !.pc = "insert", !.at = now'])
    /\ UNCHANGED <<tables, hist, faults>>

OpenInsert(h) ==
    /\ At(h, "insert")
    /\ \/ \E s \in Sessions :
             /\ Insert(s, req[h].at)
             /\ Goto(h, [req[h] EXCEPT !.pc = "link", !.s = s])
       \/ ~MayInsert /\ Goto(h, Opened(req[h])) /\ UNCHANGED sess
    /\ UNCHANGED <<config, signed, closing, now, hist, faults>>

\* linkSessionToFiscalConfig
OpenLink(h) ==
    /\ At(h, "link")
    /\ \/ /\ config' = [config EXCEPT !.opened = req[h].at, !.cur = req[h].s]
          /\ UNCHANGED <<hist, faults>>
       \/ Fault("updatefails") /\ UNCHANGED <<config, hist>>
    /\ Goto(h, Opened(req[h]))
    /\ UNCHANGED <<sess, signed, closing, now>>

-----------------------------------------------------------------------------
(* Payments and their signatures *)

\* A payment is collected only while the register is open.
Pay(h) ==
    \E cash \in BOOLEAN : Begin(h, Call([Idle EXCEPT !.op = "pay", !.cash = cash], "gate"))

\* An order that was paid before is signed again, whether it has a transaction or
\* not: one paid in cash makes sure of a session first, any other is signed at once.
Retry(h) ==
    \/ Begin(h, Call([Idle EXCEPT !.op = "retry", !.cash = TRUE], "ensure"))
    \/ Begin(h, ToSign("retry"))

\* A close has its time stamp and is not recorded yet.
Counting == \E h \in Handlers : req[h].pc \in {"build", "put", "wait", "record"}

\* The service signs, and signed_at is stamped; or it does not, and the order
\* keeps fiskaly_failed_at.
Sign(h) ==
    /\ At(h, "sign")
    /\ \/ /\ Stamp
          /\ Goto(h, [req[h] EXCEPT !.pc = "store", !.at = now'])
          /\ Happens((IF MayInsert THEN {"late"} ELSE {})
                        \cup (IF Counting THEN {"during"} ELSE {}))
       \/ End(h) /\ UNCHANGED <<now, hist>>
    /\ UNCHANGED <<tables, faults>>

\* A payment has a transaction of its own, which is new. A retry signs the order
\* as a whole, under the order's id.
Stored(r) ==
    IF r.op = "retry" THEN Orders ELSE {t \in Txs \ Orders : signed[t] = 0}

\* persistFiskalyTransaction, an upsert: signed_at is overwritten. An error ends
\* the request.
Store(h) ==
    /\ At(h, "store")
    /\ \/ \E t \in Stored(req[h]) :
             /\ signed' = [signed EXCEPT ![t] = req[h].at]
             /\ Happens({t} \ {u \in Txs : signed[u] = 0})
             /\ UNCHANGED faults
       \/ Fault("storefails") /\ UNCHANGED <<signed, hist>>
    /\ End(h)
    /\ UNCHANGED <<sess, config, closing, now>>

-----------------------------------------------------------------------------
(* closeRegisterSession *)

Close(h) == Begin(h, Call([Idle EXCEPT !.op = "close"], "close"))

\* The counter is read and the closing stamped.
CloseRead(h) ==
    /\ At(h, "counter")
    /\ Stamp
    /\ Goto(h, [req[h] EXCEPT !.pc = "build", !.at = now', !.z = config.counter + 1])
    /\ UNCHANGED <<tables, hist, faults>>

\* Mutant: everything signed up to the closing.
WindowFromStart(r) == {t \in Txs : signed[t] # 0 /\ signed[t] <= r.at}

\* Mutant: from the time stamp after the opening's.
WindowLater(r) == {t \in Txs : signed[t] > sess[r.s].opened + 1 /\ signed[t] <= r.at}

\* signed_at between opening and closing, both included
Window(r) == {t \in Txs : signed[t] # 0 /\ signed[t] >= sess[r.s].opened /\ signed[t] <= r.at}

\* buildCashPointClosingPayload: a session without transactions is not closed.
CloseBuild(h) ==
    LET r == req[h]
    IN  /\ At(h, "build")
        /\ IF Window(r) = {} THEN End(h) ELSE Goto(h, [r EXCEPT !.pc = "put", !.txs = Window(r)])
        /\ Happens(IF \E g \in Handlers : At(g, "store") THEN {"during"} ELSE {})
        /\ UNCHANGED <<tables, now, faults>>

\* The service has the closing, whether the request hears of it or not.
ClosePut(h) ==
    LET r == req[h]
    IN  /\ At(h, "put")
        /\ \/ \E c \in Closings :
                 /\ closing[c].st = "none"
                 /\ closing' = [closing EXCEPT ![c] = [st |-> "pending", z |-> r.z, to |-> r.at,
                                                       from |-> sess[r.s].opened, txs |-> r.txs]]
                 /\ \/ Goto(h, [r EXCEPT !.pc = "wait", !.c = c]) /\ UNCHANGED <<hist, faults>>
                    \/ Fault("putlost") /\ Happens({"unrecorded"}) /\ End(h)
           \/ Fault("putfails") /\ End(h) /\ UNCHANGED <<closing, hist>>
        /\ UNCHANGED <<sess, config, signed, now>>

\* The service works on what it got.
Process(c) ==
    /\ closing[c].st = "pending"
    /\ \/ closing' = [closing EXCEPT ![c].st = "completed"] /\ UNCHANGED faults
       \/ Fault("rejects") /\ closing' = [closing EXCEPT ![c].st = "error"]
    /\ UNCHANGED <<sess, config, signed, now, req, hist>>

\* Mutant: a closing the service has accepted is as good as a completed one.
DoneAccepted(c) == closing[c].st \in {"pending", "completed"}

Done(c) == closing[c].st = "completed"

\* Twelve polls, 1.5 seconds apart: completed, in error, or given up.
CloseWait(h) ==
    LET r == req[h]
    IN  /\ At(h, "wait")
        /\ \/ Done(r.c) /\ Step(h, "record") /\ UNCHANGED <<hist, faults>>
           \/ closing[r.c].st = "error" /\ End(h) /\ UNCHANGED <<hist, faults>>
           \/ Fault("waitfails") /\ Happens({"unrecorded"}) /\ End(h)
        /\ UNCHANGED <<tables, now>>

\* The session is updated by its id, whatever it has become meanwhile.
CloseRecord(h) ==
    LET r == req[h]
    IN  /\ At(h, "record")
        /\ \/ /\ sess' = [sess EXCEPT ![r.s] = [@ EXCEPT !.st = "closed", !.closed = r.at,
                                                         !.z = r.z, !.closing = r.c]]
              /\ Step(h, "clear")
              /\ UNCHANGED <<hist, faults>>
           \/ Fault("updatefails") /\ Happens({"unrecorded"}) /\ End(h) /\ UNCHANGED sess
        /\ UNCHANGED <<config, signed, closing, now>>

\* Mutant: the counter stays.
ClearedSameCounter(z) == [opened |-> 0, cur |-> None, counter |-> config.counter]

Cleared(z) == [opened |-> 0, cur |-> None, counter |-> z]

\* The config is cleared in a statement of its own.
CloseClear(h) ==
    /\ At(h, "clear")
    /\ \/ config' = Cleared(req[h].z) /\ UNCHANGED <<hist, faults>>
       \/ Fault("updatefails") /\ Happens({"uncleared"}) /\ UNCHANGED config
    /\ End(h)
    /\ UNCHANGED <<sess, signed, closing, now>>

-----------------------------------------------------------------------------
Finding(h) == Look(h) \/ FindOpen(h) \/ FindLegacy(h) \/ Backfill(h) \/ BackfillPoint(h)

Opening(h) ==
    \/ Open(h) \/ OpenAuto(h) \/ OpenRead(h) \/ OpenStamp(h) \/ OpenInsert(h) \/ OpenLink(h)

Paying(h) == Pay(h) \/ Retry(h) \/ Sign(h) \/ Store(h)

Closes(h) ==
    \/ Close(h) \/ CloseRead(h) \/ CloseBuild(h) \/ ClosePut(h) \/ CloseWait(h)
    \/ CloseRecord(h) \/ CloseClear(h)

Next ==
    \/ \E c \in Closings : Process(c)
    \/ \E h \in Handlers : Finding(h) \/ Opening(h) \/ Paying(h) \/ Closes(h) \/ Vanish(h)

Spec == Init /\ [][Next]_vars

-----------------------------------------------------------------------------
(* Safety *)

\* A session is closed only with a closing the service has completed, under the
\* number, over the window and with nothing but transactions of the window that
\* the session records: however closes interleave, give up and break off. An
\* order that is signed again leaves the window: the code moves its signed_at.
ClosedIsComplete ==
    \A s \in Closed :
        LET c == closing[sess[s].closing]
        IN  /\ sess[s].closing # None
            /\ c.st = "completed"
            /\ c.z = sess[s].z /\ c.from = sess[s].opened /\ c.to = sess[s].closed
            /\ \A t \in c.txs : t \in hist \/ signed[t] \in c.from .. c.to

\* No transaction is in two Z reports but one of an order that was signed again,
\* as long as no close meets another request and none breaks off.
CountedOnce ==
    hist \cap {"overlap", "unrecorded", "uncleared"} = {} =>
        \A c, d \in Closings :
            closing[c].st = "completed" /\ closing[d].st = "completed" /\ c # d =>
                closing[c].txs \cap closing[d].txs \subseteq hist

\* A signed transaction is in the Z report of a closed session, or will be in
\* that of the session that is open, however often it is signed, however closes
\* interleave with polls, openings and each other, and wherever they break off:
\* unless one was signed while a close was counting or the register was closed.
NoneForgotten ==
    hist \cap {"during", "late"} = {} =>
        \A t \in Txs : signed[t] # 0 =>
            \/ \E s \in Closed : t \in closing[sess[s].closing].txs
            \/ \E s \in Sessions : IsOpen(s) /\ sess[s].opened <= signed[t]

\* Z reports are numbered without gaps and repetitions, and the counter is the
\* number of them, when no close meets another request and none is cut off
\* between its two updates.
ZConsecutive ==
    Quiet /\ hist \cap {"overlap", "uncleared"} = {} =>
        /\ {sess[s].z : s \in Closed} = 1 .. config.counter
        /\ Cardinality(Closed) = config.counter
=============================================================================
