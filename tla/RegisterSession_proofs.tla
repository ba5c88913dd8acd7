----------------------- MODULE RegisterSession_proofs -----------------------
(***************************************************************************)
(* Proofs about RegisterSession, for any number of sessions, transactions, *)
(* closings and concurrent requests, all time stamps and faults: the types *)
(* are right, a closed session records a completed closing, no signed      *)
(* transaction is forgotten, none that is signed once is counted twice,    *)
(* and Z reports are numbered without gaps.                                *)
(***************************************************************************)
EXTENDS RegisterSession, FiniteSetTheorems, TLAPS

\* What the time stamps are about is not later than now.
Clock ==
    /\ \A t \in Txs : signed[t] <= now
    /\ \A s \in Sessions : sess[s].opened <= now
    /\ config.opened <= now

\* What is counted is signed, and was signed once or again since.
CountedSigned == \A c \in Closings : \A t \in closing[c].txs : t \in hist \/ signed[t] # 0

\* The closing at the service is the one the request sent.
ClosingIs(r) ==
    LET c == closing[r.c]
    IN  /\ c.st # "none"
        /\ c.z = r.z /\ c.to = r.at /\ c.txs = r.txs
        /\ c.from = sess[r.s].opened

\* What a request holds in its local variables when it is at a statement.
RequestOK(r) ==
    /\ r.at <= now /\ r.legacy <= now
    /\ r.pc \in {"point", "link", "counter", "build", "put", "wait", "record"} =>
          r.s \in Sessions /\ sess[r.s].st # "none"
    /\ r.pc \in {"put", "wait", "record"} =>
          \A t \in r.txs :
             t \in hist \/ (signed[t] # 0 /\ signed[t] \in sess[r.s].opened .. r.at)
    /\ r.pc \in {"wait", "record"} => r.c \in Closings /\ ClosingIs(r)
    /\ r.pc = "record" => closing[r.c].st = "completed"

RequestsOK == req \in [Handlers -> Request] /\ \A h \in Handlers : RequestOK(req[h])

OneOpen == \A s, t \in Sessions : IsOpen(s) /\ IsOpen(t) => s = t

Config == [opened: Times, cur: Sessions \cup {None}, counter: Nat]

TablesOK ==
    /\ sess \in [Sessions -> Session] /\ OneOpen
    /\ config \in Config
    /\ signed \in [Txs -> Times]
    /\ closing \in [Closings -> Closing]

RestOK == now \in Times /\ hist \subseteq Happenings \cup Txs /\ faults \in 0 .. MaxFaults

BooksOK == CountedSigned /\ ClosedIsComplete

Inv == TablesOK /\ RequestsOK /\ Clock /\ BooksOK /\ RestOK

HistGrows == hist \subseteq hist' /\ hist' \subseteq Happenings \cup Txs

\* What no step takes back.
Grows ==
    /\ \A s \in Sessions : sess[s].st # "none" =>
          sess'[s].st # "none" /\ sess'[s].opened = sess[s].opened
    /\ hist \subseteq hist'
    /\ \A t \in Txs : signed[t] # 0 => t \in hist' \/ signed'[t] = signed[t]
    /\ \A c \in Closings : closing[c].st # "none" =>
          /\ closing'[c].st # "none"
          /\ closing[c].st = "completed" => closing'[c].st = "completed"
          /\ closing'[c].z = closing[c].z /\ closing'[c].from = closing[c].from
          /\ closing'[c].to = closing[c].to /\ closing'[c].txs = closing[c].txs
    /\ now <= now'

-----------------------------------------------------------------------------
(* Frames *)

LEMMA TimesAreNat == Times \subseteq Nat /\ 0 \in Times /\ 1 \in Times
BY BoundsAreNat DEF Times

\* The invariant has the types.
LEMMA InvTypes == Inv => TypeOK /\ ClosedIsComplete
BY DEF Inv, TypeOK, TablesOK, OneOpen, RequestsOK, BooksOK, RestOK, Config

LEMMA HeldOK ==
    ASSUME Inv, NEW h \in Handlers
    PROVE  req[h] \in Request /\ RequestOK(req[h]) /\ req[h].at \in Nat /\ req[h].legacy \in Nat
BY TimesAreNat DEF Inv, RequestsOK, Request

\* What a request holds stays right while the tables only grow.
LEMMA HeldStays ==
    ASSUME Inv, Grows, now' \in Times, NEW r \in Request, RequestOK(r)
    PROVE  RequestOK(r)'
<1>1. now \in Nat /\ now' \in Nat /\ r.at \in Nat /\ r.legacy \in Nat /\ now <= now'
    BY TimesAreNat DEF Inv, RestOK, Request, Grows
<1>2. r.at <= now' /\ r.legacy <= now'
    BY <1>1 DEF RequestOK
<1>3. (r.pc \in {"point", "link", "counter", "build", "put", "wait", "record"} =>
          r.s \in Sessions /\ sess[r.s].st # "none")'
    BY DEF RequestOK, Grows
<1>4. (r.pc \in {"put", "wait", "record"} =>
          \A t \in r.txs :
             t \in hist \/ (signed[t] # 0 /\ signed[t] \in sess[r.s].opened .. r.at))'
    <2> SUFFICES ASSUME r.pc \in {"put", "wait", "record"}, NEW t \in r.txs
                 PROVE  t \in hist' \/ (signed'[t] # 0 /\ signed'[t] \in sess'[r.s].opened .. r.at)
        OBVIOUS
    <2>1. t \in Txs
        BY DEF Request
    <2>2. r.s \in Sessions /\ sess[r.s].st # "none"
        BY DEF RequestOK
    <2>3. t \in hist \/ (signed[t] # 0 /\ signed[t] \in sess[r.s].opened .. r.at)
        BY DEF RequestOK
    <2> QED
        BY <2>1, <2>2, <2>3 DEF Grows
<1>5. (r.pc \in {"wait", "record"} => r.c \in Closings /\ ClosingIs(r))'
    BY DEF RequestOK, Grows, ClosingIs
<1>6. (r.pc = "record" => closing[r.c].st = "completed")'
    BY DEF RequestOK, Grows, ClosingIs
<1> QED
    BY <1>2, <1>3, <1>4, <1>5, <1>6 DEF RequestOK

\* A step of one request, whatever it does to the tables.
LEMMA Take ==
    ASSUME Inv, Grows, NEW h \in Handlers, NEW r \in Request, Goto(h, r),
           RequestOK(r)', TablesOK', Clock', BooksOK', RestOK'
    PROVE  Inv'
<1>1. req' \in [Handlers -> Request]
    BY DEF Inv, RequestsOK, Goto
<1>2. ASSUME NEW g \in Handlers PROVE RequestOK(req[g])'
    <2>1. CASE g = h
        <3>1. req'[g] = r
            BY <2>1 DEF Inv, RequestsOK, Goto
        <3> QED
            BY <3>1
    <2>2. CASE g # h
        <3>1. PICK q \in Request : q = req[g]
            BY HeldOK
        <3>2. req'[g] = q
            BY <2>2, <3>1 DEF Inv, RequestsOK, Goto
        <3>3. RequestOK(q)
            BY <3>1, HeldOK
        <3>4. RequestOK(q)'
            BY <3>3, HeldStays DEF RestOK
        <3> QED
            BY <3>2, <3>4
    <2> QED
        BY <2>1, <2>2
<1> QED
    BY <1>1, <1>2 DEF Inv, RequestsOK

\* A step that leaves the tables alone.
LEMMA TakeOnly ==
    ASSUME Inv, NEW h \in Handlers, NEW r \in Request, Goto(h, r), UNCHANGED <<tables, now>>,
           RequestOK(r), HistGrows, faults' \in 0 .. MaxFaults
    PROVE  Inv'
<1>1. Grows
    BY TimesAreNat DEF tables, Grows, Inv, RestOK, HistGrows
<1>2. TablesOK' /\ Clock' /\ BooksOK' /\ RestOK'
    BY DEF Inv, tables, TablesOK, OneOpen, IsOpen, Clock, BooksOK, CountedSigned,
           ClosedIsComplete, Closed, RestOK, HistGrows
<1>3. RequestOK(r)'
    BY <1>1, HeldStays DEF Inv, RestOK
<1> QED
    BY <1>1, <1>2, <1>3, Take

\* A step that takes a time stamp.
LEMMA TakeStamp ==
    ASSUME Inv, NEW h \in Handlers, NEW r \in Request, Goto(h, r), UNCHANGED tables, Stamp,
           RequestOK(r)', HistGrows, faults' \in 0 .. MaxFaults
    PROVE  Inv'
<1>1. now \in Nat /\ now' \in Times /\ now' = now + 1
    BY BoundsAreNat DEF Inv, RestOK, Times, Stamp
<1>2. Grows
    BY <1>1 DEF tables, Grows, HistGrows
<1>3. TablesOK' /\ BooksOK' /\ RestOK'
    BY <1>1 DEF Inv, tables, TablesOK, OneOpen, IsOpen, BooksOK, CountedSigned, ClosedIsComplete,
           Closed, RestOK, HistGrows
<1>4. Clock'
    <2>1. \A t \in Txs : signed[t] \in Nat
        BY TimesAreNat DEF Inv, TablesOK
    <2>2. \A s \in Sessions : sess[s].opened \in Nat
        BY TimesAreNat DEF Inv, TablesOK, Session
    <2>3. config.opened \in Nat
        BY TimesAreNat DEF Inv, TablesOK, Config
    <2> QED
        BY <1>1, <2>1, <2>2, <2>3 DEF Inv, Clock, tables
<1> QED
    BY <1>2, <1>3, <1>4, Take

LEMMA FaultOK ==
    ASSUME RestOK, NEW kind, Fault(kind)
    PROVE  faults' \in 0 .. MaxFaults
BY BoundsAreNat DEF Fault, RestOK

LEMMA HappensOK ==
    ASSUME RestOK, NEW what \in SUBSET Happenings, Happens(what)
    PROVE  HistGrows
BY DEF Happens, RestOK, HistGrows

-----------------------------------------------------------------------------
(* What requests go on with *)

Plain == {"idle", "find", "legacy", "backfill", "config", "stamp", "insert", "sign", "store"}

\* At these statements a request holds nothing but time stamps.
LEMMA PlainOK ==
    ASSUME NEW r \in Request, r.pc \in Plain, r.at <= now, r.legacy <= now
    PROVE  RequestOK(r)
BY DEF RequestOK, Plain

LEMMA IdleOK ==
    ASSUME now \in Nat
    PROVE  Idle \in Request /\ RequestOK(Idle)
BY TimesAreNat DEF Idle, Request, Pcs, Rets, RequestOK

LEMMA ToSignOK ==
    ASSUME now \in Nat, NEW op \in {"pay", "retry"}
    PROVE  ToSign(op) \in Request /\ RequestOK(ToSign(op))
<1>1. PICK x \in Request : x = ToSign(op)
    BY TimesAreNat DEF Idle, ToSign, Request, Pcs, Rets
<1>2. x.pc = "sign" /\ x.at = 0 /\ x.legacy = 0
    BY <1>1 DEF Idle, ToSign
<1> QED
    BY <1>1, <1>2 DEF RequestOK

LEMMA CallOK ==
    ASSUME now \in Nat, NEW r \in Request, r.at <= now, r.legacy <= now, NEW ret \in Rets
    PROVE  Call(r, ret) \in Request /\ RequestOK(Call(r, ret))
<1>1. Call(r, ret) \in Request
    BY TimesAreNat DEF Call, Request, Pcs
<1>2. Call(r, ret).pc = "find" /\ Call(r, ret).at = r.at /\ Call(r, ret).legacy = 0
    BY DEF Call, Request
<1>3. RequestOK(Call(r, ret))
    BY <1>1, <1>2, PlainOK DEF Plain
<1> QED
    BY <1>1, <1>3

LEMMA OpenedOK ==
    ASSUME now \in Nat, NEW r
    PROVE  Opened(r) \in Request /\ RequestOK(Opened(r))
<1>1. CASE r.op \in {"pay", "retry"}
    BY <1>1, ToSignOK DEF Opened
<1>2. CASE r.op \notin {"pay", "retry"}
    BY <1>2, IdleOK DEF Opened
<1> QED
    BY <1>1, <1>2

\* Going on to another statement.
LEMMA AtOK ==
    ASSUME NEW r \in Request, r.at <= now, r.legacy <= now, NEW pc \in Plain
    PROVE  [r EXCEPT !.pc = pc] \in Request /\ RequestOK([r EXCEPT !.pc = pc])
<1>1. [r EXCEPT !.pc = pc] \in Request
    BY DEF Request, Pcs, Plain
<1>2. [r EXCEPT !.pc = pc].pc = pc /\ [r EXCEPT !.pc = pc].at = r.at
        /\ [r EXCEPT !.pc = pc].legacy = r.legacy
    BY DEF Request
<1> QED
    BY <1>1, <1>2, PlainOK

\* A caller goes on with a session that exists, or with none.
LEMMA ReturnOK ==
    ASSUME now \in Nat, NEW r \in Request, r.at <= now, r.legacy <= now, NEW s \in Sessions \cup {None},
           s # None => sess[s].st # "none"
    PROVE  Return(r, s) \in Request /\ RequestOK(Return(r, s))
<1>1. Call(r, "ensure") \in Request /\ RequestOK(Call(r, "ensure"))
    BY CallOK DEF Rets
<1>2. Opened(r) \in Request /\ RequestOK(Opened(r)) /\ Idle \in Request /\ RequestOK(Idle)
    BY OpenedOK, IdleOK
<1>3. CASE r.ret = "gate"
    <2>1. Return(r, s) \in {Call(r, "ensure"), Opened(r), Idle}
        BY <1>3 DEF Return
    <2> QED
        BY <2>1, <1>1, <1>2
<1>4. CASE r.ret = "ensure"
    <2>1. Return(r, s) = IF s = None THEN [r EXCEPT !.pc = "config"] ELSE Opened(r)
        BY <1>4 DEF Return
    <2>2. [r EXCEPT !.pc = "config"] \in Request /\ RequestOK([r EXCEPT !.pc = "config"])
        BY AtOK DEF Plain
    <2> QED
        BY <2>1, <2>2, <1>2
<1>5. CASE r.ret = "open"
    <2>1. Return(r, s) = IF s = None /\ r.seen = 0 THEN [r EXCEPT !.pc = "stamp"] ELSE Opened(r)
        BY <1>5 DEF Return
    <2>2. [r EXCEPT !.pc = "stamp"] \in Request /\ RequestOK([r EXCEPT !.pc = "stamp"])
        BY AtOK DEF Plain
    <2> QED
        BY <2>1, <2>2, <1>2
<1>6. CASE r.ret = "close" /\ s # None
    <2> DEFINE x == [r EXCEPT !.pc = "counter", !.s = s]
    <2>1. Return(r, s) = x
        BY <1>6 DEF Return
    <2>2. x \in Request
        BY DEF Request, Pcs
    <2>3. x.pc = "counter" /\ x.s = s /\ x.at = r.at /\ x.legacy = r.legacy
        BY DEF Request
    <2>4. s \in Sessions /\ sess[s].st # "none"
        BY <1>6
    <2> HIDE DEF x
    <2>5. RequestOK(x)
        BY <2>3, <2>4 DEF RequestOK
    <2> QED
        BY <2>1, <2>2, <2>5
<1>7. CASE r.ret \notin {"gate", "ensure", "open"} /\ ~(r.ret = "close" /\ s # None)
    <2>1. Return(r, s) = Idle
        BY <1>7 DEF Return
    <2> QED
        BY <2>1, <1>2
<1> QED
    BY <1>3, <1>4, <1>5, <1>6, <1>7

LEMMA BeginOK ==
    ASSUME Inv, NEW h \in Handlers, NEW r \in Request, RequestOK(r), Begin(h, r)
    PROVE  Inv'
<1>1. HistGrows /\ faults' \in 0 .. MaxFaults
    BY DEF Begin, Happens, Happenings, Inv, RestOK, HistGrows
<1> QED
    BY <1>1, TakeOnly DEF Begin

LEMMA NowIsNat == Inv => now \in Nat
BY TimesAreNat DEF Inv, RestOK

-----------------------------------------------------------------------------
(* Steps that leave the tables alone *)

LEMMA VanishKeeps ==
    ASSUME Inv, NEW h \in Handlers, Vanish(h)
    PROVE  Inv'
<1>1. LeavesAt(req[h].pc) \in SUBSET Happenings
    BY DEF LeavesAt, Happenings
<1>2. HistGrows /\ faults' \in 0 .. MaxFaults
    BY <1>1, HappensOK, FaultOK DEF Vanish, Inv
<1>3. Goto(h, Idle) /\ UNCHANGED <<tables, now>>
    BY DEF Vanish, End
<1> QED
    BY <1>2, <1>3, IdleOK, NowIsNat, TakeOnly

\* A request begins with a call of getOpenRegisterSession, or otherwise.
LEMMA NewOK ==
    ASSUME Inv, NEW h \in Handlers, NEW r \in Request, r.pc \in Plain, r.at = 0, r.legacy = 0,
           Begin(h, r) \/ \E ret \in Rets : Begin(h, Call(r, ret))
    PROVE  Inv'
<1>1. now \in Nat
    BY NowIsNat
<1>2. RequestOK(r)
    BY <1>1, PlainOK
<1>3. CASE Begin(h, r)
    BY <1>2, <1>3, BeginOK
<1>4. CASE \E ret \in Rets : Begin(h, Call(r, ret))
    <2>1. PICK ret \in Rets : Begin(h, Call(r, ret))
        BY <1>4
    <2>2. Call(r, ret) \in Request /\ RequestOK(Call(r, ret))
        BY <1>1, <1>2, CallOK DEF RequestOK
    <2> QED
        BY <2>1, <2>2, BeginOK
<1> QED
    BY <1>3, <1>4

LEMMA LookKeeps ==
    ASSUME Inv, NEW h \in Handlers, Look(h)
    PROVE  Inv'
<1> DEFINE r == [Idle EXCEPT !.op = "look"]
<1>1. r \in Request
    BY TimesAreNat DEF Idle, Request, Pcs, Rets
<1>2. r.pc \in Plain /\ r.at = 0 /\ r.legacy = 0
    BY DEF Idle, Plain
<1>3. Begin(h, Call(r, "look"))
    BY DEF Look
<1> HIDE DEF r
<1> QED
    BY <1>1, <1>2, <1>3, NewOK DEF Rets

LEMMA OpenKeeps ==
    ASSUME Inv, NEW h \in Handlers, Open(h)
    PROVE  Inv'
<1> DEFINE r == [Idle EXCEPT !.op = "open", !.pc = "config"]
<1>1. r \in Request
    BY TimesAreNat DEF Idle, Request, Pcs, Rets
<1>2. r.pc \in Plain /\ r.at = 0 /\ r.legacy = 0
    BY DEF Idle, Plain
<1>3. Begin(h, r)
    BY DEF Open
<1> HIDE DEF r
<1> QED
    BY <1>1, <1>2, <1>3, NewOK DEF Rets

LEMMA OpenAutoKeeps ==
    ASSUME Inv, NEW h \in Handlers, OpenAuto(h)
    PROVE  Inv'
<1> DEFINE r == [Idle EXCEPT !.op = "open"]
<1>1. r \in Request
    BY TimesAreNat DEF Idle, Request, Pcs, Rets
<1>2. r.pc \in Plain /\ r.at = 0 /\ r.legacy = 0
    BY DEF Idle, Plain
<1>3. Begin(h, Call(r, "ensure"))
    BY DEF OpenAuto
<1> HIDE DEF r
<1> QED
    BY <1>1, <1>2, <1>3, NewOK DEF Rets

LEMMA CloseKeeps ==
    ASSUME Inv, NEW h \in Handlers, Close(h)
    PROVE  Inv'
<1> DEFINE r == [Idle EXCEPT !.op = "close"]
<1>1. r \in Request
    BY TimesAreNat DEF Idle, Request, Pcs, Rets
<1>2. r.pc \in Plain /\ r.at = 0 /\ r.legacy = 0
    BY DEF Idle, Plain
<1>3. Begin(h, Call(r, "close"))
    BY DEF Close
<1> HIDE DEF r
<1> QED
    BY <1>1, <1>2, <1>3, NewOK DEF Rets

LEMMA PayKeeps ==
    ASSUME Inv, NEW h \in Handlers, Pay(h)
    PROVE  Inv'
<1>1. PICK cash \in BOOLEAN : Begin(h, Call([Idle EXCEPT !.op = "pay", !.cash = cash], "gate"))
    BY DEF Pay
<1> DEFINE r == [Idle EXCEPT !.op = "pay", !.cash = cash]
<1>2. r \in Request
    BY TimesAreNat DEF Idle, Request, Pcs, Rets
<1>3. r.pc \in Plain /\ r.at = 0 /\ r.legacy = 0
    BY DEF Idle, Plain
<1>4. Begin(h, Call(r, "gate"))
    BY <1>1
<1> HIDE DEF r
<1> QED
    BY <1>2, <1>3, <1>4, NewOK DEF Rets

LEMMA RetryKeeps ==
    ASSUME Inv, NEW h \in Handlers, Retry(h)
    PROVE  Inv'
<1> DEFINE r == [Idle EXCEPT !.op = "retry", !.cash = TRUE]
<1>1. r \in Request
    BY TimesAreNat DEF Idle, Request, Pcs, Rets
<1>2. r.pc \in Plain /\ r.at = 0 /\ r.legacy = 0
    BY DEF Idle, Plain
<1>3. Begin(h, Call(r, "ensure")) \/ Begin(h, ToSign("retry"))
    BY DEF Retry
<1> HIDE DEF r
<1>4. CASE Begin(h, Call(r, "ensure"))
    BY <1>1, <1>2, <1>4, NewOK DEF Rets
<1>5. CASE Begin(h, ToSign("retry"))
    BY <1>5, ToSignOK, NowIsNat, BeginOK
<1> QED
    BY <1>3, <1>4, <1>5

LEMMA FindOpenKeeps ==
    ASSUME Inv, NEW h \in Handlers, FindOpen(h)
    PROVE  Inv'
<1>1. PICK r \in Request : r = req[h] /\ RequestOK(r)
    BY HeldOK
<1>2. now \in Nat
    BY NowIsNat
<1>3. UNCHANGED <<tables, now>> /\ HistGrows
    BY DEF FindOpen, Inv, RestOK, HistGrows
<1>4. faults' \in 0 .. MaxFaults
    BY FaultOK DEF FindOpen, Inv, RestOK
<1>5. CASE \E s \in Sessions : IsOpen(s) /\ Goto(h, Return(r, s))
    <2>1. PICK s \in Sessions : IsOpen(s) /\ Goto(h, Return(r, s))
        BY <1>5
    <2>2. Return(r, s) \in Request /\ RequestOK(Return(r, s))
        BY <1>1, <1>2, <2>1, ReturnOK DEF IsOpen, RequestOK
    <2> QED
        BY <1>3, <1>4, <2>1, <2>2, TakeOnly
<1>6. CASE Goto(h, [r EXCEPT !.pc = "legacy"])
    <2>1. [r EXCEPT !.pc = "legacy"] \in Request /\ RequestOK([r EXCEPT !.pc = "legacy"])
        BY <1>1, AtOK DEF Plain, RequestOK
    <2> QED
        BY <1>3, <1>4, <1>6, <2>1, TakeOnly
<1> QED
    BY <1>1, <1>5, <1>6 DEF FindOpen, Step

LEMMA FindLegacyKeeps ==
    ASSUME Inv, NEW h \in Handlers, FindLegacy(h)
    PROVE  Inv'
<1>1. PICK r \in Request : r = req[h] /\ RequestOK(r)
    BY HeldOK
<1>2. now \in Nat
    BY NowIsNat
<1>3. UNCHANGED <<tables, now>> /\ HistGrows /\ faults' \in 0 .. MaxFaults
    BY DEF FindLegacy, Inv, RestOK, HistGrows
<1>4. CASE Goto(h, Return(r, None))
    <2>1. Return(r, None) \in Request /\ RequestOK(Return(r, None))
        BY <1>1, <1>2, ReturnOK DEF RequestOK
    <2> QED
        BY <1>3, <1>4, <2>1, TakeOnly
<1>5. CASE Goto(h, [r EXCEPT !.pc = "backfill", !.legacy = config.opened])
    <2>1. PICK o \in Times : o = config.opened /\ o <= now
        BY DEF Inv, TablesOK, Config, Clock
    <2> DEFINE x == [r EXCEPT !.pc = "backfill", !.legacy = o]
    <2>2. x \in Request
        BY DEF Request, Pcs
    <2>3. x.pc = "backfill" /\ x.at = r.at /\ x.legacy = o
        BY DEF Request
    <2>4. Goto(h, x)
        BY <1>5, <2>1
    <2> HIDE DEF x
    <2>5. RequestOK(x)
        BY <1>1, <2>1, <2>2, <2>3, PlainOK DEF Plain, RequestOK
    <2> QED
        BY <1>3, <2>2, <2>4, <2>5, TakeOnly
<1> QED
    BY <1>1, <1>4, <1>5 DEF FindLegacy

LEMMA OpenReadKeeps ==
    ASSUME Inv, NEW h \in Handlers, OpenRead(h)
    PROVE  Inv'
<1>1. PICK r \in Request : r = req[h] /\ RequestOK(r)
    BY HeldOK
<1>2. now \in Nat
    BY NowIsNat
<1>3. UNCHANGED <<tables, now>> /\ HistGrows
    BY DEF OpenRead, Inv, RestOK, HistGrows
<1>4. faults' \in 0 .. MaxFaults
    BY FaultOK DEF OpenRead, Inv, RestOK
<1>5. CASE Goto(h, Opened(r))
    BY <1>2, <1>3, <1>4, <1>5, OpenedOK, TakeOnly
<1>6. CASE Goto(h, Call([r EXCEPT !.seen = config.opened], "open"))
    <2>1. PICK o \in Times : o = config.opened
        BY DEF Inv, TablesOK, Config
    <2>2. PICK x \in Request : x = [r EXCEPT !.seen = o]
        BY DEF Request
    <2>3. x.pc = r.pc /\ x.at = r.at /\ x.legacy = r.legacy
        BY <2>2 DEF Request
    <2>4. r.pc = "config"
        BY <1>1 DEF OpenRead, At
    <2>5. RequestOK(x)
        BY <1>1, <2>3, <2>4, PlainOK DEF Plain, RequestOK
    <2>6. Call(x, "open") \in Request /\ RequestOK(Call(x, "open"))
        BY <1>2, <2>5, CallOK DEF Rets, RequestOK
    <2>7. Goto(h, Call(x, "open"))
        BY <1>6, <2>1, <2>2
    <2> QED
        BY <1>3, <1>4, <2>6, <2>7, TakeOnly
<1> QED
    BY <1>1, <1>5, <1>6 DEF OpenRead
LEMMA OpenStampKeeps ==
    ASSUME Inv, NEW h \in Handlers, OpenStamp(h)
    PROVE  Inv'
<1>1. PICK r \in Request : r = req[h] /\ RequestOK(r)
    BY HeldOK
<1>2. PICK n \in Times : n = now' /\ n = now + 1
    BY BoundsAreNat, NowIsNat DEF OpenStamp, Stamp, Times
<1>3. PICK x \in Request : x = [r EXCEPT !.pc = "insert", !.at = n]
    BY DEF Request, Pcs
<1>4. x.pc = "insert" /\ x.at = n /\ x.legacy = r.legacy
    BY <1>3 DEF Request
<1>5. r.legacy \in Nat /\ r.legacy <= now /\ now \in Nat
    BY <1>1, HeldOK, NowIsNat DEF RequestOK
<1>6. RequestOK(x)'
    BY <1>2, <1>4, <1>5 DEF RequestOK
<1>7. Goto(h, x) /\ UNCHANGED tables /\ Stamp /\ HistGrows
        /\ faults' \in 0 .. MaxFaults
    BY <1>1, <1>2, <1>3 DEF OpenStamp, Inv, RestOK, HistGrows
<1> QED
    BY <1>6, <1>7, TakeStamp

LEMMA SignKeeps ==
    ASSUME Inv, NEW h \in Handlers, Sign(h)
    PROVE  Inv'
<1>1. PICK r \in Request : r = req[h] /\ RequestOK(r)
    BY HeldOK
<1>2. UNCHANGED tables /\ faults' \in 0 .. MaxFaults
    BY DEF Sign, Inv, RestOK
<1>3. CASE End(h) /\ UNCHANGED <<now, hist>>
    <2>1. HistGrows
        BY <1>3 DEF Inv, RestOK, HistGrows
    <2> QED
        BY <1>2, <1>3, <2>1, IdleOK, NowIsNat, TakeOnly DEF End
<1>4. CASE ~(End(h) /\ UNCHANGED <<now, hist>>)
    <2>1. Stamp /\ Goto(h, [r EXCEPT !.pc = "store", !.at = now'])
        BY <1>1, <1>4 DEF Sign
    <2>2. HistGrows
        BY <1>4 DEF Sign, Happens, Happenings, Inv, RestOK, HistGrows
    <2>3. PICK n \in Times : n = now' /\ n = now + 1
        BY <2>1, BoundsAreNat, NowIsNat DEF Stamp, Times
    <2>4. PICK x \in Request : x = [r EXCEPT !.pc = "store", !.at = n]
        BY DEF Request, Pcs
    <2>5. x.pc = "store" /\ x.at = n /\ x.legacy = r.legacy
        BY <2>4 DEF Request
    <2>6. r.legacy \in Nat /\ r.legacy <= now /\ now \in Nat
        BY <1>1, HeldOK, NowIsNat DEF RequestOK
    <2>7. RequestOK(x)'
        BY <2>3, <2>5, <2>6 DEF RequestOK
    <2>8. Goto(h, x)
        BY <2>1, <2>3, <2>4
    <2> QED
        BY <1>2, <2>1, <2>2, <2>7, <2>8, TakeStamp
<1> QED
    BY <1>3, <1>4

LEMMA CloseReadKeeps ==
    ASSUME Inv, NEW h \in Handlers, CloseRead(h)
    PROVE  Inv'
<1>1. PICK r \in Request : r = req[h] /\ RequestOK(r)
    BY HeldOK
<1>2. PICK n \in Times : n = now' /\ n = now + 1
    BY BoundsAreNat, NowIsNat DEF CloseRead, Stamp, Times
<1>3. PICK k \in Nat : k = config.counter + 1
    BY DEF Inv, TablesOK, Config
<1>4. PICK x \in Request : x = [r EXCEPT !.pc = "build", !.at = n, !.z = k]
    BY DEF Request, Pcs
<1>5. x.pc = "build" /\ x.at = n /\ x.legacy = r.legacy /\ x.s = r.s
    BY <1>4 DEF Request
<1>6. r.legacy \in Nat /\ r.legacy <= now /\ now \in Nat
    BY <1>1, HeldOK, NowIsNat DEF RequestOK
<1>7. r.s \in Sessions /\ sess[r.s].st # "none"
    BY <1>1 DEF CloseRead, At, RequestOK
<1>8. UNCHANGED tables
    BY DEF CloseRead
<1>9. RequestOK(x)'
    BY <1>2, <1>5, <1>6, <1>7, <1>8 DEF RequestOK, tables
<1>10. Goto(h, x) /\ Stamp /\ HistGrows /\ faults' \in 0 .. MaxFaults
    BY <1>1, <1>2, <1>3, <1>4 DEF CloseRead, Inv, RestOK, HistGrows
<1> QED
    BY <1>8, <1>9, <1>10, TakeStamp

LEMMA CloseBuildKeeps ==
    ASSUME Inv, NEW h \in Handlers, CloseBuild(h)
    PROVE  Inv'
<1>1. PICK r \in Request : r = req[h] /\ RequestOK(r)
    BY HeldOK
<1>2. UNCHANGED <<tables, now>> /\ faults' \in 0 .. MaxFaults
    BY DEF CloseBuild, Inv, RestOK
<1>3. HistGrows
    BY DEF CloseBuild, Happens, Happenings, Inv, RestOK, HistGrows
<1>4. CASE End(h)
    BY <1>2, <1>3, <1>4, IdleOK, NowIsNat, TakeOnly DEF End
<1>5. CASE Goto(h, [r EXCEPT !.pc = "put", !.txs = Window(r)])
    <2>1. PICK w \in SUBSET Txs : w = Window(r)
        BY DEF Window
    <2>2. PICK x \in Request : x = [r EXCEPT !.pc = "put", !.txs = w]
        BY DEF Request, Pcs
    <2>3. x.pc = "put" /\ x.at = r.at /\ x.legacy = r.legacy /\ x.s = r.s /\ x.txs = w
        BY <2>2 DEF Request
    <2>4. r.s \in Sessions /\ sess[r.s].st # "none"
        BY <1>1 DEF CloseBuild, At, RequestOK
    <2>5. ASSUME NEW t \in w
          PROVE  signed[t] # 0 /\ signed[t] \in sess[r.s].opened .. r.at
        <3>1. signed[t] \in Nat /\ sess[r.s].opened \in Nat /\ r.at \in Nat
            BY <1>1, <2>4, HeldOK, TimesAreNat DEF Inv, TablesOK, Session
        <3> QED
            BY <2>1, <3>1 DEF Window
    <2>6. RequestOK(x)
        BY <1>1, <2>3, <2>4, <2>5 DEF RequestOK
    <2>7. Goto(h, x)
        BY <1>5, <2>1, <2>2
    <2> QED
        BY <1>2, <1>3, <2>6, <2>7, TakeOnly
<1> QED
    BY <1>1, <1>4, <1>5 DEF CloseBuild

LEMMA CloseWaitKeeps ==
    ASSUME Inv, NEW h \in Handlers, CloseWait(h)
    PROVE  Inv'
<1>1. PICK r \in Request : r = req[h] /\ RequestOK(r)
    BY HeldOK
<1>2. UNCHANGED <<tables, now>>
    BY DEF CloseWait
<1>3. HistGrows /\ faults' \in 0 .. MaxFaults
    BY HappensOK, FaultOK DEF CloseWait, Happenings, Inv, RestOK, HistGrows
<1>4. CASE End(h)
    BY <1>2, <1>3, <1>4, IdleOK, NowIsNat, TakeOnly DEF End
<1>5. CASE Done(r.c) /\ Step(h, "record")
    <2>1. PICK x \in Request : x = [r EXCEPT !.pc = "record"]
        BY DEF Request, Pcs
    <2>2. x.pc = "record" /\ x.at = r.at /\ x.legacy = r.legacy /\ x.s = r.s /\ x.txs = r.txs
            /\ x.c = r.c /\ x.z = r.z
        BY <2>1 DEF Request
    <2>3. r.pc = "wait"
        BY <1>1 DEF CloseWait, At
    <2>4. RequestOK(x)
        BY <1>1, <1>5, <2>2, <2>3 DEF RequestOK, ClosingIs, Done
    <2> QED
        BY <1>1, <1>2, <1>3, <1>5, <2>1, <2>4, TakeOnly DEF Step
<1> QED
    BY <1>1, <1>4, <1>5 DEF CloseWait
-----------------------------------------------------------------------------
(* Steps that change the sessions or the config *)

LEMMA InsertOK ==
    ASSUME Inv, NEW s \in Sessions, NEW o \in Times, o <= now, Insert(s, o),
           UNCHANGED <<config, signed, closing, now, hist>>
    PROVE  Grows /\ TablesOK' /\ Clock' /\ BooksOK' /\ sess'[s].st = "open"
<1>1. sess[s].st = "none" /\ sess \in [Sessions -> Session]
    BY DEF Insert, Inv, TablesOK
<1>2. sess' \in [Sessions -> Session]
    BY <1>1 DEF Insert, Session
<1>3. sess'[s].st = "open" /\ sess'[s].opened = o
    BY <1>1 DEF Insert, Session
<1>4. \A u \in Sessions : u # s => sess'[u] = sess[u]
    BY <1>1 DEF Insert
<1>5. Grows
    BY <1>1, <1>4, NowIsNat DEF Grows
<1>6. OneOpen'
    BY <1>3, <1>4 DEF Insert, MayInsert, OneOpen, IsOpen
<1>7. Clock'
    BY <1>3, <1>4 DEF Inv, Clock
<1>8. BooksOK'
    BY <1>3, <1>4 DEF Inv, BooksOK, CountedSigned, ClosedIsComplete, Closed
<1> QED
    BY <1>2, <1>3, <1>5, <1>6, <1>7, <1>8 DEF Inv, TablesOK

LEMMA BackfillKeeps ==
    ASSUME Inv, NEW h \in Handlers, Backfill(h)
    PROVE  Inv'
<1>1. PICK r \in Request : r = req[h] /\ RequestOK(r)
    BY HeldOK
<1>2. UNCHANGED <<config, signed, closing, now, hist>> /\ RestOK'
    BY DEF Backfill, Inv, RestOK
<1>3. CASE ~MayInsert /\ Goto(h, Return(r, None)) /\ UNCHANGED sess
    <2>1. Return(r, None) \in Request /\ RequestOK(Return(r, None))
        BY <1>1, ReturnOK, NowIsNat DEF RequestOK
    <2> QED
        BY <1>2, <1>3, <2>1, TakeOnly DEF RestOK, tables, HistGrows
<1>4. CASE \E s \in Sessions : Insert(s, r.legacy) /\ Goto(h, [r EXCEPT !.pc = "point", !.s = s])
    <2>1. PICK s \in Sessions : Insert(s, r.legacy) /\ Goto(h, [r EXCEPT !.pc = "point", !.s = s])
        BY <1>4
    <2>2. PICK o \in Times : o = r.legacy /\ o <= now
        BY <1>1 DEF Request, RequestOK
    <2>3. Grows /\ TablesOK' /\ Clock' /\ BooksOK' /\ sess'[s].st = "open"
        BY <1>2, <2>1, <2>2, InsertOK
    <2>4. PICK x \in Request : x = [r EXCEPT !.pc = "point", !.s = s]
        BY DEF Request, Pcs
    <2>5. x.pc = "point" /\ x.at = r.at /\ x.legacy = r.legacy /\ x.s = s
        BY <2>4 DEF Request
    <2>6. RequestOK(x)'
        BY <1>1, <1>2, <2>3, <2>5 DEF RequestOK
    <2> QED
        BY <1>2, <2>1, <2>3, <2>4, <2>6, Take
<1> QED
    BY <1>1, <1>3, <1>4 DEF Backfill

LEMMA OpenInsertKeeps ==
    ASSUME Inv, NEW h \in Handlers, OpenInsert(h)
    PROVE  Inv'
<1>1. PICK r \in Request : r = req[h] /\ RequestOK(r)
    BY HeldOK
<1>2. UNCHANGED <<config, signed, closing, now, hist>> /\ RestOK'
    BY DEF OpenInsert, Inv, RestOK
<1>3. CASE ~MayInsert /\ Goto(h, Opened(r)) /\ UNCHANGED sess
    BY <1>2, <1>3, OpenedOK, NowIsNat, TakeOnly DEF RestOK, tables, HistGrows
<1>4. CASE \E s \in Sessions : Insert(s, r.at) /\ Goto(h, [r EXCEPT !.pc = "link", !.s = s])
    <2>1. PICK s \in Sessions : Insert(s, r.at) /\ Goto(h, [r EXCEPT !.pc = "link", !.s = s])
        BY <1>4
    <2>2. PICK o \in Times : o = r.at /\ o <= now
        BY <1>1 DEF Request, RequestOK
    <2>3. Grows /\ TablesOK' /\ Clock' /\ BooksOK' /\ sess'[s].st = "open"
        BY <1>2, <2>1, <2>2, InsertOK
    <2>4. PICK x \in Request : x = [r EXCEPT !.pc = "link", !.s = s]
        BY DEF Request, Pcs
    <2>5. x.pc = "link" /\ x.at = r.at /\ x.legacy = r.legacy /\ x.s = s
        BY <2>4 DEF Request
    <2>6. RequestOK(x)'
        BY <1>1, <1>2, <2>3, <2>5 DEF RequestOK
    <2> QED
        BY <1>2, <2>1, <2>3, <2>4, <2>6, Take
<1> QED
    BY <1>1, <1>3, <1>4 DEF OpenInsert

LEMMA ConfigOK ==
    ASSUME Inv, NEW h \in Handlers, NEW r \in Request, RequestOK(r), Goto(h, r),
           config' \in Config, config'.opened <= now, UNCHANGED <<sess, signed, closing, now>>,
           HistGrows, faults' \in 0 .. MaxFaults
    PROVE  Inv'
<1>1. Grows
    BY NowIsNat DEF Grows, HistGrows
<1>2. TablesOK' /\ Clock' /\ BooksOK' /\ RestOK'
    BY DEF Inv, TablesOK, OneOpen, IsOpen, Clock, BooksOK, CountedSigned, ClosedIsComplete,
           Closed, RestOK, HistGrows
<1>3. RequestOK(r)'
    BY <1>1, HeldStays DEF Inv, RestOK
<1> QED
    BY <1>1, <1>2, <1>3, Take

LEMMA BackfillPointKeeps ==
    ASSUME Inv, NEW h \in Handlers, BackfillPoint(h)
    PROVE  Inv'
<1>1. PICK r \in Request : r = req[h] /\ RequestOK(r)
    BY HeldOK
<1>2. UNCHANGED <<sess, signed, closing, now>>
    BY DEF BackfillPoint
<1>3. HistGrows /\ faults' \in 0 .. MaxFaults
    BY HappensOK, FaultOK DEF BackfillPoint, Happenings, Inv, RestOK, HistGrows
<1>4. r.pc = "point" /\ r.s \in Sessions /\ sess[r.s].st # "none"
    BY <1>1 DEF BackfillPoint, At, RequestOK
<1>5. PICK s \in Sessions : s = r.s /\ sess[s].st # "none"
    BY <1>4
<1>6. config' \in Config /\ config'.opened <= now
    <2>1. config' = config \/ config' = [config EXCEPT !.cur = s]
        BY <1>1, <1>5 DEF BackfillPoint
    <2> QED
        BY <2>1 DEF Inv, TablesOK, Config, Clock
<1>8. [r EXCEPT !.s = None] \in Request
    BY DEF Request
<1>9. Return([r EXCEPT !.s = None], s) \in Request /\ RequestOK(Return([r EXCEPT !.s = None], s))
    <2> DEFINE y == [r EXCEPT !.s = None]
    <2>1. y \in Request
        BY <1>8
    <2>2. y.at = r.at /\ y.legacy = r.legacy
        BY DEF Request
    <2> HIDE DEF y
    <2>3. y.at <= now /\ y.legacy <= now
        BY <1>1, <2>2 DEF RequestOK
    <2>4. Return(y, s) \in Request /\ RequestOK(Return(y, s))
        BY <1>5, <2>1, <2>3, ReturnOK, NowIsNat
    <2> QED
        BY <2>4 DEF y
<1>10. Goto(h, Return([r EXCEPT !.s = None], s))
    BY <1>1, <1>5 DEF BackfillPoint
<1> QED
    BY <1>2, <1>3, <1>6, <1>9, <1>10, ConfigOK

LEMMA OpenLinkKeeps ==
    ASSUME Inv, NEW h \in Handlers, OpenLink(h)
    PROVE  Inv'
<1>1. PICK r \in Request : r = req[h] /\ RequestOK(r)
    BY HeldOK
<1>2. UNCHANGED <<sess, signed, closing, now>> /\ Goto(h, Opened(r))
    BY <1>1 DEF OpenLink
<1>3. HistGrows /\ faults' \in 0 .. MaxFaults
    BY HappensOK, FaultOK DEF OpenLink, Happenings, Inv, RestOK, HistGrows
<1>4. r.s \in Sessions /\ r.at \in Times /\ r.at <= now
    BY <1>1 DEF OpenLink, At, RequestOK, Request
<1>5. config' \in Config /\ config'.opened <= now
    <2>1. config' = config \/ config' = [config EXCEPT !.opened = r.at, !.cur = r.s]
        BY <1>1 DEF OpenLink
    <2> QED
        BY <1>4, <2>1 DEF Inv, TablesOK, Config, Clock
<1> QED
    BY <1>2, <1>3, <1>5, OpenedOK, NowIsNat, ConfigOK

LEMMA CloseClearKeeps ==
    ASSUME Inv, NEW h \in Handlers, CloseClear(h)
    PROVE  Inv'
<1>1. PICK r \in Request : r = req[h] /\ RequestOK(r)
    BY HeldOK
<1>2. UNCHANGED <<sess, signed, closing, now>> /\ Goto(h, Idle)
    BY DEF CloseClear, End
<1>3. HistGrows /\ faults' \in 0 .. MaxFaults
    BY HappensOK, FaultOK DEF CloseClear, Happenings, Inv, RestOK, HistGrows
<1>4. config' \in Config /\ config'.opened <= now
    <2>1. config' = config \/ config' = Cleared(r.z)
        BY <1>1 DEF CloseClear
    <2>2. r.z \in Nat /\ 0 \in Times /\ 0 <= now
        BY TimesAreNat, NowIsNat DEF Request
    <2> QED
        BY <2>1, <2>2 DEF Cleared, Inv, TablesOK, Config, Clock
<1> QED
    BY <1>2, <1>3, <1>4, IdleOK, NowIsNat, ConfigOK
-----------------------------------------------------------------------------
(* Steps that change the transactions, the closings or what a session records *)

\* The transaction that is stored is new, or it is one that is signed again.
LEMMA StoredIs ==
    ASSUME Inv, NEW h \in Handlers, Store(h)
    PROVE  \/ UNCHANGED <<signed, hist>>
           \/ \E t \in Txs :
                /\ signed' = [signed EXCEPT ![t] = req[h].at]
                /\ HistGrows
                /\ signed[t] # 0 => t \in hist'
<1>1. CASE \E t \in Stored(req[h]) :
              /\ signed' = [signed EXCEPT ![t] = req[h].at]
              /\ Happens({t} \ {u \in Txs : signed[u] = 0})
    <2>1. PICK t \in Stored(req[h]) :
              /\ signed' = [signed EXCEPT ![t] = req[h].at]
              /\ Happens({t} \ {u \in Txs : signed[u] = 0})
        BY <1>1
    <2>2. t \in Txs
        BY OrdersAreTxs DEF Stored
    <2>3. HistGrows
        BY <2>1, <2>2 DEF Happens, HistGrows, Inv, RestOK
    <2>4. signed[t] # 0 => t \in hist'
        BY <2>1, <2>2 DEF Happens
    <2> QED
        BY <2>1, <2>2, <2>3, <2>4
<1> QED
    BY <1>1 DEF Store

LEMMA StoreKeeps ==
    ASSUME Inv, NEW h \in Handlers, Store(h)
    PROVE  Inv'
<1>1. PICK r \in Request : r = req[h] /\ RequestOK(r)
    BY HeldOK
<1>2. UNCHANGED <<sess, config, closing, now>> /\ Goto(h, Idle)
    BY DEF Store, End
<1>3. faults' \in 0 .. MaxFaults
    BY FaultOK DEF Store, Inv, RestOK
<1>4. Idle \in Request /\ RequestOK(Idle)
    BY IdleOK, NowIsNat
<1>5. CASE UNCHANGED <<signed, hist>>
    <2>1. HistGrows
        BY <1>5 DEF Inv, RestOK, HistGrows
    <2> QED
        BY <1>2, <1>3, <1>4, <1>5, <2>1, TakeOnly DEF tables
<1>6. CASE \E t \in Txs : signed' = [signed EXCEPT ![t] = r.at] /\ HistGrows
                           /\ (signed[t] # 0 => t \in hist')
    <2>1. PICK t \in Txs : signed' = [signed EXCEPT ![t] = r.at] /\ HistGrows
                           /\ (signed[t] # 0 => t \in hist')
        BY <1>6
    <2>2. r.at \in Times /\ r.at <= now
        BY <1>1 DEF Request, RequestOK
    <2>3. signed \in [Txs -> Times]
        BY DEF Inv, TablesOK
    <2>4. signed' \in [Txs -> Times] /\ signed'[t] = r.at
        BY <2>1, <2>2, <2>3
    <2>5. \A u \in Txs : signed[u] # 0 => u \in hist' \/ signed'[u] = signed[u]
        BY <2>1, <2>3
    <2>6. Grows
        BY <1>2, <2>1, <2>5, NowIsNat DEF Grows, HistGrows
    <2>7. TablesOK' /\ Clock'
        <3>1. \A u \in Txs : signed'[u] <= now
            <4> TAKE u \in Txs
            <4>1. CASE u = t
                BY <2>2, <2>4, <4>1
            <4>2. CASE u # t
                BY <2>1, <2>3, <4>2 DEF Inv, Clock
            <4> QED
                BY <4>1, <4>2
        <3> QED
            BY <1>2, <2>4, <3>1 DEF Inv, TablesOK, OneOpen, IsOpen, Clock
    <2>8. \A c \in Closings : closing[c].txs \subseteq Txs
        BY DEF Inv, TablesOK, Closing
    <2>9. CountedSigned'
        BY <1>2, <2>1, <2>5, <2>8 DEF Inv, BooksOK, CountedSigned, HistGrows
    <2>10. ASSUME NEW s \in Closed
           PROVE  sess[s].closing \in Closings
        BY NoneIsNoId DEF Inv, BooksOK, ClosedIsComplete, Closed, TablesOK, Session
    <2>11. ASSUME NEW s \in Closed, NEW u \in closing[sess[s].closing].txs, u \notin hist'
           PROVE  signed'[u] \in closing[sess[s].closing].from .. closing[sess[s].closing].to
        <3>0. u \notin hist
            BY <2>1, <2>11 DEF HistGrows
        <3>1. signed[u] # 0 /\ u \in Txs
            BY <2>8, <2>10, <3>0 DEF Inv, BooksOK, CountedSigned
        <3>2. signed[u] \in closing[sess[s].closing].from .. closing[sess[s].closing].to
            BY <3>0 DEF Inv, BooksOK, ClosedIsComplete
        <3> QED
            BY <2>5, <2>11, <3>1, <3>2
    <2>12. Closed' = Closed
        BY <1>2 DEF Closed
    <2>13. ClosedIsComplete'
        BY <1>2, <2>11, <2>12 DEF Inv, BooksOK, ClosedIsComplete
    <2>14. RestOK'
        BY <1>2, <1>3, <2>1 DEF Inv, RestOK, HistGrows
    <2>15. RequestOK(Idle)'
        BY <1>4, <2>6, <2>14, HeldStays DEF RestOK
    <2> QED
        BY <1>2, <1>4, <2>6, <2>7, <2>9, <2>13, <2>14, <2>15, Take DEF BooksOK
<1> QED
    BY <1>1, <1>5, <1>6, StoredIs

\* A closing that is not used by any session changes nothing for them.
LEMMA ClosingOK ==
    ASSUME Inv, NEW c \in Closings, closing[c].st # "completed", NEW k \in Closing,
           closing' = [closing EXCEPT ![c] = k], \A t \in k.txs : t \in hist \/ signed[t] # 0,
           UNCHANGED <<sess, config, signed, now>>, hist \subseteq hist'
    PROVE  TablesOK' /\ Clock' /\ BooksOK'
<1>1. closing' \in [Closings -> Closing] /\ closing'[c] = k
    BY DEF Inv, TablesOK
<1>2. \A d \in Closings : d # c => closing'[d] = closing[d]
    BY DEF Inv, TablesOK
<1>3. TablesOK' /\ Clock'
    BY <1>1 DEF Inv, TablesOK, OneOpen, IsOpen, Clock
<1>4. CountedSigned'
    BY <1>1, <1>2 DEF Inv, BooksOK, CountedSigned
<1>5. ASSUME NEW s \in Closed
      PROVE  closing'[sess[s].closing] = closing[sess[s].closing]
    <2>1. sess[s].closing \in Closings /\ closing[sess[s].closing].st = "completed"
        BY NoneIsNoId DEF Inv, BooksOK, ClosedIsComplete, Closed, TablesOK, Session
    <2> QED
        BY <1>2, <2>1
<1>6. Closed' = Closed
    BY DEF Closed
<1>7. ClosedIsComplete'
    BY <1>5, <1>6 DEF Inv, BooksOK, ClosedIsComplete
<1> QED
    BY <1>3, <1>4, <1>7 DEF BooksOK

LEMMA ClosePutKeeps ==
    ASSUME Inv, NEW h \in Handlers, ClosePut(h)
    PROVE  Inv'
<1>1. PICK r \in Request : r = req[h] /\ RequestOK(r)
    BY HeldOK
<1>2. UNCHANGED <<sess, config, signed, now>>
    BY DEF ClosePut
<1>3. RestOK' /\ HistGrows
    BY <1>2, HappensOK, FaultOK DEF ClosePut, Happenings, Inv, RestOK, HistGrows
<1>4. Idle \in Request /\ RequestOK(Idle)
    BY IdleOK, NowIsNat
<1>5. CASE End(h) /\ UNCHANGED closing
    BY <1>2, <1>3, <1>4, <1>5, TakeOnly DEF RestOK, tables, End
<1>6. CASE ~(End(h) /\ UNCHANGED closing)
    <2> DEFINE k == [st |-> "pending", z |-> r.z, to |-> r.at, from |-> sess[r.s].opened,
                     txs |-> r.txs]
    <2>1. PICK c \in Closings :
             /\ closing[c].st = "none"
             /\ closing' = [closing EXCEPT ![c] = k]
             /\ Goto(h, [r EXCEPT !.pc = "wait", !.c = c]) \/ End(h)
        BY <1>1, <1>6 DEF ClosePut
    <2>2. r.pc = "put" /\ r.s \in Sessions /\ sess[r.s].st # "none"
        BY <1>1 DEF ClosePut, At, RequestOK
    <2>3. sess[r.s].opened \in Times
        BY <2>2 DEF Inv, TablesOK, Session
    <2>4. k \in Closing
        BY <2>3 DEF Closing, Request
    <2>5. k.st = "pending" /\ k.z = r.z /\ k.to = r.at /\ k.from = sess[r.s].opened /\ k.txs = r.txs
        OBVIOUS
    <2> HIDE DEF k
    <2>6. \A t \in k.txs : t \in hist \/ signed[t] # 0
        BY <1>1, <2>2, <2>5 DEF RequestOK
    <2>7. TablesOK' /\ Clock' /\ BooksOK'
        BY <1>2, <1>3, <2>1, <2>4, <2>6, ClosingOK DEF HistGrows
    <2>8. closing'[c] = k /\ \A d \in Closings : d # c => closing'[d] = closing[d]
        BY <2>1 DEF Inv, TablesOK
    <2>9. Grows
        BY <1>2, <1>3, <2>1, <2>8, NowIsNat DEF Grows, HistGrows
    <2>10. CASE End(h)
        <3>1. RequestOK(Idle)'
            BY <1>3, <1>4, <2>9, HeldStays DEF RestOK
        <3> QED
            BY <1>3, <1>4, <2>7, <2>9, <2>10, <3>1, Take DEF End
    <2>11. CASE Goto(h, [r EXCEPT !.pc = "wait", !.c = c])
        <3>1. PICK x \in Request : x = [r EXCEPT !.pc = "wait", !.c = c]
            BY DEF Request, Pcs
        <3>2. x.pc = "wait" /\ x.at = r.at /\ x.legacy = r.legacy /\ x.s = r.s /\ x.txs = r.txs
                /\ x.c = c /\ x.z = r.z
            BY <3>1 DEF Request
        <3>3. RequestOK(r)'
            BY <1>1, <1>3, <2>9, HeldStays DEF RestOK
        <3>4. ClosingIs(x)'
            BY <1>2, <2>5, <2>8, <3>2 DEF ClosingIs
        <3>5. RequestOK(x)'
            BY <2>2, <3>2, <3>3, <3>4 DEF RequestOK
        <3> QED
            BY <1>3, <2>7, <2>9, <2>11, <3>1, <3>5, Take
    <2> QED
        BY <2>1, <2>10, <2>11
<1> QED
    BY <1>5, <1>6

LEMMA ProcessKeeps ==
    ASSUME Inv, NEW c \in Closings, Process(c)
    PROVE  Inv'
<1>1. PICK st \in {"completed", "error"} : closing' = [closing EXCEPT ![c].st = st]
    BY DEF Process
<1>2. closing[c].st = "pending" /\ UNCHANGED <<sess, config, signed, now, req, hist>>
    BY DEF Process
<1>3. RestOK'
    BY <1>2, FaultOK DEF Process, Inv, RestOK
<1>4. closing[c] \in Closing
    BY DEF Inv, TablesOK
<1>5. PICK k \in Closing : k = [closing[c] EXCEPT !.st = st]
    BY <1>4 DEF Closing
<1>6. k.st = st /\ k.z = closing[c].z /\ k.from = closing[c].from /\ k.to = closing[c].to
        /\ k.txs = closing[c].txs
    BY <1>4, <1>5 DEF Closing
<1>7. closing' = [closing EXCEPT ![c] = k]
    BY <1>1, <1>5
<1>8. TablesOK' /\ Clock' /\ BooksOK'
    <2>1. \A t \in k.txs : t \in hist \/ signed[t] # 0
        BY <1>6 DEF Inv, BooksOK, CountedSigned
    <2> QED
        BY <1>2, <1>7, <2>1, ClosingOK
<1>9. closing'[c] = k /\ \A d \in Closings : d # c => closing'[d] = closing[d]
    BY <1>7 DEF Inv, TablesOK
<1>10. Grows
    BY <1>2, <1>6, <1>9, NowIsNat DEF Grows
<1>11. ASSUME NEW g \in Handlers PROVE RequestOK(req[g])'
    <2>1. PICK q \in Request : q = req[g] /\ RequestOK(q)
        BY HeldOK
    <2>2. RequestOK(q)'
        BY <1>3, <1>10, <2>1, HeldStays DEF RestOK
    <2> QED
        BY <1>2, <2>1, <2>2
<1> QED
    BY <1>2, <1>3, <1>8, <1>11 DEF Inv, RequestsOK

LEMMA CloseRecordKeeps ==
    ASSUME Inv, NEW h \in Handlers, CloseRecord(h)
    PROVE  Inv'
<1>1. PICK r \in Request : r = req[h] /\ RequestOK(r)
    BY HeldOK
<1>2. UNCHANGED <<config, signed, closing, now>>
    BY DEF CloseRecord
<1>3. RestOK' /\ HistGrows
    BY <1>2, HappensOK, FaultOK DEF CloseRecord, Happenings, Inv, RestOK, HistGrows
<1>4. CASE End(h) /\ UNCHANGED sess
    BY <1>2, <1>3, <1>4, IdleOK, NowIsNat, TakeOnly DEF RestOK, tables, End
<1>5. CASE ~(End(h) /\ UNCHANGED sess)
    <2>1. r.pc = "record" /\ r.s \in Sessions /\ sess[r.s].st # "none" /\ r.c \in Closings
            /\ ClosingIs(r) /\ closing[r.c].st = "completed"
        BY <1>1 DEF CloseRecord, At, RequestOK
    <2>2. sess' = [sess EXCEPT ![r.s] = [@ EXCEPT !.st = "closed", !.closed = r.at, !.z = r.z,
                                                 !.closing = r.c]]
        BY <1>1, <1>5 DEF CloseRecord
    <2>3. Goto(h, [r EXCEPT !.pc = "clear"])
        BY <1>1, <1>5 DEF CloseRecord, Step
    <2>4. sess[r.s] \in Session /\ sess \in [Sessions -> Session]
        BY <2>1 DEF Inv, TablesOK
    <2>5. PICK x \in Session : x = [sess[r.s] EXCEPT !.st = "closed", !.closed = r.at, !.z = r.z,
                                                     !.closing = r.c]
        BY <2>1, <2>4 DEF Session, Request
    <2>6. x.st = "closed" /\ x.opened = sess[r.s].opened /\ x.closed = r.at /\ x.z = r.z
            /\ x.closing = r.c
        BY <2>4, <2>5 DEF Session
    <2>7. sess' \in [Sessions -> Session] /\ sess'[r.s] = x
        BY <2>1, <2>2, <2>4, <2>5
    <2>8. \A s \in Sessions : s # r.s => sess'[s] = sess[s]
        BY <2>2, <2>4
    <2>9. Grows
        BY <1>2, <1>3, <2>1, <2>6, <2>7, <2>8, NowIsNat DEF Grows, HistGrows
    <2>10. TablesOK' /\ Clock'
        BY <1>2, <2>1, <2>6, <2>7, <2>8 DEF Inv, TablesOK, OneOpen, IsOpen, Clock
    <2>11. CountedSigned'
        BY <1>2, <1>3 DEF Inv, BooksOK, CountedSigned, HistGrows
    <2>12. ASSUME NEW s \in Sessions, sess'[s].st = "closed"
           PROVE  LET c == closing[sess'[s].closing]
                  IN  /\ sess'[s].closing # None
                      /\ c.st = "completed"
                      /\ c.z = sess'[s].z /\ c.from = sess'[s].opened /\ c.to = sess'[s].closed
                      /\ \A t \in c.txs : t \in hist \/ signed[t] \in c.from .. c.to
        <3>1. CASE s = r.s
            <4>1. sess'[s].closing = r.c /\ r.c # None
                BY <2>1, <2>6, <2>7, <3>1, NoneIsNoId
            <4>2. \A t \in r.txs : t \in hist \/ signed[t] \in sess[r.s].opened .. r.at
                BY <1>1, <2>1 DEF RequestOK
            <4> QED
                BY <2>1, <2>6, <2>7, <3>1, <4>1, <4>2 DEF ClosingIs
        <3>2. CASE s # r.s
            BY <2>8, <2>12, <3>2 DEF Inv, BooksOK, ClosedIsComplete, Closed
        <3> QED
            BY <3>1, <3>2
    <2>13. ClosedIsComplete'
        BY <1>2, <1>3, <2>12 DEF ClosedIsComplete, Closed, HistGrows
    <2>14. PICK y \in Request : y = [r EXCEPT !.pc = "clear"]
        BY DEF Request, Pcs
    <2>15. y.pc = "clear" /\ y.at = r.at /\ y.legacy = r.legacy
        BY <2>14 DEF Request
    <2>16. RequestOK(y)'
        BY <1>1, <1>2, <2>15 DEF RequestOK
    <2> QED
        BY <1>3, <2>3, <2>9, <2>10, <2>11, <2>13, <2>14, <2>16, Take DEF BooksOK
<1> QED
    BY <1>4, <1>5

-----------------------------------------------------------------------------
(* The invariant *)

LEMMA InitHolds == Init => Inv
<1> SUFFICES ASSUME Init PROVE Inv
    OBVIOUS
<1>1. TablesOK
    BY TimesAreNat DEF Init, TablesOK, OneOpen, IsOpen, Session, Config, Closing
<1>2. now = 1
    BY DEF Init
<1>3. RequestsOK
    <2>1. Idle \in Request /\ RequestOK(Idle)
        BY <1>2, IdleOK
    <2> QED
        BY <2>1 DEF Init, RequestsOK
<1>4. Clock
    BY <1>2 DEF Init, Clock
<1>5. BooksOK
    BY DEF Init, BooksOK, CountedSigned, ClosedIsComplete, Closed
<1>6. RestOK
    BY TimesAreNat, BoundsAreNat DEF Init, RestOK
<1> QED
    BY <1>1, <1>3, <1>4, <1>5, <1>6 DEF Inv

LEMMA NextKeeps == Inv /\ [Next]_vars => Inv'
<1> SUFFICES ASSUME Inv, [Next]_vars PROVE Inv'
    OBVIOUS
<1>1. CASE UNCHANGED vars
    BY <1>1 DEF vars, tables, Inv, TablesOK, OneOpen, IsOpen, RequestsOK, RequestOK, ClosingIs,
           Clock, BooksOK, CountedSigned, ClosedIsComplete, Closed, RestOK
<1>2. CASE \E c \in Closings : Process(c)
    BY <1>2, ProcessKeeps
<1>3. ASSUME NEW h \in Handlers, Finding(h) PROVE Inv'
    BY <1>3, LookKeeps, FindOpenKeeps, FindLegacyKeeps, BackfillKeeps, BackfillPointKeeps DEF Finding
<1>4. ASSUME NEW h \in Handlers, Opening(h) PROVE Inv'
    BY <1>4, OpenKeeps, OpenAutoKeeps, OpenReadKeeps, OpenStampKeeps, OpenInsertKeeps,
       OpenLinkKeeps DEF Opening
<1>5. ASSUME NEW h \in Handlers, Paying(h) PROVE Inv'
    BY <1>5, PayKeeps, RetryKeeps, SignKeeps, StoreKeeps DEF Paying
<1>6. ASSUME NEW h \in Handlers, Closes(h) PROVE Inv'
    BY <1>6, CloseKeeps, CloseReadKeeps, CloseBuildKeeps, ClosePutKeeps, CloseWaitKeeps,
       CloseRecordKeeps, CloseClearKeeps DEF Closes
<1>7. ASSUME NEW h \in Handlers, Vanish(h) PROVE Inv'
    BY <1>7, VanishKeeps
<1> QED
    BY <1>1, <1>2, <1>3, <1>4, <1>5, <1>6, <1>7 DEF Next

LEMMA InvHolds == Spec => []Inv
<1>1. Init => Inv
    BY InitHolds
<1>2. Inv /\ [Next]_vars => Inv'
    BY NextKeeps
<1> QED
    BY <1>1, <1>2, PTL DEF Spec

\* Sessions, config, closings and requests have the types they should, and at
\* most one session is open: the unique index on pos_register_sessions.
THEOREM TypeCorrect == Spec => []TypeOK
<1>1. Inv => TypeOK
    BY InvTypes
<1> QED
    BY <1>1, InvHolds, PTL

\* closeRegisterSession, in any interleaving with itself and with everything
\* else, and wherever it gives up: what a closed session records is a closing
\* the service has completed, with its number, its window and its transactions;
\* only an order that was signed again can have left the window.
THEOREM RecordedIsComplete == Spec => []ClosedIsComplete
<1>1. Inv => ClosedIsComplete
    BY InvTypes
<1> QED
    BY <1>1, InvHolds, PTL
-----------------------------------------------------------------------------
(* No signed transaction is forgotten *)

Undisturbed == hist \cap {"during", "late"} = {}

InReport(t) == \E s \in Closed : t \in closing[sess[s].closing].txs
Held(n) == \E s \in Sessions : IsOpen(s) /\ sess[s].opened <= n

\* A transaction is counted or within the open session; so is one that is about
\* to be stored; a close that has its time stamp is later than all of them, and
\* one that has counted has all there are since the opening of its session.
Kept ==
    /\ \A t \in Txs : signed[t] # 0 => InReport(t) \/ Held(signed[t])
    /\ \A h \in Handlers : req[h].pc = "store" => Held(req[h].at)
    /\ \A h \in Handlers : req[h].pc = "build" =>
          /\ \A t \in Txs : signed[t] <= req[h].at
          /\ \A g \in Handlers : req[g].pc = "store" => req[g].at <= req[h].at
    /\ \A h \in Handlers : req[h].pc \in {"put", "wait", "record"} =>
          /\ \A g \in Handlers : req[g].pc # "store"
          /\ \A t \in Txs : signed[t] # 0 /\ sess[req[h].s].opened <= signed[t] =>
                t \in req[h].txs

\* The statements it is about.
Watched == {"store", "build", "put", "wait", "record"}

\* Of two openings and signatures the later one is stored: what is in the report of
\* a session, or counted for it, was signed after its opening, the last time too.
Later ==
    /\ \A h \in Handlers : req[h].pc = "store" =>
          \A s \in Sessions : sess[s].st # "none" => sess[s].opened <= req[h].at
    /\ \A s \in Closed : \A t \in closing[sess[s].closing].txs : sess[s].opened <= signed[t]
    /\ \A h \in Handlers : req[h].pc \in {"put", "wait", "record"} =>
          \A t \in req[h].txs : sess[req[h].s].opened <= signed[t]

KeptInv == Undisturbed => Kept /\ Later

\* No step but the recording of a close takes anything from an open session, and
\* none changes a closing that is completed.
SessionsStay ==
    \A s \in Sessions :
        /\ sess[s].st # "none" => sess'[s].opened = sess[s].opened
        /\ sess[s].st = "open" => sess'[s].st = "open"
        /\ sess[s].st = "closed" => sess'[s] = sess[s]
ClosingsStay == \A c \in Closings : closing[c].st = "completed" => closing'[c] = closing[c]

LEMMA ReportStays ==
    ASSUME Inv, SessionsStay, ClosingsStay, NEW t \in Txs, InReport(t)
    PROVE  InReport(t)'
<1>1. PICK s \in Closed : t \in closing[sess[s].closing].txs
    BY DEF InReport
<1>2. s \in Sessions /\ sess[s].st = "closed"
    BY DEF Closed
<1>3. sess[s].closing \in Closings /\ closing[sess[s].closing].st = "completed"
    BY <1>2, NoneIsNoId DEF Inv, BooksOK, ClosedIsComplete, Closed, TablesOK, Session
<1>4. sess'[s] = sess[s]
    BY <1>2 DEF SessionsStay
<1>5. closing'[sess[s].closing] = closing[sess[s].closing]
    BY <1>3 DEF ClosingsStay
<1>6. s \in Closed'
    BY <1>2, <1>4 DEF Closed
<1> QED
    BY <1>1, <1>4, <1>5, <1>6 DEF InReport

LEMMA HeldStaysHeld ==
    ASSUME SessionsStay, NEW n \in Nat, Held(n)
    PROVE  Held(n)'
BY DEF SessionsStay, Held, IsOpen

\* A step of a request that neither signs, stores, counts nor records: what the
\* request goes on with is nothing of the kind, or what it had.
LEMMA KeptFrame ==
    ASSUME Inv, Kept, SessionsStay, ClosingsStay, UNCHANGED signed,
           NEW h \in Handlers, NEW r, Goto(h, r),
           \/ r.pc \notin Watched
           \/ /\ r.pc \in {"wait", "record"} /\ req[h].pc \in {"put", "wait"}
              /\ r.s = req[h].s /\ r.txs = req[h].txs
    PROVE  Kept'
<1>1. req'[h] = r /\ \A g \in Handlers : g # h => req'[g] = req[g]
    BY DEF Goto, Inv, RequestsOK
<1>2. \A g \in Handlers : req[g] \in Request /\ req[g].at \in Nat /\ RequestOK(req[g])
    BY HeldOK
<1>3. \A t \in Txs : signed[t] \in Nat
    BY TimesAreNat DEF Inv, TablesOK
<1>4. (\A t \in Txs : signed[t] # 0 => InReport(t) \/ Held(signed[t]))'
    <2> SUFFICES ASSUME NEW t \in Txs, signed[t] # 0 PROVE InReport(t)' \/ Held(signed[t])'
        OBVIOUS
    <2>1. InReport(t) \/ Held(signed[t])
        BY DEF Kept
    <2>2. PICK n \in Nat : n = signed[t] /\ n = signed'[t]
        BY <1>3
    <2>3. Held(n) => Held(n)'
        BY HeldStaysHeld
    <2> QED
        BY <2>1, <2>2, <2>3, ReportStays
<1>5. (\A g \in Handlers : req[g].pc = "store" => Held(req[g].at))'
    <2> SUFFICES ASSUME NEW g \in Handlers, req'[g].pc = "store" PROVE Held(req[g].at)'
        OBVIOUS
    <2>1. req'[g] = req[g] /\ req[g].pc = "store"
        BY <1>1 DEF Watched
    <2>2. PICK n \in Nat : n = req[g].at /\ n = req'[g].at
        BY <1>2, <2>1
    <2>3. Held(n)
        BY <2>1, <2>2 DEF Kept
    <2>4. Held(n)'
        BY <2>3, HeldStaysHeld
    <2> QED
        BY <2>2, <2>4
<1>6. (\A g \in Handlers : req[g].pc = "build" =>
          /\ \A t \in Txs : signed[t] <= req[g].at
          /\ \A f \in Handlers : req[f].pc = "store" => req[f].at <= req[g].at)'
    BY <1>1 DEF Kept, Watched
<1>7. (\A g \in Handlers : req[g].pc \in {"put", "wait", "record"} =>
          /\ \A f \in Handlers : req[f].pc # "store"
          /\ \A t \in Txs : signed[t] # 0 /\ sess[req[g].s].opened <= signed[t] =>
                t \in req[g].txs)'
    <2> SUFFICES ASSUME NEW g \in Handlers, req'[g].pc \in {"put", "wait", "record"}
                 PROVE  /\ \A f \in Handlers : req'[f].pc # "store"
                        /\ \A t \in Txs : signed[t] # 0 /\ sess'[req'[g].s].opened <= signed[t] =>
                              t \in req'[g].txs
        OBVIOUS
    <2>1. req[g].pc \in {"put", "wait", "record"} /\ req'[g].s = req[g].s /\ req'[g].txs = req[g].txs
        BY <1>1 DEF Watched
    <2>2. req[g].s \in Sessions /\ sess'[req[g].s].opened = sess[req[g].s].opened
        BY <1>2, <2>1 DEF RequestOK, SessionsStay
    <2>3. \A f \in Handlers : req[f].pc # "store"
        BY <2>1 DEF Kept
    <2>4. \A f \in Handlers : req'[f].pc # "store"
        BY <1>1, <2>3 DEF Watched
    <2> QED
        BY <2>1, <2>2, <2>4 DEF Kept
<1> QED
    BY <1>4, <1>5, <1>6, <1>7 DEF Kept
\* The request goes on with something else.
Elsewhere(h) == \E r : Goto(h, r) /\ r.pc \notin Watched

LEMMA ElsewhereKeeps ==
    ASSUME Inv, Kept, SessionsStay, ClosingsStay, UNCHANGED signed,
           NEW h \in Handlers, Elsewhere(h)
    PROVE  Kept'
<1>1. PICK r : Goto(h, r) /\ r.pc \notin Watched
    BY DEF Elsewhere
<1> QED
    BY <1>1, KeptFrame

LEMMA NothingChanges ==
    ASSUME UNCHANGED tables
    PROVE  SessionsStay /\ ClosingsStay /\ UNCHANGED signed
BY DEF tables, SessionsStay, ClosingsStay

LEMMA ReturnElsewhere ==
    ASSUME NEW r \in Request, NEW s
    PROVE  /\ Return(r, s).pc \notin Watched /\ Opened(r).pc \notin Watched
           /\ Idle.pc \notin Watched
           /\ \A ret : Call(r, ret).pc \notin Watched
<1>1. Idle.pc \notin Watched /\ \A op : ToSign(op).pc \notin Watched
    BY DEF Idle, ToSign, Watched
<1>2. Opened(r).pc \notin Watched
    BY <1>1 DEF Opened
<1>3. \A ret : Call(r, ret).pc \notin Watched
    BY DEF Call, Watched, Request
<1>4. Return(r, s).pc \notin Watched
    <2>1. /\ [r EXCEPT !.pc = "config"].pc \notin Watched
          /\ [r EXCEPT !.pc = "stamp"].pc \notin Watched
          /\ [r EXCEPT !.pc = "counter", !.s = s].pc \notin Watched
        BY DEF Watched, Request
    <2>2. CASE r.ret = "gate"
        BY <1>1, <1>2, <1>3, <2>2 DEF Return
    <2>3. CASE r.ret = "ensure"
        BY <1>2, <2>1, <2>3 DEF Return
    <2>4. CASE r.ret = "open"
        BY <1>2, <2>1, <2>4 DEF Return
    <2>5. CASE r.ret = "close"
        BY <1>1, <2>1, <2>5 DEF Return
    <2>6. CASE r.ret \notin {"gate", "ensure", "open", "close"}
        BY <1>1, <2>6 DEF Return
    <2> QED
        BY <2>2, <2>3, <2>4, <2>5, <2>6
<1> QED
    BY <1>1, <1>2, <1>3, <1>4

LEMMA GoesOn ==
    ASSUME Inv, NEW h \in Handlers, NEW pc, pc \notin Watched, Step(h, pc)
    PROVE  Elsewhere(h)
<1>1. [req[h] EXCEPT !.pc = pc].pc = pc
    BY HeldOK DEF Request
<1> QED
    BY <1>1 DEF Step, Elsewhere

LEMMA Ends ==
    ASSUME NEW h \in Handlers, End(h)
    PROVE  Elsewhere(h)
BY DEF End, Elsewhere, Idle, Watched

\* A request that begins has not signed and counted anything yet.
LEMMA BeginsElsewhere ==
    ASSUME Inv, NEW h \in Handlers,
           Look(h) \/ Open(h) \/ OpenAuto(h) \/ Pay(h) \/ Retry(h) \/ Close(h)
    PROVE  Elsewhere(h) /\ UNCHANGED tables
<1>2. ASSUME NEW op \in {"look", "open", "pay", "retry", "close"}, NEW cash \in BOOLEAN, NEW ret
      PROVE  /\ Call([Idle EXCEPT !.op = op, !.cash = cash], ret).pc \notin Watched
             /\ Call([Idle EXCEPT !.op = op], ret).pc \notin Watched
             /\ [Idle EXCEPT !.op = op, !.pc = "config"].pc \notin Watched
    BY DEF Idle, Call, Watched
<1>3. ToSign("retry").pc \notin Watched
    BY DEF ToSign, Idle, Watched
<1> QED
    BY <1>2, <1>3 DEF Look, Open, OpenAuto, Pay, Retry, Close, Begin, Elsewhere
LEMMA FindsElsewhere ==
    ASSUME Inv, NEW h \in Handlers, FindOpen(h) \/ FindLegacy(h) \/ Vanish(h)
    PROVE  Elsewhere(h) /\ UNCHANGED tables
<1>1. PICK r \in Request : r = req[h]
    BY HeldOK
<1>2. \A s : Return(r, s).pc \notin Watched
    BY ReturnElsewhere
<1>0. UNCHANGED tables
    BY DEF FindOpen, FindLegacy, Vanish
<1>3. CASE FindOpen(h)
    <2>1. CASE Step(h, "legacy")
        <3>1. "legacy" \notin Watched
            BY DEF Watched
        <3> QED
            BY <1>0, <2>1, <3>1, GoesOn
    <2>2. CASE \E s \in Sessions : Goto(h, Return(r, s))
        <3>1. PICK s \in Sessions : Goto(h, Return(r, s))
            BY <2>2
        <3>2. Return(r, s).pc \notin Watched
            BY <1>2
        <3> QED
            BY <1>0, <3>1, <3>2 DEF Elsewhere
    <2> QED
        BY <1>1, <1>3, <2>1, <2>2 DEF FindOpen
<1>4. CASE FindLegacy(h)
    <2>1. [r EXCEPT !.pc = "backfill", !.legacy = config.opened].pc \notin Watched
        BY DEF Request, Watched
    <2> QED
        BY <1>1, <1>2, <1>4, <2>1 DEF FindLegacy, Elsewhere
<1>5. CASE Vanish(h)
    BY <1>5, Ends DEF Vanish
<1> QED
    BY <1>3, <1>4, <1>5 DEF FindOpen, FindLegacy, Vanish

LEMMA OpensElsewhere ==
    ASSUME Inv, NEW h \in Handlers, OpenRead(h) \/ OpenStamp(h)
    PROVE  Elsewhere(h) /\ UNCHANGED tables
<1>1. PICK r \in Request : r = req[h]
    BY HeldOK
<1>2. CASE OpenRead(h)
    <2>1. PICK o \in Times : o = config.opened
        BY DEF Inv, TablesOK, Config
    <2>2. PICK x \in Request : x = [r EXCEPT !.seen = o]
        BY DEF Request
    <2>3. Opened(r).pc \notin Watched /\ Call(x, "open").pc \notin Watched
        BY ReturnElsewhere
    <2> QED
        BY <1>1, <1>2, <2>1, <2>2, <2>3 DEF OpenRead, Elsewhere
<1>3. CASE OpenStamp(h)
    <2>1. [r EXCEPT !.pc = "insert", !.at = now'].pc \notin Watched
        BY DEF Request, Watched
    <2> QED
        BY <1>1, <1>3, <2>1 DEF OpenStamp, Elsewhere
<1> QED
    BY <1>2, <1>3 DEF OpenRead, OpenStamp

LEMMA InsertStays ==
    ASSUME Inv, NEW s \in Sessions, NEW o, Insert(s, o), UNCHANGED closing
    PROVE  SessionsStay /\ ClosingsStay
<1>1. \A u \in Sessions : u # s => sess'[u] = sess[u]
    BY DEF Insert, Inv, TablesOK
<1> QED
    BY <1>1 DEF Insert, SessionsStay, ClosingsStay

\* The steps that insert a session or write the config.
LEMMA WritesElsewhere ==
    ASSUME Inv, NEW h \in Handlers,
           Backfill(h) \/ BackfillPoint(h) \/ OpenInsert(h) \/ OpenLink(h) \/ CloseClear(h)
    PROVE  Elsewhere(h)
<1>1. PICK r \in Request : r = req[h]
    BY HeldOK
<1>2. (\A s : Return(r, s).pc \notin Watched) /\ Opened(r).pc \notin Watched
    BY ReturnElsewhere
<1>3. CASE Backfill(h)
    <2>1. \A s : [r EXCEPT !.pc = "point", !.s = s].pc \notin Watched
        BY DEF Request, Watched
    <2> QED
        BY <1>1, <1>2, <1>3, <2>1 DEF Backfill, Elsewhere
<1>4. CASE BackfillPoint(h)
    <2>1. [r EXCEPT !.s = None] \in Request
        BY DEF Request
    <2>2. Return([r EXCEPT !.s = None], r.s).pc \notin Watched
        BY <2>1, ReturnElsewhere
    <2> QED
        BY <1>1, <1>4, <2>2 DEF BackfillPoint, Elsewhere
<1>5. CASE OpenInsert(h)
    <2>1. \A s : [r EXCEPT !.pc = "link", !.s = s].pc \notin Watched
        BY DEF Request, Watched
    <2> QED
        BY <1>1, <1>2, <1>5, <2>1 DEF OpenInsert, Elsewhere
<1>6. CASE OpenLink(h)
    BY <1>1, <1>2, <1>6 DEF OpenLink, Elsewhere
<1>7. CASE CloseClear(h)
    BY <1>7, Ends DEF CloseClear
<1> QED
    BY <1>3, <1>4, <1>5, <1>6, <1>7

LEMMA WritesKeep ==
    ASSUME Inv, Kept, NEW h \in Handlers,
           Backfill(h) \/ BackfillPoint(h) \/ OpenInsert(h) \/ OpenLink(h) \/ CloseClear(h)
    PROVE  Kept'
<1>1. Elsewhere(h)
    BY WritesElsewhere
<1>2. UNCHANGED <<closing, signed>>
    BY DEF Backfill, BackfillPoint, OpenInsert, OpenLink, CloseClear
<1>3. SessionsStay
    <2>1. CASE Backfill(h)
        BY <2>1, InsertStays DEF Backfill, SessionsStay
    <2>2. CASE OpenInsert(h)
        BY <2>2, InsertStays DEF OpenInsert, SessionsStay
    <2>3. CASE BackfillPoint(h) \/ OpenLink(h) \/ CloseClear(h)
        BY <2>3 DEF BackfillPoint, OpenLink, CloseClear, SessionsStay
    <2> QED
        BY <2>1, <2>2, <2>3
<1> QED
    BY <1>1, <1>2, <1>3, ElsewhereKeeps DEF ClosingsStay

\* The steps of a close at the service: what was counted is carried along.
LEMMA ServiceStays ==
    ASSUME Inv, NEW h \in Handlers, ClosePut(h) \/ CloseWait(h)
    PROVE  SessionsStay /\ ClosingsStay /\ UNCHANGED signed
<1>1. CASE ClosePut(h)
    <2>1. closing' = closing \/ \E c \in Closings : \E k :
            closing[c].st = "none" /\ closing' = [closing EXCEPT ![c] = k]
        BY <1>1 DEF ClosePut
    <2>2. ClosingsStay
        BY <2>1 DEF ClosingsStay, Inv, TablesOK
    <2> QED
        BY <1>1, <2>2 DEF ClosePut, SessionsStay
<1>2. CASE CloseWait(h)
    BY <1>2, NothingChanges DEF CloseWait
<1> QED
    BY <1>1, <1>2

LEMMA ServiceGoesOn ==
    ASSUME Inv, NEW h \in Handlers, ClosePut(h) \/ CloseWait(h), ~End(h)
    PROVE  \E x : /\ Goto(h, x) /\ x.pc \in {"wait", "record"} /\ req[h].pc \in {"put", "wait"}
                  /\ x.s = req[h].s /\ x.txs = req[h].txs
<1>1. PICK r \in Request : r = req[h]
    BY HeldOK
<1>2. CASE ClosePut(h)
    <2>1. PICK c \in Closings : Goto(h, [r EXCEPT !.pc = "wait", !.c = c])
        BY <1>1, <1>2 DEF ClosePut
    <2>2. /\ [r EXCEPT !.pc = "wait", !.c = c].pc = "wait"
          /\ [r EXCEPT !.pc = "wait", !.c = c].s = r.s
          /\ [r EXCEPT !.pc = "wait", !.c = c].txs = r.txs
        BY DEF Request
    <2> QED
        BY <1>1, <1>2, <2>1, <2>2 DEF ClosePut, At
<1>3. CASE CloseWait(h)
    <2>1. Goto(h, [r EXCEPT !.pc = "record"])
        BY <1>1, <1>3 DEF CloseWait, Step
    <2>2. /\ [r EXCEPT !.pc = "record"].pc = "record"
          /\ [r EXCEPT !.pc = "record"].s = r.s
          /\ [r EXCEPT !.pc = "record"].txs = r.txs
        BY DEF Request
    <2> QED
        BY <1>1, <1>3, <2>1, <2>2 DEF CloseWait, At
<1> QED
    BY <1>2, <1>3

LEMMA ServiceKeeps ==
    ASSUME Inv, Kept, NEW h \in Handlers, ClosePut(h) \/ CloseWait(h)
    PROVE  Kept'
<1>1. SessionsStay /\ ClosingsStay /\ UNCHANGED signed
    BY ServiceStays
<1>2. CASE End(h)
    BY <1>1, <1>2, Ends, ElsewhereKeeps
<1>3. CASE ~End(h)
    <2>1. PICK x : /\ Goto(h, x) /\ x.pc \in {"wait", "record"} /\ req[h].pc \in {"put", "wait"}
                   /\ x.s = req[h].s /\ x.txs = req[h].txs
        BY <1>3, ServiceGoesOn
    <2> QED
        BY <1>1, <2>1, KeptFrame
<1> QED
    BY <1>2, <1>3

LEMMA Numbers ==
    ASSUME Inv
    PROVE  /\ \A t \in Txs : signed[t] \in Nat /\ signed[t] <= now
           /\ \A s \in Sessions : sess[s].opened \in Nat /\ sess[s].opened <= now
           /\ \A h \in Handlers : req[h].at \in Nat /\ req[h].at <= now
           /\ now \in Nat
<1>1. \A h \in Handlers : req[h].at \in Nat /\ req[h].at <= now
    BY HeldOK DEF RequestOK
<1> QED
    BY <1>1, NowIsNat, TimesAreNat DEF Inv, TablesOK, Session, Clock

\* A signature while the register is open and no close is counting.
LEMMA SignKeepsAll ==
    ASSUME Inv, Kept, NEW h \in Handlers, Sign(h), Undisturbed'
    PROVE  Kept'
<1>1. PICK r \in Request : r = req[h]
    BY HeldOK
<1>2. UNCHANGED tables
    BY DEF Sign
<1>3. CASE End(h)
    BY <1>2, <1>3, Ends, ElsewhereKeeps, NothingChanges
<1>4. CASE ~End(h)
    <2>1. /\ Stamp /\ Goto(h, [r EXCEPT !.pc = "store", !.at = now'])
          /\ Happens((IF MayInsert THEN {"late"} ELSE {}) \cup (IF Counting THEN {"during"} ELSE {}))
        BY <1>1, <1>4 DEF Sign
    <2>2. ~MayInsert /\ ~Counting
        BY <2>1 DEF Happens, Undisturbed
    <2>3. req'[h].pc = "store" /\ req'[h].at = now'
        BY <2>1 DEF Goto, Inv, RequestsOK, Request
    <2>4. \A g \in Handlers : g # h => req'[g] = req[g]
        BY <2>1 DEF Goto, Inv, RequestsOK
    <2>5. PICK n \in Nat : n = now' /\ now <= n
        BY <2>1, Numbers DEF Stamp
    <2>6. Held(n)'
        <3>1. PICK s \in Sessions : IsOpen(s)
            BY <2>2 DEF MayInsert
        <3>2. sess[s].opened <= n
            BY <2>5, Numbers
        <3> QED
            BY <1>2, <3>1, <3>2 DEF Held, IsOpen, tables
    <2>7. SessionsStay /\ ClosingsStay /\ UNCHANGED signed
        BY <1>2, NothingChanges
    <2>8. (\A t \in Txs : signed[t] # 0 => InReport(t) \/ Held(signed[t]))'
        BY <1>2 DEF Kept, tables, InReport, Closed, Held, IsOpen
    <2>9. (\A g \in Handlers : req[g].pc = "store" => Held(req[g].at))'
        <3> SUFFICES ASSUME NEW g \in Handlers, req'[g].pc = "store" PROVE Held(req[g].at)'
            OBVIOUS
        <3>1. CASE g = h
            BY <2>3, <2>5, <2>6, <3>1
        <3>2. CASE g # h
            <4>1. Held(req[g].at)
                BY <2>4, <3>2 DEF Kept
            <4> QED
                BY <1>2, <2>4, <3>2, <4>1 DEF Held, IsOpen, tables
        <3> QED
            BY <3>1, <3>2
    <2>10. \A g \in Handlers : req'[g].pc \notin {"build", "put", "wait", "record"}
        BY <2>2, <2>3, <2>4 DEF Counting
    <2> QED
        BY <2>8, <2>9, <2>10 DEF Kept
<1> QED
    BY <1>3, <1>4

LEMMA StoreKeepsAll ==
    ASSUME Inv, Kept, NEW h \in Handlers, Store(h)
    PROVE  Kept'
<1>1. UNCHANGED <<sess, config, closing>> /\ End(h) /\ req[h].pc = "store"
    BY DEF Store, At
<1>2. SessionsStay /\ ClosingsStay
    BY <1>1 DEF SessionsStay, ClosingsStay
<1>3. CASE UNCHANGED signed
    BY <1>1, <1>2, <1>3, Ends, ElsewhereKeeps
<1>4. CASE \E t \in Txs : signed' = [signed EXCEPT ![t] = req[h].at]
    <2>1. PICK t \in Txs : signed' = [signed EXCEPT ![t] = req[h].at]
        BY <1>4
    <2>2. signed'[t] = req[h].at /\ \A u \in Txs : u # t => signed'[u] = signed[u]
        BY <2>1 DEF Inv, TablesOK
    <2>3. req'[h].pc = "idle" /\ \A g \in Handlers : g # h => req'[g] = req[g]
        BY <1>1 DEF End, Goto, Idle, Inv, RequestsOK
    <2>4. (\A u \in Txs : signed[u] # 0 => InReport(u) \/ Held(signed[u]))'
        <3> SUFFICES ASSUME NEW u \in Txs, signed'[u] # 0 PROVE InReport(u)' \/ Held(signed[u])'
            OBVIOUS
        <3>1. CASE u = t
            <4>1. Held(req[h].at)
                BY <1>1 DEF Kept
            <4> QED
                BY <1>1, <2>2, <3>1, <4>1 DEF Held, IsOpen
        <3>2. CASE u # t
            <4>1. InReport(u) \/ Held(signed[u])
                BY <2>2, <3>2 DEF Kept
            <4> QED
                BY <1>1, <2>2, <3>2, <4>1 DEF InReport, Closed, Held, IsOpen
        <3> QED
            BY <3>1, <3>2
    <2>5. (\A g \in Handlers : req[g].pc = "store" => Held(req[g].at))'
        BY <1>1, <2>3 DEF Kept, Held, IsOpen
    <2>6. (\A g \in Handlers : req[g].pc = "build" =>
              /\ \A u \in Txs : signed[u] <= req[g].at
              /\ \A f \in Handlers : req[f].pc = "store" => req[f].at <= req[g].at)'
        <3> SUFFICES ASSUME NEW g \in Handlers, req'[g].pc = "build"
                     PROVE  /\ \A u \in Txs : signed'[u] <= req'[g].at
                            /\ \A f \in Handlers : req'[f].pc = "store" => req'[f].at <= req'[g].at
            OBVIOUS
        <3>1. g # h /\ req'[g] = req[g]
            BY <2>3
        <3>2. /\ \A u \in Txs : signed[u] <= req[g].at
              /\ \A f \in Handlers : req[f].pc = "store" => req[f].at <= req[g].at
            BY <3>1 DEF Kept
        <3>3. signed'[t] <= req[g].at
            BY <1>1, <2>2, <3>2
        <3> QED
            BY <2>2, <2>3, <3>1, <3>2, <3>3
    <2>7. \A g \in Handlers : req'[g].pc \notin {"put", "wait", "record"}
        BY <1>1, <2>3 DEF Kept
    <2> QED
        BY <2>4, <2>5, <2>6, <2>7 DEF Kept
<1> QED
    BY <1>3, <1>4, StoredIs

\* The time stamp of a close is later than everything signed so far.
LEMMA CloseReadKeepsAll ==
    ASSUME Inv, Kept, NEW h \in Handlers, CloseRead(h)
    PROVE  Kept'
<1>1. PICK r \in Request : r = req[h]
    BY HeldOK
<1>2. UNCHANGED tables /\ Stamp
    BY DEF CloseRead
<1>3. PICK n \in Nat : n = now' /\ now <= n
    BY <1>2, Numbers DEF Stamp
<1>4. PICK x : Goto(h, x) /\ x.pc = "build" /\ x.at = n
    <2>1. Goto(h, [r EXCEPT !.pc = "build", !.at = n, !.z = config.counter + 1])
        BY <1>1, <1>3 DEF CloseRead
    <2>2. /\ [r EXCEPT !.pc = "build", !.at = n, !.z = config.counter + 1].pc = "build"
          /\ [r EXCEPT !.pc = "build", !.at = n, !.z = config.counter + 1].at = n
        BY DEF Request
    <2> QED
        BY <2>1, <2>2
<1>5. req'[h] = x /\ \A g \in Handlers : g # h => req'[g] = req[g]
    BY <1>4 DEF Goto, Inv, RequestsOK
<1>6. r.pc = "counter"
    BY <1>1 DEF CloseRead, At
<1>7. (\A t \in Txs : signed[t] # 0 => InReport(t) \/ Held(signed[t]))'
    BY <1>2 DEF Kept, tables, InReport, Closed, Held, IsOpen
<1>8. (\A g \in Handlers : req[g].pc = "store" => Held(req[g].at))'
    BY <1>2, <1>4, <1>5 DEF Kept, tables, Held, IsOpen
<1>9. (\A g \in Handlers : req[g].pc = "build" =>
          /\ \A t \in Txs : signed[t] <= req[g].at
          /\ \A f \in Handlers : req[f].pc = "store" => req[f].at <= req[g].at)'
    <2> SUFFICES ASSUME NEW g \in Handlers, req'[g].pc = "build"
                 PROVE  /\ \A t \in Txs : signed'[t] <= req'[g].at
                        /\ \A f \in Handlers : req'[f].pc = "store" => req'[f].at <= req'[g].at
        OBVIOUS
    <2>1. \A f \in Handlers : req'[f].pc = "store" => req'[f] = req[f]
        BY <1>4, <1>5
    <2>2. CASE g = h
        <3>1. req'[g].at = n
            BY <1>4, <1>5, <2>2
        <3>2. \A t \in Txs : signed'[t] <= n
            BY <1>2, <1>3, Numbers DEF tables
        <3>3. \A f \in Handlers : req[f].at <= n
            BY <1>3, Numbers
        <3> QED
            BY <2>1, <3>1, <3>2, <3>3
    <2>3. CASE g # h
        <3>1. req'[g] = req[g]
            BY <1>5, <2>3
        <3> QED
            BY <1>2, <2>1, <3>1 DEF Kept, tables
    <2> QED
        BY <2>2, <2>3
<1>10. (\A g \in Handlers : req[g].pc \in {"put", "wait", "record"} =>
          /\ \A f \in Handlers : req[f].pc # "store"
          /\ \A t \in Txs : signed[t] # 0 /\ sess[req[g].s].opened <= signed[t] =>
                t \in req[g].txs)'
    BY <1>2, <1>4, <1>5 DEF Kept, tables
<1> QED
    BY <1>7, <1>8, <1>9, <1>10 DEF Kept

\* A close counts everything there is since the opening, if nothing is on its way.
LEMMA CloseBuildKeepsAll ==
    ASSUME Inv, Kept, NEW h \in Handlers, CloseBuild(h), Undisturbed'
    PROVE  Kept'
<1>1. PICK r \in Request : r = req[h]
    BY HeldOK
<1>2. UNCHANGED tables /\ r.pc = "build"
    BY <1>1 DEF CloseBuild, At
<1>3. CASE End(h)
    BY <1>2, <1>3, Ends, ElsewhereKeeps, NothingChanges
<1>4. CASE ~End(h)
    <2>1. PICK x : Goto(h, x) /\ x.pc = "put" /\ x.s = r.s /\ x.txs = Window(r)
        <3>1. Goto(h, [r EXCEPT !.pc = "put", !.txs = Window(r)])
            BY <1>1, <1>4 DEF CloseBuild
        <3>2. /\ [r EXCEPT !.pc = "put", !.txs = Window(r)].pc = "put"
              /\ [r EXCEPT !.pc = "put", !.txs = Window(r)].s = r.s
              /\ [r EXCEPT !.pc = "put", !.txs = Window(r)].txs = Window(r)
            BY DEF Request
        <3> QED
            BY <3>1, <3>2
    <2>2. \A g \in Handlers : req[g].pc # "store"
        BY DEF CloseBuild, Happens, Undisturbed, At
    <2>3. req'[h] = x /\ \A g \in Handlers : g # h => req'[g] = req[g]
        BY <2>1 DEF Goto, Inv, RequestsOK
    <2>4. \A g \in Handlers : req'[g].pc # "store"
        BY <2>1, <2>2, <2>3
    <2>5. (\A t \in Txs : signed[t] # 0 => InReport(t) \/ Held(signed[t]))'
        BY <1>2 DEF Kept, tables, InReport, Closed, Held, IsOpen
    <2>6. (\A g \in Handlers : req[g].pc = "build" =>
              /\ \A t \in Txs : signed[t] <= req[g].at
              /\ \A f \in Handlers : req[f].pc = "store" => req[f].at <= req[g].at)'
        BY <1>2, <2>1, <2>3, <2>4 DEF Kept, tables
    <2>7. ASSUME NEW t \in Txs, signed[t] # 0, sess[r.s].opened <= signed[t]
          PROVE  t \in Window(r)
        <3>1. signed[t] <= r.at
            BY <1>1, <1>2 DEF Kept
        <3> QED
            BY <2>7, <3>1 DEF Window
    <2>8. (\A g \in Handlers : req[g].pc \in {"put", "wait", "record"} =>
              \A t \in Txs : signed[t] # 0 /\ sess[req[g].s].opened <= signed[t] =>
                  t \in req[g].txs)'
        <3> SUFFICES ASSUME NEW g \in Handlers, req'[g].pc \in {"put", "wait", "record"},
                            NEW t \in Txs, signed'[t] # 0, sess'[req'[g].s].opened <= signed'[t]
                     PROVE  t \in req'[g].txs
            OBVIOUS
        <3>1. CASE g = h
            BY <1>2, <2>1, <2>3, <2>7, <3>1 DEF tables
        <3>2. CASE g # h
            <4>1. req'[g] = req[g]
                BY <2>3, <3>2
            <4> QED
                BY <1>2, <4>1 DEF Kept, tables
        <3> QED
            BY <3>1, <3>2
    <2> QED
        BY <2>4, <2>5, <2>6, <2>8 DEF Kept
<1> QED
    BY <1>3, <1>4

\* The recording of a close: all that its session held is in its closing, also
\* where another close had recorded the session before.
LEMMA CloseRecordKeepsAll ==
    ASSUME Inv, Kept, Later, NEW h \in Handlers, CloseRecord(h)
    PROVE  Kept'
<1>1. PICK r \in Request : r = req[h] /\ RequestOK(r)
    BY HeldOK
<1>2. UNCHANGED <<config, signed, closing, now>> /\ r.pc = "record"
    BY <1>1 DEF CloseRecord, At
<1>3. CASE End(h) /\ UNCHANGED sess
    <2>1. SessionsStay /\ ClosingsStay
        BY <1>2, <1>3 DEF SessionsStay, ClosingsStay
    <2> QED
        BY <1>2, <1>3, <2>1, Ends, ElsewhereKeeps
<1>4. CASE ~(End(h) /\ UNCHANGED sess)
    <2>1. r.s \in Sessions /\ r.c \in Closings /\ ClosingIs(r)
        BY <1>1, <1>2 DEF RequestOK
    <2>2. sess' = [sess EXCEPT ![r.s] = [@ EXCEPT !.st = "closed", !.closed = r.at, !.z = r.z,
                                                 !.closing = r.c]]
        BY <1>1, <1>4 DEF CloseRecord
    <2>3. Goto(h, [r EXCEPT !.pc = "clear"])
        BY <1>1, <1>4 DEF CloseRecord, Step
    <2>4. sess[r.s] \in Session /\ sess \in [Sessions -> Session]
        BY <2>1 DEF Inv, TablesOK
    <2>5. PICK x : /\ x = [sess[r.s] EXCEPT !.st = "closed", !.closed = r.at, !.z = r.z,
                                            !.closing = r.c]
                   /\ x.st = "closed" /\ x.opened = sess[r.s].opened /\ x.closing = r.c
        <3>1. PICK o \in Session : o = sess[r.s]
            BY <2>4
        <3>2. PICK y \in Session : y = [o EXCEPT !.st = "closed", !.closed = r.at, !.z = r.z,
                                                !.closing = r.c]
            BY <2>1 DEF Session, Request
        <3>3. y.st = "closed" /\ y.opened = o.opened /\ y.closing = r.c
            BY <3>2 DEF Session
        <3> QED
            BY <3>1, <3>2, <3>3
    <2>6. sess'[r.s] = x
        BY <2>1, <2>2, <2>4, <2>5
    <2>7. \A s \in Sessions : s # r.s => sess'[s] = sess[s]
        BY <2>2, <2>4
    <2>8. [r EXCEPT !.pc = "clear"].pc = "clear"
        BY DEF Request
    <2>9. req'[h].pc = "clear" /\ \A g \in Handlers : g # h => req'[g] = req[g]
        BY <2>3, <2>8 DEF Goto, Inv, RequestsOK
    <2>10. ASSUME NEW t \in Txs, signed[t] # 0, sess[r.s].opened <= signed[t]
           PROVE  InReport(t)'
        <3>1. t \in r.txs
            BY <1>1, <1>2, <2>10 DEF Kept
        <3>2. t \in closing'[sess'[r.s].closing].txs
            BY <1>2, <2>1, <2>5, <2>6, <3>1 DEF ClosingIs
        <3>3. r.s \in Closed'
            BY <2>1, <2>5, <2>6 DEF Closed
        <3> QED
            BY <3>2, <3>3 DEF InReport
    <2>11. ASSUME NEW t \in Txs, signed[t] # 0, InReport(t)
           PROVE  InReport(t)'
        <3>1. PICK s \in Sessions : sess[s].st = "closed" /\ t \in closing[sess[s].closing].txs
            BY <2>11 DEF InReport, Closed
        <3>2. CASE s = r.s
            <4>1. sess[r.s].opened <= signed[t]
                BY <3>1, <3>2 DEF Later, Closed
            <4> QED
                BY <2>10, <2>11, <4>1
        <3>3. CASE s # r.s
            <4>1. sess'[s] = sess[s]
                BY <2>7, <3>3
            <4> QED
                BY <1>2, <3>1, <4>1 DEF InReport, Closed
        <3> QED
            BY <3>2, <3>3
    <2>12. ASSUME NEW t \in Txs, signed[t] # 0, Held(signed[t])
           PROVE  InReport(t)' \/ Held(signed[t])'
        <3>1. PICK s \in Sessions : sess[s].st = "open" /\ sess[s].opened <= signed[t]
            BY <2>12 DEF Held, IsOpen
        <3>2. CASE s = r.s
            BY <2>10, <2>12, <3>1, <3>2
        <3>3. CASE s # r.s
            BY <1>2, <2>7, <3>1, <3>3 DEF Held, IsOpen
        <3> QED
            BY <3>2, <3>3
    <2>13. (\A t \in Txs : signed[t] # 0 => InReport(t) \/ Held(signed[t]))'
        <3> SUFFICES ASSUME NEW t \in Txs, signed[t] # 0
                     PROVE  InReport(t)' \/ Held(signed[t])'
            BY <1>2
        <3>1. InReport(t) \/ Held(signed[t])
            BY DEF Kept
        <3> QED
            BY <2>11, <2>12, <3>1
    <2>14. \A g \in Handlers : req'[g].pc # "store"
        BY <1>1, <1>2, <2>9 DEF Kept
    <2>15. (\A g \in Handlers : req[g].pc = "build" =>
              /\ \A t \in Txs : signed[t] <= req[g].at
              /\ \A f \in Handlers : req[f].pc = "store" => req[f].at <= req[g].at)'
        BY <1>2, <2>9, <2>14 DEF Kept
    <2>16. (\A g \in Handlers : req[g].pc \in {"put", "wait", "record"} =>
              \A t \in Txs : signed[t] # 0 /\ sess[req[g].s].opened <= signed[t] =>
                  t \in req[g].txs)'
        <3> SUFFICES ASSUME NEW g \in Handlers, req'[g].pc \in {"put", "wait", "record"},
                            NEW t \in Txs, signed[t] # 0, sess'[req'[g].s].opened <= signed[t]
                     PROVE  t \in req'[g].txs
            BY <1>2
        <3>1. req'[g] = req[g]
            BY <2>9
        <3>2. req[g].s \in Sessions
            BY <3>1, HeldOK DEF RequestOK
        <3>3. sess'[req[g].s].opened = sess[req[g].s].opened
            BY <2>5, <2>6, <2>7, <3>2
        <3> QED
            BY <3>1, <3>3 DEF Kept
    <2> QED
        BY <2>13, <2>14, <2>15, <2>16 DEF Kept
<1> QED
    BY <1>3, <1>4

LEMMA ProcessKeepsAll ==
    ASSUME Inv, Kept, NEW c \in Closings, Process(c)
    PROVE  Kept'
<1>1. UNCHANGED <<sess, config, signed, now, req, hist>>
    BY DEF Process
<1>2. \A d \in Closings : closing[d].st = "completed" => closing'[d] = closing[d]
    <2>1. \A d \in Closings : d # c => closing'[d] = closing[d]
        BY DEF Process, Inv, TablesOK
    <2> QED
        BY <2>1 DEF Process
<1>3. SessionsStay /\ ClosingsStay
    BY <1>1, <1>2 DEF SessionsStay, ClosingsStay
<1>4. (\A t \in Txs : signed[t] # 0 => InReport(t) \/ Held(signed[t]))'
    <2> SUFFICES ASSUME NEW t \in Txs, signed[t] # 0
                 PROVE  InReport(t)' \/ Held(signed[t])'
        BY <1>1
    <2>1. InReport(t) \/ Held(signed[t])
        BY DEF Kept
    <2>2. Held(signed[t]) => Held(signed[t])'
        BY <1>1 DEF Held, IsOpen
    <2> QED
        BY <1>3, <2>1, <2>2, ReportStays
<1> QED
    BY <1>1, <1>4 DEF Kept, Held, IsOpen

\* Sessions begin open, while nothing is about to be stored.
NewIsOpen ==
    \A s \in Sessions : sess[s].st = "none" =>
        /\ sess'[s].st # "closed"
        /\ sess'[s].st # "none" => \A g \in Handlers : req[g].pc # "store"

\* No request has more to store or to close than it had.
Carries ==
    \A g \in Handlers :
        /\ req'[g].pc = "store" => req'[g] = req[g]
        /\ req'[g].pc \in {"put", "wait", "record"} =>
              /\ req[g].pc \in {"put", "wait", "record"}
              /\ req'[g].s = req[g].s /\ req'[g].txs = req[g].txs

LEMMA LaterFrame ==
    ASSUME Inv, Later, SessionsStay, ClosingsStay, UNCHANGED signed, NewIsOpen, Carries
    PROVE  Later'
<1>1. ASSUME NEW g \in Handlers, req'[g].pc = "store", NEW s \in Sessions, sess'[s].st # "none"
      PROVE  sess'[s].opened <= req'[g].at
    <2>1. req'[g] = req[g] /\ req[g].pc = "store"
        BY <1>1 DEF Carries
    <2>2. sess[s].st # "none"
        BY <1>1, <2>1 DEF NewIsOpen
    <2>3. sess'[s].opened = sess[s].opened
        BY <2>2 DEF SessionsStay
    <2> QED
        BY <2>1, <2>2, <2>3 DEF Later
<1>2. ASSUME NEW s \in Sessions, sess'[s].st = "closed", NEW t \in closing'[sess'[s].closing].txs
      PROVE  sess'[s].opened <= signed'[t]
    <2>1. sess[s].st \in {"none", "open", "closed"}
        BY DEF Inv, TablesOK, Session
    <2>2. sess[s].st = "closed" /\ sess'[s] = sess[s]
        BY <1>2, <2>1 DEF NewIsOpen, SessionsStay
    <2>3. sess[s].closing \in Closings /\ closing[sess[s].closing].st = "completed"
        BY <2>2, NoneIsNoId DEF Inv, BooksOK, ClosedIsComplete, Closed, TablesOK, Session
    <2>4. closing'[sess[s].closing] = closing[sess[s].closing]
        BY <2>3 DEF ClosingsStay
    <2> QED
        BY <1>2, <2>2, <2>4 DEF Later, Closed
<1>3. ASSUME NEW g \in Handlers, req'[g].pc \in {"put", "wait", "record"}, NEW t \in req'[g].txs
      PROVE  sess'[req'[g].s].opened <= signed'[t]
    <2>1. /\ req[g].pc \in {"put", "wait", "record"}
          /\ req'[g].s = req[g].s /\ req'[g].txs = req[g].txs
        BY <1>3 DEF Carries
    <2>2. req[g].s \in Sessions /\ sess[req[g].s].st # "none"
        BY <2>1, HeldOK DEF RequestOK
    <2>3. sess'[req[g].s].opened = sess[req[g].s].opened
        BY <2>2 DEF SessionsStay
    <2> QED
        BY <1>3, <2>1, <2>3 DEF Later
<1> QED
    BY <1>1, <1>2, <1>3 DEF Later, Closed

\* The statements that leave the sessions alone.
LEMMA LaterAside ==
    ASSUME Inv, Later, ClosingsStay, UNCHANGED <<sess, signed>>, Carries
    PROVE  Later'
<1>1. SessionsStay /\ NewIsOpen
    BY DEF SessionsStay, NewIsOpen
<1> QED
    BY <1>1, LaterFrame

LEMMA ElsewhereCarries ==
    ASSUME Inv, NEW h \in Handlers, Elsewhere(h)
    PROVE  Carries
<1>1. PICK r : Goto(h, r) /\ r.pc \notin Watched
    BY DEF Elsewhere
<1>2. req'[h] = r /\ \A g \in Handlers : g # h => req'[g] = req[g]
    BY <1>1 DEF Goto, Inv, RequestsOK
<1> QED
    BY <1>1, <1>2 DEF Carries, Watched

LEMMA ElsewhereLater ==
    ASSUME Inv, Later, NEW h \in Handlers, Elsewhere(h), UNCHANGED tables
    PROVE  Later'
BY ElsewhereCarries, NothingChanges, LaterAside DEF tables

\* While something is about to be stored a session is open, and none is inserted.
LEMMA InsertLater ==
    ASSUME Inv, Kept, Later, NEW h \in Handlers, NEW s \in Sessions, NEW o, Insert(s, o),
           UNCHANGED <<closing, signed>>, Elsewhere(h)
    PROVE  Later'
<1>1. SessionsStay /\ ClosingsStay
    BY InsertStays DEF SessionsStay, ClosingsStay
<1>2. \A g \in Handlers : req[g].pc # "store"
    BY DEF Insert, MayInsert, Kept, Held
<1>3. NewIsOpen
    <2>1. sess'[s].st = "open" /\ \A u \in Sessions : u # s => sess'[u] = sess[u]
        BY DEF Insert, Inv, TablesOK, Session
    <2> QED
        BY <1>2, <2>1 DEF NewIsOpen
<1> QED
    BY <1>1, <1>3, ElsewhereCarries, LaterFrame

LEMMA WritesLater ==
    ASSUME Inv, Kept, Later, NEW h \in Handlers,
           Backfill(h) \/ BackfillPoint(h) \/ OpenInsert(h) \/ OpenLink(h) \/ CloseClear(h)
    PROVE  Later'
<1>1. Elsewhere(h)
    BY WritesElsewhere
<1>2. CASE UNCHANGED <<sess, closing, signed>>
    <2>1. ClosingsStay
        BY <1>2 DEF ClosingsStay
    <2> QED
        BY <1>1, <1>2, <2>1, ElsewhereCarries, LaterAside
<1>3. CASE ~UNCHANGED <<sess, closing, signed>>
    <2>1. PICK s \in Sessions : \E o : Insert(s, o)
        BY <1>3 DEF Backfill, BackfillPoint, OpenInsert, OpenLink, CloseClear
    <2>2. UNCHANGED <<closing, signed>>
        BY DEF Backfill, BackfillPoint, OpenInsert, OpenLink, CloseClear
    <2> QED
        BY <1>1, <2>1, <2>2, InsertLater
<1> QED
    BY <1>2, <1>3

LEMMA ServiceLater ==
    ASSUME Inv, Kept, Later, NEW h \in Handlers, ClosePut(h) \/ CloseWait(h)
    PROVE  Later'
<1>1. SessionsStay /\ ClosingsStay /\ UNCHANGED signed
    BY ServiceStays
<1>2. UNCHANGED sess
    BY DEF ClosePut, CloseWait, tables
<1>3. CASE End(h)
    BY <1>1, <1>2, <1>3, Ends, ElsewhereCarries, LaterAside
<1>4. CASE ~End(h)
    <2>1. PICK x : /\ Goto(h, x) /\ x.pc \in {"wait", "record"} /\ req[h].pc \in {"put", "wait"}
                   /\ x.s = req[h].s /\ x.txs = req[h].txs
        BY <1>4, ServiceGoesOn
    <2>2. req'[h] = x /\ \A g \in Handlers : g # h => req'[g] = req[g]
        BY <2>1 DEF Goto, Inv, RequestsOK
    <2>3. Carries
        BY <2>1, <2>2 DEF Carries
    <2> QED
        BY <1>1, <1>2, <2>3, LaterAside
<1> QED
    BY <1>3, <1>4

LEMMA SignLater ==
    ASSUME Inv, Later, NEW h \in Handlers, Sign(h)
    PROVE  Later'
<1>1. PICK r \in Request : r = req[h]
    BY HeldOK
<1>2. UNCHANGED tables
    BY DEF Sign
<1>3. CASE End(h)
    BY <1>2, <1>3, Ends, ElsewhereLater
<1>4. CASE ~End(h)
    <2>1. Stamp /\ Goto(h, [r EXCEPT !.pc = "store", !.at = now'])
        BY <1>1, <1>4 DEF Sign
    <2>2. req'[h].pc = "store" /\ req'[h].at = now'
        BY <2>1 DEF Goto, Inv, RequestsOK, Request
    <2>3. \A g \in Handlers : g # h => req'[g] = req[g]
        BY <2>1 DEF Goto, Inv, RequestsOK
    <2>4. PICK n \in Nat : n = now' /\ now <= n
        BY <2>1, Numbers DEF Stamp
    <2>5. ASSUME NEW g \in Handlers, req'[g].pc = "store", NEW s \in Sessions, sess'[s].st # "none"
          PROVE  sess'[s].opened <= req'[g].at
        <3>1. CASE g = h
            BY <1>2, <2>2, <2>4, <3>1, Numbers DEF tables
        <3>2. CASE g # h
            BY <1>2, <2>3, <2>5, <3>2 DEF Later, tables
        <3> QED
            BY <3>1, <3>2
    <2>6. (\A g \in Handlers : req[g].pc \in {"put", "wait", "record"} =>
              \A t \in req[g].txs : sess[req[g].s].opened <= signed[t])'
        BY <1>2, <2>2, <2>3 DEF Later, tables
    <2> QED
        BY <1>2, <2>5, <2>6 DEF Later, Closed, tables
<1> QED
    BY <1>3, <1>4

LEMMA StoreLater ==
    ASSUME Inv, Kept, Later, NEW h \in Handlers, Store(h)
    PROVE  Later'
<1>1. UNCHANGED <<sess, closing>> /\ End(h) /\ req[h].pc = "store"
    BY DEF Store, At
<1>2. CASE UNCHANGED signed
    <2>1. ClosingsStay
        BY <1>1 DEF ClosingsStay
    <2> QED
        BY <1>1, <1>2, <2>1, Ends, ElsewhereCarries, LaterAside
<1>3. CASE \E t \in Txs : signed' = [signed EXCEPT ![t] = req[h].at]
    <2>1. PICK t \in Txs : signed' = [signed EXCEPT ![t] = req[h].at]
        BY <1>3
    <2>2. signed'[t] = req[h].at /\ \A u \in Txs : u # t => signed'[u] = signed[u]
        BY <2>1 DEF Inv, TablesOK
    <2>3. req'[h].pc = "idle" /\ \A g \in Handlers : g # h => req'[g] = req[g]
        BY <1>1 DEF End, Goto, Idle, Inv, RequestsOK
    <2>4. (\A g \in Handlers : req[g].pc = "store" =>
              \A s \in Sessions : sess[s].st # "none" => sess[s].opened <= req[g].at)'
        BY <1>1, <2>3 DEF Later
    <2>5. ASSUME NEW s \in Sessions, sess[s].st = "closed", NEW u \in closing[sess[s].closing].txs
          PROVE  sess[s].opened <= signed'[u]
        <3>1. CASE u = t
            BY <1>1, <2>2, <2>5, <3>1 DEF Later
        <3>2. CASE u # t
            <4>1. u \in Txs
                BY <2>5, NoneIsNoId DEF Inv, BooksOK, ClosedIsComplete, Closed, TablesOK, Session, Closing
            <4>2. signed'[u] = signed[u]
                BY <2>2, <3>2, <4>1
            <4> QED
                BY <2>5, <4>2 DEF Later, Closed
        <3> QED
            BY <3>1, <3>2
    <2>6. \A g \in Handlers : req'[g].pc \notin {"put", "wait", "record"}
        BY <1>1, <2>3 DEF Kept
    <2> QED
        BY <1>1, <2>4, <2>5, <2>6 DEF Later, Closed
<1> QED
    BY <1>2, <1>3, StoredIs

LEMMA CloseReadLater ==
    ASSUME Inv, Later, NEW h \in Handlers, CloseRead(h)
    PROVE  Later'
<1>1. PICK r \in Request : r = req[h]
    BY HeldOK
<1>2. UNCHANGED tables
    BY DEF CloseRead
<1>3. req'[h].pc = "build" /\ \A g \in Handlers : g # h => req'[g] = req[g]
    BY <1>1 DEF CloseRead, Goto, Inv, RequestsOK, Request
<1>4. Carries
    BY <1>3 DEF Carries
<1> QED
    BY <1>2, <1>4, NothingChanges, LaterAside DEF tables

LEMMA CloseBuildLater ==
    ASSUME Inv, Later, NEW h \in Handlers, CloseBuild(h)
    PROVE  Later'
<1>1. PICK r \in Request : r = req[h]
    BY HeldOK
<1>2. UNCHANGED tables
    BY DEF CloseBuild
<1>3. CASE End(h)
    BY <1>2, <1>3, Ends, ElsewhereLater
<1>4. CASE ~End(h)
    <2>1. Goto(h, [r EXCEPT !.pc = "put", !.txs = Window(r)])
        BY <1>1, <1>4 DEF CloseBuild
    <2>2. req'[h].pc = "put" /\ req'[h].s = r.s /\ req'[h].txs = Window(r)
        BY <2>1 DEF Goto, Inv, RequestsOK, Request
    <2>3. \A g \in Handlers : g # h => req'[g] = req[g]
        BY <2>1 DEF Goto, Inv, RequestsOK
    <2>4. (\A g \in Handlers : req[g].pc = "store" =>
              \A s \in Sessions : sess[s].st # "none" => sess[s].opened <= req[g].at)'
        BY <1>2, <2>2, <2>3 DEF Later, tables
    <2>5. ASSUME NEW g \in Handlers, req'[g].pc \in {"put", "wait", "record"}, NEW t \in req'[g].txs
          PROVE  sess'[req'[g].s].opened <= signed'[t]
        <3>1. CASE g = h
            BY <1>2, <2>2, <2>5, <3>1 DEF Window, tables
        <3>2. CASE g # h
            BY <1>2, <2>3, <2>5, <3>2 DEF Later, tables
        <3> QED
            BY <3>1, <3>2
    <2> QED
        BY <1>2, <2>4, <2>5 DEF Later, Closed, tables
<1> QED
    BY <1>3, <1>4

LEMMA CloseRecordLater ==
    ASSUME Inv, Kept, Later, NEW h \in Handlers, CloseRecord(h)
    PROVE  Later'
<1>1. PICK r \in Request : r = req[h] /\ RequestOK(r)
    BY HeldOK
<1>2. UNCHANGED <<signed, closing>> /\ r.pc = "record"
    BY <1>1 DEF CloseRecord, At
<1>3. CASE End(h) /\ UNCHANGED sess
    <2>1. ClosingsStay
        BY <1>2 DEF ClosingsStay
    <2> QED
        BY <1>2, <1>3, <2>1, Ends, ElsewhereCarries, LaterAside
<1>4. CASE ~(End(h) /\ UNCHANGED sess)
    <2>1. r.s \in Sessions /\ sess[r.s].st # "none" /\ r.c \in Closings /\ ClosingIs(r)
        BY <1>1, <1>2 DEF RequestOK
    <2>2. sess' = [sess EXCEPT ![r.s] = [@ EXCEPT !.st = "closed", !.closed = r.at, !.z = r.z,
                                                 !.closing = r.c]]
        BY <1>1, <1>4 DEF CloseRecord
    <2>3. Goto(h, [r EXCEPT !.pc = "clear"])
        BY <1>1, <1>4 DEF CloseRecord, Step
    <2>4. PICK o \in Session : o = sess[r.s]
        BY <2>1 DEF Inv, TablesOK
    <2>5. sess'[r.s].opened = o.opened /\ sess'[r.s].closing = r.c
        BY <2>1, <2>2, <2>4 DEF Inv, TablesOK, Session
    <2>6. \A s \in Sessions : s # r.s => sess'[s] = sess[s]
        BY <2>2 DEF Inv, TablesOK
    <2>7. req'[h].pc = "clear" /\ \A g \in Handlers : g # h => req'[g] = req[g]
        BY <2>3 DEF Goto, Inv, RequestsOK, Request
    <2>8. \A s \in Sessions : sess'[s].opened = sess[s].opened
        BY <2>4, <2>5, <2>6
    <2>9. \A g \in Handlers : req'[g].pc # "store"
        BY <1>1, <1>2, <2>7 DEF Kept
    <2>10. ASSUME NEW s \in Sessions, sess'[s].st = "closed", NEW t \in closing[sess'[s].closing].txs
           PROVE  sess'[s].opened <= signed[t]
        <3>1. CASE s = r.s
            <4>1. t \in r.txs
                BY <2>1, <2>5, <2>10, <3>1 DEF ClosingIs
            <4>2. sess[r.s].opened <= signed[t]
                BY <1>1, <1>2, <4>1 DEF Later
            <4> QED
                BY <2>8, <3>1, <4>2
        <3>2. CASE s # r.s
            BY <2>6, <2>10, <3>2 DEF Later, Closed
        <3> QED
            BY <3>1, <3>2
    <2>11. ASSUME NEW g \in Handlers, req'[g].pc \in {"put", "wait", "record"}, NEW t \in req'[g].txs
           PROVE  sess'[req'[g].s].opened <= signed[t]
        <3>1. req'[g] = req[g]
            BY <2>7, <2>11
        <3>2. req[g].s \in Sessions
            BY <2>11, <3>1, HeldOK DEF RequestOK
        <3> QED
            BY <2>8, <2>11, <3>1, <3>2 DEF Later
    <2> QED
        BY <1>2, <2>9, <2>10, <2>11 DEF Later, Closed
<1> QED
    BY <1>3, <1>4

LEMMA ProcessLater ==
    ASSUME Inv, Later, NEW c \in Closings, Process(c)
    PROVE  Later'
<1>1. UNCHANGED <<sess, signed, req>>
    BY DEF Process
<1>2. ClosingsStay
    <2>1. \A d \in Closings : d # c => closing'[d] = closing[d]
        BY DEF Process, Inv, TablesOK
    <2> QED
        BY <2>1 DEF Process, ClosingsStay
<1>3. Carries
    BY <1>1 DEF Carries
<1> QED
    BY <1>1, <1>2, <1>3, LaterAside

\* What is remembered of the past is not taken back.
LEMMA HistoryStays == Inv /\ [Next]_vars => hist \subseteq hist'
<1>1. CASE UNCHANGED vars
    BY <1>1 DEF vars
<1>2. CASE \E c \in Closings : Process(c)
    BY <1>2 DEF Process
<1>3. ASSUME NEW h \in Handlers, Finding(h) PROVE hist \subseteq hist'
    BY <1>3 DEF Finding, Look, Begin, FindOpen, FindLegacy, Backfill, BackfillPoint, Happens
<1>4. ASSUME NEW h \in Handlers, Opening(h) PROVE hist \subseteq hist'
    BY <1>4 DEF Opening, Open, OpenAuto, Begin, OpenRead, OpenStamp, OpenInsert, OpenLink, Happens
<1>5. ASSUME NEW h \in Handlers, Paying(h) PROVE hist \subseteq hist'
    BY <1>5 DEF Paying, Pay, Retry, Begin, Sign, Store, Happens
<1>6. ASSUME NEW h \in Handlers, Closes(h) PROVE hist \subseteq hist'
    BY <1>6 DEF Closes, Close, Begin, CloseRead, CloseBuild, ClosePut, CloseWait, CloseRecord,
       CloseClear, Happens
<1>7. ASSUME NEW h \in Handlers, Vanish(h) PROVE hist \subseteq hist'
    BY <1>7 DEF Vanish, Happens
<1> QED
    BY <1>1, <1>2, <1>3, <1>4, <1>5, <1>6, <1>7 DEF Next

LEMMA StaysDisturbed == Inv /\ [Next]_vars /\ Undisturbed' => Undisturbed
BY HistoryStays DEF Undisturbed

LEMMA StepIsLater == Inv /\ Kept /\ Later /\ [Next]_vars => Later'
<1> SUFFICES ASSUME Inv, Kept, Later, [Next]_vars PROVE Later'
    OBVIOUS
<1>1. CASE UNCHANGED vars
    BY <1>1 DEF vars, tables, Later, Closed
<1>2. CASE \E c \in Closings : Process(c)
    BY <1>2, ProcessLater
<1>3. ASSUME NEW h \in Handlers, Elsewhere(h) /\ UNCHANGED tables PROVE Later'
    BY <1>3, ElsewhereLater
<1>4. ASSUME NEW h \in Handlers, Finding(h) PROVE Later'
    BY <1>3, <1>4, BeginsElsewhere, FindsElsewhere, WritesLater DEF Finding
<1>5. ASSUME NEW h \in Handlers, Opening(h) PROVE Later'
    BY <1>3, <1>5, BeginsElsewhere, OpensElsewhere, WritesLater DEF Opening
<1>6. ASSUME NEW h \in Handlers, Paying(h) PROVE Later'
    BY <1>3, <1>6, BeginsElsewhere, SignLater, StoreLater DEF Paying
<1>7. ASSUME NEW h \in Handlers, Closes(h) PROVE Later'
    BY <1>3, <1>7, BeginsElsewhere, CloseReadLater, CloseBuildLater, ServiceLater,
       CloseRecordLater, WritesLater DEF Closes
<1>8. ASSUME NEW h \in Handlers, Vanish(h) PROVE Later'
    BY <1>3, <1>8, FindsElsewhere
<1> QED
    BY <1>1, <1>2, <1>4, <1>5, <1>6, <1>7, <1>8 DEF Next

LEMMA StepKeepsAll == Inv /\ KeptInv /\ [Next]_vars => KeptInv'
<1> SUFFICES ASSUME Inv, KeptInv, [Next]_vars, Undisturbed' PROVE Kept'
    BY StepIsLater, StaysDisturbed DEF KeptInv
<1>0. Kept /\ Later
    BY StaysDisturbed DEF KeptInv
<1>1. CASE UNCHANGED vars
    BY <1>0, <1>1 DEF vars, tables, Kept, InReport, Closed, Held, IsOpen
<1>2. CASE \E c \in Closings : Process(c)
    BY <1>0, <1>2, ProcessKeepsAll
<1>3. ASSUME NEW h \in Handlers, Elsewhere(h) /\ UNCHANGED tables PROVE Kept'
    BY <1>0, <1>3, ElsewhereKeeps, NothingChanges
<1>4. ASSUME NEW h \in Handlers, Finding(h) PROVE Kept'
    BY <1>0, <1>3, <1>4, BeginsElsewhere, FindsElsewhere, WritesKeep DEF Finding
<1>5. ASSUME NEW h \in Handlers, Opening(h) PROVE Kept'
    BY <1>0, <1>3, <1>5, BeginsElsewhere, OpensElsewhere, WritesKeep DEF Opening
<1>6. ASSUME NEW h \in Handlers, Paying(h) PROVE Kept'
    BY <1>0, <1>3, <1>6, BeginsElsewhere, SignKeepsAll, StoreKeepsAll DEF Paying
<1>7. ASSUME NEW h \in Handlers, Closes(h) PROVE Kept'
    BY <1>0, <1>3, <1>7, BeginsElsewhere, CloseReadKeepsAll, CloseBuildKeepsAll, ServiceKeeps,
       CloseRecordKeepsAll, WritesKeep DEF Closes
<1>8. ASSUME NEW h \in Handlers, Vanish(h) PROVE Kept'
    BY <1>3, <1>8, FindsElsewhere
<1> QED
    BY <1>1, <1>2, <1>4, <1>5, <1>6, <1>7, <1>8 DEF Next

LEMMA InitKeepsAll == Init => KeptInv
BY DEF Init, KeptInv, Kept, Later, Closed, Idle

\* Opening, paying, signing and closing in any interleaving, given up and broken
\* off anywhere: a signed transaction is in the Z report of a closed session or
\* within the open one, however often it was signed, if none was signed while a
\* close counted or the register was closed.
THEOREM NoneIsForgotten == Spec => []NoneForgotten
<1>1. Init => KeptInv
    BY InitKeepsAll
<1>2. Inv /\ KeptInv /\ [Next]_vars => KeptInv'
    BY StepKeepsAll
<1>3. KeptInv => NoneForgotten
    BY DEF KeptInv, Undisturbed, Kept, InReport, Held, NoneForgotten
<1> QED
    BY <1>1, <1>2, <1>3, InvHolds, PTL DEF Spec

-----------------------------------------------------------------------------
(* A close on its own *)

\* Only a close closes.
CloseOnly == {"counter", "build", "put", "wait", "record", "clear"}
Role(r) ==
    /\ r.ret = "close" => r.op = "close"
    /\ r.pc \in CloseOnly => r.op = "close"
Roles == \A h \in Handlers : Role(req[h])

\* A close is the only request in flight.
Alone == \A g, h \in Handlers : req[g].op = "close" /\ g # h => req[h] = Idle

\* The session a close has found, or opened itself, is open until it records.
Works(r) ==
    r.pc \in CloseOnly \ {"clear"} \/ (r.pc = "point" /\ r.op = "close") =>
        r.s \in Sessions /\ IsOpen(r.s)
StillOpen == \A h \in Handlers : Works(req[h])

AloneInv == Roles /\ ("overlap" \notin hist => Alone /\ StillOpen)

\* Where a statement can be reached from.
From(r, x) ==
    /\ x.pc \in CloseOnly \ {"counter"} => r.pc \in CloseOnly
    /\ x.pc = "backfill" => r.pc = "legacy"
    /\ x.pc = "insert" => r.pc = "stamp"
    /\ x.pc = "link" => r.pc = "insert"

\* A step of a request that has begun: it stays the request it was.
Onward(h) ==
    \E x \in Request :
        /\ Goto(h, x) /\ req[h] # Idle
        /\ Role(x) /\ (x.op = "close" => req[h].op = "close")
        /\ From(req[h], x)
        /\ "overlap" \notin hist => Works(x)'

LEMMA OnwardKeeps ==
    ASSUME Inv, AloneInv, NEW h \in Handlers, Onward(h), hist \subseteq hist'
    PROVE  AloneInv'
<1>1. PICK x \in Request :
        /\ Goto(h, x) /\ req[h] # Idle
        /\ Role(x) /\ (x.op = "close" => req[h].op = "close")
        /\ "overlap" \notin hist => Works(x)'
    BY DEF Onward
<1>2. req'[h] = x /\ \A g \in Handlers : g # h => req'[g] = req[g]
    BY <1>1 DEF Goto, Inv, RequestsOK
<1>3. Roles'
    BY <1>1, <1>2 DEF AloneInv, Roles, Role
<1>4. req[h] # Idle
    BY <1>1
<1>5. ASSUME "overlap" \notin hist' PROVE Alone' /\ StillOpen'
    <2>1. Alone /\ StillOpen /\ Works(x)'
        BY <1>1, <1>5 DEF AloneInv
    <2>2. \A g \in Handlers : g # h => req[g].op # "close"
        BY <1>4, <2>1 DEF Alone
    <2>3. Alone'
        <3> SUFFICES ASSUME NEW f \in Handlers, NEW g \in Handlers, req'[f].op = "close", f # g
                     PROVE  req'[g] = Idle
            BY DEF Alone
        <3>1. f = h
            BY <1>2, <2>2
        <3>2. req[h].op = "close"
            BY <1>1, <1>2, <3>1
        <3>3. req[g] = Idle
            BY <2>1, <3>1, <3>2 DEF Alone
        <3> QED
            BY <1>2, <3>1, <3>3
    <2>4. ASSUME NEW g \in Handlers PROVE Works(req[g])'
        <3>1. CASE g = h
            BY <1>2, <2>1, <3>1 DEF Works, IsOpen
        <3>2. CASE g # h
            <4>1. req'[g] = req[g] /\ req[g].op # "close"
                BY <1>2, <2>2, <3>2
            <4>2. req[g].pc \notin CloseOnly
                BY <4>1 DEF AloneInv, Roles, Role
            <4> QED
                BY <4>1, <4>2 DEF Works
        <3> QED
            BY <3>1, <3>2
    <2> QED
        BY <2>3, <2>4 DEF StillOpen
<1> QED
    BY <1>3, <1>5 DEF AloneInv

\* What a caller goes on with.
LEMMA ReturnRole ==
    ASSUME NEW r \in Request, Role(r), NEW s
    PROVE  LET x == Return(r, s)
           IN  /\ Role(x) /\ (x.op = "close" => r.op = "close")
               /\ x.pc \notin CloseOnly \ {"counter"} /\ x.pc # "point"
               /\ From(r, x)
               /\ x.pc = "counter" => x.s = s /\ s # None /\ r.op = "close"
<1> DEFINE x == Return(r, s)
           Fine(y) == /\ Role(y) /\ (y.op = "close" => r.op = "close")
                      /\ y.pc \notin CloseOnly \ {"counter"} /\ y.pc # "point"
                      /\ From(r, y)
                      /\ y.pc = "counter" => y.s = s /\ s # None /\ r.op = "close"
<1>1. Fine(Idle) /\ \A op \in {"pay", "retry"} : Fine(ToSign(op))
    BY DEF Idle, ToSign, Role, CloseOnly, From
<1>2. Fine(Opened(r))
    <2> HIDE DEF Fine
    <2> QED
        BY <1>1 DEF Opened
<1>3. Fine(Call(r, "ensure"))
    BY DEF Call, Request, Role, CloseOnly, From
<1>4. Fine([r EXCEPT !.pc = "config"]) /\ Fine([r EXCEPT !.pc = "stamp"])
    BY DEF Request, Role, CloseOnly, From
<1>5. ASSUME r.ret = "close", s # None PROVE Fine([r EXCEPT !.pc = "counter", !.s = s])
    BY <1>5 DEF Request, Role, CloseOnly, From
<1>6. Fine(x)
    <2> HIDE DEF Fine
    <2>1. CASE r.ret = "gate"
        BY <1>1, <1>2, <1>3, <2>1 DEF Return
    <2>2. CASE r.ret = "ensure"
        BY <1>2, <1>4, <2>2 DEF Return
    <2>3. CASE r.ret = "open"
        BY <1>2, <1>4, <2>3 DEF Return
    <2>4. CASE r.ret = "close"
        BY <1>1, <1>5, <2>4 DEF Return
    <2>5. CASE r.ret \notin {"gate", "ensure", "open", "close"}
        BY <1>1, <2>5 DEF Return
    <2> QED
        BY <2>1, <2>2, <2>3, <2>4, <2>5
<1> QED
    BY <1>6

LEMMA OpenedRole ==
    ASSUME NEW r \in Request
    PROVE  LET x == Opened(r)
           IN  /\ Role(x) /\ x.op # "close" /\ x.pc \notin CloseOnly /\ x.pc # "point"
               /\ From(r, x)
<1>1. Role(Idle) /\ Idle.op # "close" /\ Idle.pc \notin CloseOnly /\ Idle.pc # "point"
        /\ From(r, Idle)
    BY DEF Idle, Role, CloseOnly, From
<1>2. ASSUME NEW op \in {"pay", "retry"}
      PROVE  /\ Role(ToSign(op)) /\ ToSign(op).op # "close" /\ ToSign(op).pc \notin CloseOnly
             /\ ToSign(op).pc # "point" /\ From(r, ToSign(op))
    BY DEF Idle, ToSign, Role, CloseOnly, From
<1>3. CASE r.op \in {"pay", "retry"}
    BY <1>2, <1>3 DEF Opened
<1>4. CASE r.op \notin {"pay", "retry"}
    BY <1>1, <1>4 DEF Opened
<1> QED
    BY <1>3, <1>4

LEMMA Begun ==
    ASSUME NEW h \in Handlers, req[h].pc # "idle"
    PROVE  req[h] # Idle
BY DEF Idle

\* A request that ends.
LEMMA EndsOnward ==
    ASSUME Inv, NEW h \in Handlers, req[h] # Idle, End(h)
    PROVE  Onward(h)
<1>1. Idle \in Request
    BY IdleOK, NowIsNat
<1>2. /\ Role(Idle) /\ Idle.op # "close" /\ Idle.pc \notin CloseOnly /\ Idle.pc # "point"
      /\ Idle.pc = "idle"
    BY DEF Idle, Role, CloseOnly
<1>3. Works(Idle)'
    BY <1>2 DEF Works
<1> QED
    BY <1>1, <1>2, <1>3 DEF End, Onward, From, CloseOnly

\* A request goes on with a statement that is no close's.
LEMMA AsideOnward ==
    ASSUME Inv, NEW h \in Handlers, req[h].pc # "idle", NEW x \in Request, Goto(h, x), Role(x),
           x.op = "close" => req[h].op = "close",
           x.pc \notin CloseOnly, x.pc # "point", From(req[h], x)
    PROVE  Onward(h)
BY Begun DEF Onward, Works

\* A close goes on with its session.
LEMMA CloseOnward ==
    ASSUME Inv, AloneInv, NEW h \in Handlers, req[h].pc \in CloseOnly \ {"clear"},
           NEW x \in Request, Goto(h, x), x.pc \in CloseOnly,
           x.op = req[h].op, x.ret = req[h].ret, x.s = req[h].s, UNCHANGED sess \/ x.pc = "clear"
    PROVE  Onward(h)
<1>1. Role(req[h])
    BY DEF AloneInv, Roles
<1>2. Role(x) /\ x.op = "close" /\ req[h].op = "close"
    BY <1>1 DEF Role
<1>3. "overlap" \notin hist => Works(x)'
    BY DEF AloneInv, StillOpen, Works, IsOpen, CloseOnly
<1> QED
    BY <1>2, <1>3, Begun DEF Onward, CloseOnly, From

\* Any step of a request that is not its first.
Continues(h) ==
    \/ FindOpen(h) \/ FindLegacy(h) \/ Backfill(h) \/ BackfillPoint(h)
    \/ OpenRead(h) \/ OpenStamp(h) \/ OpenInsert(h) \/ OpenLink(h)
    \/ Sign(h) \/ Store(h)
    \/ CloseRead(h) \/ CloseBuild(h) \/ ClosePut(h) \/ CloseWait(h) \/ CloseRecord(h)
    \/ CloseClear(h) \/ Vanish(h)

Begins(h) == Look(h) \/ Open(h) \/ OpenAuto(h) \/ Pay(h) \/ Retry(h) \/ Close(h)

LEMMA FindsOnward ==
    ASSUME Inv, AloneInv, NEW h \in Handlers, FindOpen(h) \/ FindLegacy(h)
    PROVE  Onward(h)
<1>1. PICK r \in Request : r = req[h]
    BY HeldOK
<1>2. Role(r) /\ r.at <= now /\ r.legacy <= now
    BY <1>1, HeldOK DEF AloneInv, Roles, RequestOK
<1>3. r.pc \in {"find", "legacy"} /\ UNCHANGED sess
    BY <1>1 DEF FindOpen, FindLegacy, At, tables
<1>4. ASSUME NEW s \in Sessions \cup {None}, s # None => s \in Sessions /\ IsOpen(s),
             Goto(h, Return(r, s))
      PROVE  Onward(h)
    <2>1. PICK x : x = Return(r, s)
        OBVIOUS
    <2>2. s # None => sess[s].st # "none"
        BY <1>4 DEF IsOpen
    <2>3. x \in Request
        BY <1>2, <2>1, <2>2, ReturnOK, NowIsNat
    <2>4. /\ Role(x) /\ (x.op = "close" => r.op = "close")
          /\ x.pc \notin CloseOnly \ {"counter"} /\ x.pc # "point" /\ From(r, x)
          /\ x.pc = "counter" => x.s = s /\ s # None
        BY <1>2, <2>1, ReturnRole
    <2>5. Works(x)'
        BY <1>3, <1>4, <2>4 DEF Works, IsOpen
    <2> QED
        BY <1>1, <1>3, <1>4, <2>1, <2>3, <2>4, <2>5, Begun DEF Onward
<1>5. CASE Step(h, "legacy")
    <2>1. PICK x \in Request : x = [r EXCEPT !.pc = "legacy"]
        BY DEF Request, Pcs
    <2>2. Role(x) /\ x.op = r.op /\ x.pc = "legacy"
        BY <1>2, <2>1 DEF Role, Request, CloseOnly
    <2> QED
        BY <1>1, <1>3, <1>5, <2>1, <2>2, AsideOnward DEF Step, CloseOnly, From
<1>6. CASE FindLegacy(h) /\ ~Goto(h, Return(r, None))
    <2>1. PICK o \in Times : o = config.opened
        BY DEF Inv, TablesOK, Config
    <2>2. PICK x \in Request : x = [r EXCEPT !.pc = "backfill", !.legacy = o]
        BY DEF Request, Pcs
    <2>3. Role(x) /\ x.op = r.op /\ x.pc = "backfill"
        BY <1>2, <2>2 DEF Role, Request, CloseOnly
    <2>4. Goto(h, x)
        BY <1>1, <1>6, <2>1, <2>2 DEF FindLegacy
    <2> QED
        BY <1>1, <1>3, <1>6, <2>2, <2>3, <2>4, AsideOnward DEF CloseOnly, From, FindLegacy, At
<1> QED
    BY <1>1, <1>4, <1>5, <1>6 DEF FindOpen, FindLegacy

LEMMA BackfillsOnward ==
    ASSUME Inv, AloneInv, NEW h \in Handlers, Backfill(h) \/ BackfillPoint(h)
    PROVE  Onward(h)
<1>1. PICK r \in Request : r = req[h]
    BY HeldOK
<1>2. Role(r) /\ r.at <= now /\ r.legacy <= now /\ ("overlap" \notin hist => Works(r))
    BY <1>1, HeldOK DEF AloneInv, Roles, StillOpen, RequestOK
<1>3. r.pc \in {"backfill", "point"}
    BY <1>1 DEF Backfill, BackfillPoint, At
<1>4. CASE Backfill(h)
    <2>1. CASE Goto(h, Return(r, None))
        <3>1. PICK x : x = Return(r, None)
            OBVIOUS
        <3>2. x \in Request
            BY <1>2, <3>1, ReturnOK, NowIsNat
        <3>3. /\ Role(x) /\ (x.op = "close" => r.op = "close")
              /\ x.pc \notin CloseOnly /\ x.pc # "point" /\ From(r, x)
            BY <1>2, <3>1, ReturnRole DEF CloseOnly
        <3> QED
            BY <1>1, <1>3, <2>1, <3>1, <3>2, <3>3, AsideOnward
    <2>2. CASE \E s \in Sessions : Insert(s, r.legacy) /\ Goto(h, [r EXCEPT !.pc = "point", !.s = s])
        <3>1. PICK s \in Sessions : Insert(s, r.legacy) /\ Goto(h, [r EXCEPT !.pc = "point", !.s = s])
            BY <2>2
        <3>2. PICK x \in Request : x = [r EXCEPT !.pc = "point", !.s = s]
            BY DEF Request, Pcs
        <3>3. Role(x) /\ x.op = r.op /\ x.pc = "point" /\ x.s = s
            BY <1>2, <3>2 DEF Role, Request, CloseOnly
        <3>4. sess'[s].st = "open"
            BY <3>1 DEF Insert, Inv, TablesOK, Session
        <3>5. Works(x)'
            BY <3>3, <3>4 DEF Works, IsOpen
        <3> QED
            BY <1>1, <1>3, <3>1, <3>2, <3>3, <3>5, Begun DEF Onward, From, CloseOnly
    <2> QED
        BY <1>1, <1>4, <2>1, <2>2 DEF Backfill
<1>5. CASE BackfillPoint(h)
    <2>1. r.pc = "point" /\ UNCHANGED sess
        BY <1>1, <1>5 DEF BackfillPoint, At
    <2>2. PICK q \in Request : q = [r EXCEPT !.s = None]
        BY DEF Request
    <2>3. Role(q) /\ q.op = r.op /\ q.at = r.at /\ q.legacy = r.legacy /\ q.pc = r.pc
        BY <1>2, <2>2 DEF Role, Request
    <2>4. r.s \in Sessions /\ sess[r.s].st # "none"
        BY <1>1, <2>1, HeldOK DEF RequestOK
    <2>5. PICK x : x = Return(q, r.s)
        OBVIOUS
    <2>6. x \in Request
        BY <1>2, <2>3, <2>4, <2>5, ReturnOK, NowIsNat
    <2>7. /\ Role(x) /\ (x.op = "close" => r.op = "close")
          /\ x.pc \notin CloseOnly \ {"counter"} /\ x.pc # "point" /\ From(r, x)
          /\ x.pc = "counter" => x.s = r.s /\ r.op = "close"
        BY <2>3, <2>5, ReturnRole DEF From
    <2>8. "overlap" \notin hist => Works(x)'
        BY <1>2, <2>1, <2>7 DEF Works, IsOpen
    <2>9. Goto(h, x)
        BY <1>1, <1>5, <2>2, <2>5 DEF BackfillPoint
    <2> QED
        BY <1>1, <1>3, <2>6, <2>7, <2>8, <2>9, Begun DEF Onward
<1> QED
    BY <1>4, <1>5

LEMMA OpensOnward ==
    ASSUME Inv, AloneInv, NEW h \in Handlers,
           OpenRead(h) \/ OpenStamp(h) \/ OpenInsert(h) \/ OpenLink(h)
    PROVE  Onward(h)
<1>1. PICK r \in Request : r = req[h]
    BY HeldOK
<1>2. Role(r) /\ r.at <= now /\ r.legacy <= now
    BY <1>1, HeldOK DEF AloneInv, Roles, RequestOK
<1>3. r.pc \in {"config", "stamp", "insert", "link"}
    BY <1>1 DEF OpenRead, OpenStamp, OpenInsert, OpenLink, At
<1>4. ASSUME Goto(h, Opened(r)) PROVE Onward(h)
    <2>1. PICK x : x = Opened(r)
        OBVIOUS
    <2>2. x \in Request
        BY <2>1, OpenedOK, NowIsNat
    <2>3. /\ Role(x) /\ x.op # "close" /\ x.pc \notin CloseOnly /\ x.pc # "point"
          /\ From(r, x)
        BY <2>1, OpenedRole
    <2> QED
        BY <1>1, <1>3, <1>4, <2>1, <2>2, <2>3, AsideOnward
<1>5. CASE OpenRead(h)
    <2>1. PICK o \in Times : o = config.opened
        BY DEF Inv, TablesOK, Config
    <2>2. PICK q \in Request : q = [r EXCEPT !.seen = o]
        BY DEF Request
    <2>3. Role(q) /\ q.op = r.op /\ q.at = r.at /\ q.legacy = r.legacy
        BY <1>2, <2>2 DEF Role, Request
    <2>4. PICK x \in Request : x = Call(q, "open")
        BY <1>2, <2>3, CallOK, NowIsNat DEF Rets
    <2>5. Role(x) /\ x.op = r.op /\ x.pc = "find"
        BY <2>3, <2>4 DEF Call, Role, Request, CloseOnly
    <2>6. Goto(h, Opened(r)) \/ Goto(h, x)
        BY <1>1, <1>5, <2>1, <2>2, <2>4 DEF OpenRead
    <2> QED
        BY <1>1, <1>3, <1>4, <2>4, <2>5, <2>6, AsideOnward DEF CloseOnly, From
<1>6. CASE OpenStamp(h)
    <2>1. PICK n \in Times : n = now'
        BY <1>6, BoundsAreNat DEF OpenStamp, Stamp, Inv, RestOK, Times
    <2>2. PICK x \in Request : x = [r EXCEPT !.pc = "insert", !.at = n]
        BY DEF Request, Pcs
    <2>3. Role(x) /\ x.op = r.op /\ x.pc = "insert"
        BY <1>2, <2>2 DEF Role, Request, CloseOnly
    <2>4. Goto(h, x)
        BY <1>1, <1>6, <2>1, <2>2 DEF OpenStamp
    <2> QED
        BY <1>1, <1>3, <1>6, <2>2, <2>3, <2>4, AsideOnward DEF CloseOnly, From, OpenStamp, At
<1>7. CASE OpenInsert(h)
    <2>1. ASSUME NEW s \in Sessions, Goto(h, [r EXCEPT !.pc = "link", !.s = s])
          PROVE  Onward(h)
        <3>1. PICK x \in Request : x = [r EXCEPT !.pc = "link", !.s = s]
            BY DEF Request, Pcs
        <3>2. Role(x) /\ x.op = r.op /\ x.pc = "link"
            BY <1>2, <3>1 DEF Role, Request, CloseOnly
        <3> QED
            BY <1>1, <1>3, <1>7, <2>1, <3>1, <3>2, AsideOnward DEF CloseOnly, From, OpenInsert, At
    <2> QED
        BY <1>1, <1>4, <1>7, <2>1 DEF OpenInsert
<1>8. CASE OpenLink(h)
    BY <1>1, <1>4, <1>8 DEF OpenLink
<1> QED
    BY <1>5, <1>6, <1>7, <1>8

LEMMA SignsOnward ==
    ASSUME Inv, NEW h \in Handlers, Sign(h) \/ Store(h) \/ CloseClear(h) \/ Vanish(h), Roles
    PROVE  Onward(h)
<1>1. PICK r \in Request : r = req[h]
    BY HeldOK
<1>2. CASE End(h)
    <2>1. req[h] # Idle
        BY Begun DEF Sign, Store, CloseClear, Vanish, At
    <2> QED
        BY <1>2, <2>1, EndsOnward
<1>3. CASE Sign(h) /\ ~End(h)
    <2>1. PICK n \in Times : n = now'
        BY <1>3, BoundsAreNat DEF Sign, Stamp, Inv, RestOK, Times
    <2>2. PICK x \in Request : x = [r EXCEPT !.pc = "store", !.at = n]
        BY DEF Request, Pcs
    <2>3. Role(x) /\ x.op = r.op /\ x.pc = "store"
        BY <1>1, <2>2 DEF Roles, Role, Request, CloseOnly
    <2>4. Goto(h, x)
        BY <1>1, <1>3, <2>1, <2>2 DEF Sign
    <2>5. r.pc = "sign"
        BY <1>1, <1>3 DEF Sign, At
    <2> QED
        BY <1>1, <2>2, <2>3, <2>4, <2>5, AsideOnward DEF CloseOnly, From
<1> QED
    BY <1>2, <1>3 DEF Sign, Store, CloseClear, Vanish

\* The statements of a close.
LEMMA ClosesOnward ==
    ASSUME Inv, AloneInv, NEW h \in Handlers,
           CloseRead(h) \/ CloseBuild(h) \/ ClosePut(h) \/ CloseWait(h) \/ CloseRecord(h)
    PROVE  Onward(h)
<1>1. PICK r \in Request : r = req[h]
    BY HeldOK
<1>2. r.pc \in CloseOnly \ {"clear"}
    BY <1>1 DEF CloseRead, CloseBuild, ClosePut, CloseWait, CloseRecord, At, CloseOnly
<1>3. CASE End(h)
    <2>1. req[h] # Idle
        BY <1>1, <1>2, Begun DEF CloseOnly
    <2> QED
        BY <1>3, <2>1, EndsOnward
<1>4. ASSUME NEW x \in Request, Goto(h, x), x.pc \in CloseOnly,
             x.op = r.op, x.ret = r.ret, x.s = r.s, UNCHANGED sess \/ x.pc = "clear"
      PROVE  Onward(h)
    BY <1>1, <1>2, <1>4, CloseOnward
<1>5. CASE CloseRead(h)
    <2>1. PICK n \in Times : n = now'
        BY <1>5, BoundsAreNat DEF CloseRead, Stamp, Inv, RestOK, Times
    <2>2. PICK z \in Nat : z = config.counter + 1
        BY DEF Inv, TablesOK, Config
    <2>3. PICK x \in Request : x = [r EXCEPT !.pc = "build", !.at = n, !.z = z]
        BY DEF Request, Pcs
    <2>4. x.pc = "build" /\ x.op = r.op /\ x.ret = r.ret /\ x.s = r.s
        BY <2>3 DEF Request
    <2>5. Goto(h, x) /\ UNCHANGED sess
        BY <1>1, <1>5, <2>1, <2>2, <2>3 DEF CloseRead, tables
    <2> QED
        BY <1>4, <2>4, <2>5 DEF CloseOnly
<1>6. CASE CloseBuild(h) /\ ~End(h)
    <2>1. PICK w \in SUBSET Txs : w = Window(r)
        BY DEF Window
    <2>2. PICK x \in Request : x = [r EXCEPT !.pc = "put", !.txs = w]
        BY DEF Request, Pcs
    <2>3. x.pc = "put" /\ x.op = r.op /\ x.ret = r.ret /\ x.s = r.s
        BY <2>2 DEF Request
    <2>4. Goto(h, x) /\ UNCHANGED sess
        BY <1>1, <1>6, <2>1, <2>2 DEF CloseBuild, tables
    <2> QED
        BY <1>4, <2>3, <2>4 DEF CloseOnly
<1>7. CASE ClosePut(h) /\ ~End(h)
    <2>1. PICK c \in Closings : Goto(h, [r EXCEPT !.pc = "wait", !.c = c])
        BY <1>1, <1>7 DEF ClosePut
    <2>2. PICK x \in Request : x = [r EXCEPT !.pc = "wait", !.c = c]
        BY DEF Request, Pcs
    <2>3. x.pc = "wait" /\ x.op = r.op /\ x.ret = r.ret /\ x.s = r.s
        BY <2>2 DEF Request
    <2>4. UNCHANGED sess
        BY <1>7 DEF ClosePut
    <2> QED
        BY <1>4, <2>1, <2>2, <2>3, <2>4 DEF CloseOnly
<1>8. ASSUME NEW pc \in {"record", "clear"}, Step(h, pc), UNCHANGED sess \/ pc = "clear"
      PROVE  Onward(h)
    <2>1. PICK x \in Request : x = [r EXCEPT !.pc = pc]
        BY DEF Request, Pcs
    <2>2. x.pc = pc /\ x.op = r.op /\ x.ret = r.ret /\ x.s = r.s
        BY <2>1 DEF Request
    <2>3. Goto(h, x)
        BY <1>1, <1>8, <2>1 DEF Step
    <2> QED
        BY <1>4, <1>8, <2>2, <2>3 DEF CloseOnly
<1> QED
    BY <1>3, <1>5, <1>6, <1>7, <1>8
       DEF CloseRead, CloseBuild, ClosePut, CloseWait, CloseRecord, tables

\* A request that begins: it meets no close, and is no close that meets another,
\* unless that is remembered.
LEMMA BeginKeepsAlone ==
    ASSUME Inv, AloneInv, NEW h \in Handlers, NEW x \in Request, Begin(h, x),
           Role(x), x.pc \notin CloseOnly, x.pc # "point"
    PROVE  AloneInv'
<1>1. req'[h] = x /\ (\A g \in Handlers : g # h => req'[g] = req[g]) /\ UNCHANGED sess
    BY DEF Begin, Goto, Inv, RequestsOK, tables
<1>2. Roles'
    BY <1>1 DEF AloneInv, Roles, Role
<1>3. hist \subseteq hist' /\ (Meets(x) => "overlap" \in hist')
    BY DEF Begin, Happens
<1>4. req[h] = Idle
    BY DEF Begin
<1>5. ASSUME "overlap" \notin hist' PROVE Alone' /\ StillOpen'
    <2>1. Alone /\ StillOpen /\ ~Meets(x)
        BY <1>3, <1>5 DEF AloneInv
    <2>2. Alone'
        <3> SUFFICES ASSUME NEW f \in Handlers, NEW g \in Handlers, req'[f].op = "close", f # g
                     PROVE  req'[g] = Idle
            BY DEF Alone
        <3>1. CASE f = h
            <4>1. x.op = "close" /\ req'[g] = req[g]
                BY <1>1, <3>1
            <4> QED
                BY <2>1, <4>1 DEF Meets
        <3>2. CASE f # h
            <4>1. req[f].op = "close"
                BY <1>1, <3>2
            <4>2. req[f] # Idle
                BY <4>1 DEF Idle
            <4> QED
                BY <2>1, <4>1, <4>2 DEF Meets
        <3> QED
            BY <3>1, <3>2
    <2>3. ASSUME NEW g \in Handlers PROVE Works(req[g])'
        <3>1. CASE g = h
            BY <1>1, <3>1 DEF Works
        <3>2. CASE g # h
            BY <1>1, <2>1, <3>2 DEF StillOpen, Works, IsOpen
        <3> QED
            BY <3>1, <3>2
    <2> QED
        BY <2>2, <2>3 DEF StillOpen
<1> QED
    BY <1>2, <1>5 DEF AloneInv

\* What requests begin with.
Starts(x) == x.pc \in {"find", "config", "sign"} /\ x.z = 0 /\ Role(x)

LEMMA BeginsWith ==
    ASSUME Inv, NEW h \in Handlers, Begins(h)
    PROVE  \E x \in Request : Begin(h, x) /\ Starts(x)
<1>1. Idle \in Request /\ now \in Nat
    BY IdleOK, NowIsNat
<1>2. ASSUME NEW op \in {"look", "open", "pay", "retry", "close"}, NEW cash \in BOOLEAN, NEW ret \in Rets,
             ret = "close" => op = "close"
      PROVE  LET x == Call([Idle EXCEPT !.op = op, !.cash = cash], ret)
                 y == Call([Idle EXCEPT !.op = op], ret)
             IN  x \in Request /\ Starts(x) /\ y \in Request /\ Starts(y)
    <2>1. PICK p \in Request : p = [Idle EXCEPT !.op = op, !.cash = cash]
        BY <1>1 DEF Request
    <2>2. PICK q \in Request : q = [Idle EXCEPT !.op = op]
        BY <1>1 DEF Request
    <2>3. /\ p.at = 0 /\ p.legacy = 0 /\ p.op = op /\ p.z = 0
          /\ q.at = 0 /\ q.legacy = 0 /\ q.op = op /\ q.z = 0
        BY <2>1, <2>2 DEF Idle
    <2>4. PICK x \in Request : x = Call(p, ret)
        BY <1>1, <2>3, CallOK
    <2>5. PICK y \in Request : y = Call(q, ret)
        BY <1>1, <2>3, CallOK
    <2>6. Starts(x) /\ Starts(y)
        BY <1>2, <2>3, <2>4, <2>5 DEF Call, Request, Starts, Role, CloseOnly
    <2> QED
        BY <2>1, <2>2, <2>4, <2>5, <2>6
<1>3. [Idle EXCEPT !.op = "open", !.pc = "config"] \in Request
        /\ Starts([Idle EXCEPT !.op = "open", !.pc = "config"])
    BY TimesAreNat DEF Idle, Request, Pcs, Rets, Starts, Role, CloseOnly
<1>4. ToSign("retry") \in Request /\ Starts(ToSign("retry"))
    BY <1>1, ToSignOK DEF ToSign, Idle, Starts, Role, CloseOnly
<1>5. CASE Look(h)
    BY <1>2, <1>5 DEF Look, Rets
<1>6. CASE Open(h)
    BY <1>3, <1>6 DEF Open
<1>7. CASE OpenAuto(h)
    BY <1>2, <1>7 DEF OpenAuto, Rets
<1>8. CASE Pay(h)
    BY <1>2, <1>8 DEF Pay, Rets
<1>9. CASE Retry(h)
    BY <1>2, <1>4, <1>9 DEF Retry, Rets
<1>10. CASE Close(h)
    BY <1>2, <1>10 DEF Close, Rets
<1> QED
    BY <1>5, <1>6, <1>7, <1>8, <1>9, <1>10 DEF Begins

LEMMA AllOnward ==
    ASSUME Inv, AloneInv, NEW h \in Handlers, Continues(h)
    PROVE  Onward(h)
BY FindsOnward, BackfillsOnward, OpensOnward, SignsOnward, ClosesOnward DEF Continues, AloneInv

LEMMA NextSplits ==
    ASSUME [Next]_vars
    PROVE  \/ UNCHANGED vars
           \/ \E c \in Closings : Process(c)
           \/ \E h \in Handlers : Begins(h) \/ Continues(h)
BY DEF Next, Finding, Opening, Paying, Closes, Begins, Continues

LEMMA NextKeepsAlone == Inv /\ AloneInv /\ [Next]_vars => AloneInv'
<1> SUFFICES ASSUME Inv, AloneInv, [Next]_vars PROVE AloneInv'
    OBVIOUS
<1>1. CASE UNCHANGED vars
    BY <1>1 DEF vars, tables, AloneInv, Roles, Alone, StillOpen, Works, IsOpen
<1>2. CASE \E c \in Closings : Process(c)
    BY <1>2 DEF Process, AloneInv, Roles, Alone, StillOpen, Works, IsOpen
<1>3. ASSUME NEW h \in Handlers, Begins(h) PROVE AloneInv'
    <2>1. PICK x \in Request : Begin(h, x) /\ Starts(x)
        BY <1>3, BeginsWith
    <2> QED
        BY <2>1, BeginKeepsAlone DEF Starts, CloseOnly
<1>4. ASSUME NEW h \in Handlers, Continues(h) PROVE AloneInv'
    BY <1>4, AllOnward, OnwardKeeps, HistoryStays
<1> QED
    BY <1>1, <1>2, <1>3, <1>4, NextSplits

-----------------------------------------------------------------------------
(* Z reports are numbered without gaps *)

\* A close has recorded its number, and the counter is behind.
Uncounted == \E h \in Handlers : req[h].pc = "clear"
Number == IF Uncounted THEN config.counter + 1 ELSE config.counter

\* What a close carries is the next number; the closed sessions have those up to
\* the counter, or one more.
NextNumber(r) == r.pc \in CloseOnly \ {"counter"} => r.z = config.counter + 1
Numbered ==
    /\ \A h \in Handlers : NextNumber(req[h])
    /\ {sess[s].z : s \in Closed} = 1 .. Number
    /\ IsFiniteSet(Closed) /\ Cardinality(Closed) = Number

InOrder == hist \cap {"overlap", "uncleared"} = {}
NumberedInv == InOrder => Numbered

\* A step that closes no session and counts none.
LEMMA NumberFrame ==
    ASSUME Inv, Numbered, NEW h \in Handlers, NEW x \in Request, Goto(h, x),
           \A s \in Sessions : sess'[s].st = "closed" <=> sess[s].st = "closed",
           \A s \in Sessions : sess[s].st = "closed" => sess'[s].z = sess[s].z,
           config'.counter = config.counter,
           req[h].pc # "clear", x.pc # "clear", NextNumber(x)
    PROVE  Numbered'
<1>1. req'[h] = x /\ \A g \in Handlers : g # h => req'[g] = req[g]
    BY DEF Goto, Inv, RequestsOK
<1>2. Uncounted' = Uncounted
    BY <1>1 DEF Uncounted
<1>3. Number' = Number
    BY <1>2 DEF Number
<1>4. Closed' = Closed
    BY DEF Closed
<1>5. {sess'[s].z : s \in Closed'} = {sess[s].z : s \in Closed}
    BY <1>4 DEF Closed
<1>6. \A g \in Handlers : NextNumber(req[g])'
    BY <1>1 DEF Numbered, NextNumber
<1> QED
    BY <1>3, <1>4, <1>5, <1>6 DEF Numbered

\* A close alone: nothing else is in flight.
LEMMA OthersIdle ==
    ASSUME AloneInv, "overlap" \notin hist, NEW h \in Handlers, req[h].pc \in CloseOnly
    PROVE  \A g \in Handlers : g # h => req[g] = Idle /\ req[g].pc = "idle"
<1>1. req[h].op = "close"
    BY DEF AloneInv, Roles, Role
<1>2. \A g \in Handlers : g # h => req[g] = Idle
    BY <1>1 DEF AloneInv, Alone
<1>3. Idle.pc = "idle"
    BY DEF Idle
<1> QED
    BY <1>2, <1>3

\* A session more, with the next number.
LEMMA RecordKeepsNumbers ==
    ASSUME Inv, AloneInv, Numbered, "overlap" \notin hist, NEW h \in Handlers, CloseRecord(h)
    PROVE  Numbered'
<1>1. PICK r \in Request : r = req[h]
    BY HeldOK
<1>2. r.pc = "record" /\ UNCHANGED config
    BY <1>1 DEF CloseRecord, At
<1>3. CASE End(h) /\ UNCHANGED sess
    <2>1. Idle \in Request /\ Idle.pc = "idle"
        BY IdleOK, NowIsNat DEF Idle
    <2>2. NextNumber(Idle)
        BY <2>1 DEF NextNumber, CloseOnly
    <2> QED
        BY <1>1, <1>2, <1>3, <2>1, <2>2, NumberFrame DEF End
<1>4. CASE ~(End(h) /\ UNCHANGED sess)
    <2>1. r.s \in Sessions /\ sess[r.s].st = "open"
        BY <1>1, <1>2 DEF AloneInv, StillOpen, Works, CloseOnly, IsOpen
    <2>2. PICK s \in Sessions : s = r.s
        BY <2>1
    <2>3. PICK n \in Nat : n = config.counter
        BY DEF Inv, TablesOK, Config
    <2>4. r.z = n + 1
        BY <1>1, <1>2, <2>3 DEF Numbered, NextNumber, CloseOnly
    <2>5. sess[s] \in Session
        BY DEF Inv, TablesOK
    <2>6. PICK o \in Session : o = sess[s]
        BY <2>5
    <2>7. sess' = [sess EXCEPT ![s] = [o EXCEPT !.st = "closed", !.closed = r.at, !.z = r.z,
                                               !.closing = r.c]]
        BY <1>1, <1>4, <2>2, <2>6 DEF CloseRecord, Inv, TablesOK
    <2>8. sess'[s].st = "closed" /\ sess'[s].z = n + 1
        BY <2>4, <2>7 DEF Inv, TablesOK, Session
    <2>9. \A u \in Sessions : u # s => sess'[u] = sess[u]
        BY <2>7 DEF Inv, TablesOK
    <2>10. PICK x \in Request : x = [r EXCEPT !.pc = "clear"]
        BY DEF Request, Pcs
    <2>11. x.pc = "clear" /\ x.z = n + 1
        BY <2>4, <2>10 DEF Request
    <2>12. Goto(h, x)
        BY <1>1, <1>4, <2>10 DEF CloseRecord, Step
    <2>13. req'[h] = x /\ \A g \in Handlers : g # h => req'[g] = req[g]
        BY <2>12 DEF Goto, Inv, RequestsOK
    <2>14. \A g \in Handlers : g # h => req[g].pc = "idle"
        BY <1>1, <1>2, OthersIdle DEF CloseOnly
    <2>15. Number = n /\ Number' = n + 1
        BY <1>1, <1>2, <2>3, <2>11, <2>13, <2>14 DEF Number, Uncounted
    <2>16. Closed' = Closed \cup {s} /\ s \notin Closed
        BY <2>1, <2>2, <2>8, <2>9 DEF Closed
    <2>17. {sess'[u].z : u \in Closed'} = {sess[u].z : u \in Closed} \cup {n + 1}
        <3>1. \A u \in Closed : sess'[u].z = sess[u].z
            BY <2>9, <2>16 DEF Closed
        <3> QED
            BY <2>8, <2>16, <3>1
    <2>18. {sess'[u].z : u \in Closed'} = 1 .. n + 1
        <3>1. {sess[u].z : u \in Closed} = 1 .. n
            BY <2>15 DEF Numbered
        <3>2. (1 .. n) \cup {n + 1} = 1 .. n + 1
            OBVIOUS
        <3> QED
            BY <2>17, <3>1, <3>2
    <2>19. IsFiniteSet(Closed') /\ Cardinality(Closed') = n + 1
        <3>1. IsFiniteSet(Closed) /\ Cardinality(Closed) = n
            BY <2>15 DEF Numbered
        <3>2. /\ IsFiniteSet(Closed \cup {s})
              /\ Cardinality(Closed \cup {s}) = Cardinality(Closed) + 1
            BY <2>16, <3>1, FS_AddElement
        <3> QED
            BY <2>16, <3>1, <3>2
    <2>20. \A g \in Handlers : NextNumber(req[g])'
        BY <1>2, <2>3, <2>11, <2>13, <2>14 DEF NextNumber, CloseOnly
    <2> QED
        BY <2>15, <2>18, <2>19, <2>20 DEF Numbered
<1> QED
    BY <1>3, <1>4

\* The counter catches up.
LEMMA ClearKeepsNumbers ==
    ASSUME Inv, AloneInv, Numbered, "overlap" \notin hist, NEW h \in Handlers, CloseClear(h),
           "uncleared" \notin hist'
    PROVE  Numbered'
<1>1. PICK r \in Request : r = req[h]
    BY HeldOK
<1>2. r.pc = "clear" /\ UNCHANGED sess /\ End(h)
    BY <1>1 DEF CloseClear, At
<1>3. PICK n \in Nat : n = config.counter
    BY DEF Inv, TablesOK, Config
<1>4. r.z = n + 1
    BY <1>1, <1>2, <1>3 DEF Numbered, NextNumber, CloseOnly
<1>5. config'.counter = n + 1
    BY <1>1, <1>4 DEF CloseClear, Happens, Cleared
<1>6. Idle.pc = "idle"
    BY DEF Idle
<1>7. \A g \in Handlers : g # h => req[g].pc = "idle"
    BY <1>1, <1>2, OthersIdle DEF CloseOnly
<1>8. \A g \in Handlers : req'[g].pc = "idle"
    BY <1>2, <1>6, <1>7 DEF End, Goto, Inv, RequestsOK
<1>9. Number = n + 1 /\ Number' = n + 1
    BY <1>1, <1>2, <1>3, <1>5, <1>8 DEF Number, Uncounted
<1>10. Closed' = Closed
    BY <1>2 DEF Closed
<1>11. {sess'[s].z : s \in Closed'} = {sess[s].z : s \in Closed}
    BY <1>2, <1>10
<1>12. \A g \in Handlers : NextNumber(req[g])'
    BY <1>8 DEF NextNumber, CloseOnly
<1> QED
    BY <1>9, <1>10, <1>11, <1>12 DEF Numbered

\* Every other step: a close carries its number along.
LEMMA OnwardKeepsNumbers ==
    ASSUME Inv, AloneInv, Numbered, NEW h \in Handlers, Continues(h), ~CloseRecord(h), ~CloseClear(h),
           "uncleared" \notin hist'
    PROVE  Numbered'
<1>1. PICK r \in Request : r = req[h]
    BY HeldOK
<1>2. r.pc # "clear"
    BY <1>1 DEF Continues, FindOpen, FindLegacy, Backfill, BackfillPoint, OpenRead, OpenStamp, OpenInsert,
       OpenLink, Sign, Store, CloseRead, CloseBuild, ClosePut, CloseWait, At, Vanish, Happens, LeavesAt
<1>3. config'.counter = config.counter
    BY DEF Continues, FindOpen, FindLegacy, Backfill, BackfillPoint, OpenRead, OpenStamp, OpenInsert,
       OpenLink, Sign, Store, CloseRead, CloseBuild, ClosePut, CloseWait, Vanish, tables, Inv,
       TablesOK, Config
<1>4. /\ \A s \in Sessions : sess'[s].st = "closed" <=> sess[s].st = "closed"
      /\ \A s \in Sessions : sess[s].st = "closed" => sess'[s].z = sess[s].z
    <2>1. CASE UNCHANGED sess
        BY <2>1
    <2>2. ASSUME NEW s \in Sessions, NEW o, Insert(s, o)
          PROVE  /\ \A u \in Sessions : sess'[u].st = "closed" <=> sess[u].st = "closed"
                 /\ \A u \in Sessions : sess[u].st = "closed" => sess'[u].z = sess[u].z
        <3>1. \A u \in Sessions : u # s => sess'[u] = sess[u]
            BY <2>2 DEF Insert, Inv, TablesOK
        <3>2. sess[s].st = "none" /\ sess'[s].st = "open"
            BY <2>2 DEF Insert, Inv, TablesOK, Session
        <3> QED
            BY <3>1, <3>2
    <2>3. UNCHANGED sess \/ \E s \in Sessions : \E o : Insert(s, o)
        BY DEF Continues, FindOpen, FindLegacy, Backfill, BackfillPoint, OpenRead, OpenStamp, OpenInsert,
           OpenLink, Sign, Store, CloseRead, CloseBuild, ClosePut, CloseWait, Vanish, tables
    <2> QED
        BY <2>1, <2>2, <2>3
<1>5. ASSUME NEW x \in Request, Goto(h, x), x.pc # "clear", NextNumber(x) PROVE Numbered'
    BY <1>1, <1>2, <1>3, <1>4, <1>5, NumberFrame
<1>6. CASE r.pc \notin CloseOnly
    <2>1. PICK x \in Request : Goto(h, x) /\ From(r, x)
        BY <1>1, AllOnward DEF Onward
    <2> QED
        BY <1>5, <1>6, <2>1 DEF From, NextNumber, CloseOnly
<1>7. CASE End(h)
    <2>1. Idle \in Request /\ Idle.pc = "idle"
        BY IdleOK, NowIsNat DEF Idle
    <2> QED
        BY <1>5, <1>7, <2>1 DEF End, NextNumber, CloseOnly
<1>8. CASE CloseRead(h)
    <2>1. PICK n \in Times : n = now'
        BY <1>8, BoundsAreNat DEF CloseRead, Stamp, Inv, RestOK, Times
    <2>2. PICK z \in Nat : z = config.counter + 1
        BY DEF Inv, TablesOK, Config
    <2>3. PICK x \in Request : x = [r EXCEPT !.pc = "build", !.at = n, !.z = z]
        BY DEF Request, Pcs
    <2>4. x.pc = "build" /\ x.z = z
        BY <2>3 DEF Request
    <2>5. Goto(h, x)
        BY <1>1, <1>8, <2>1, <2>2, <2>3 DEF CloseRead
    <2> QED
        BY <1>5, <2>2, <2>4, <2>5 DEF NextNumber
<1>9. CASE CloseBuild(h) \/ ClosePut(h) \/ CloseWait(h)
    <2>1. r.z = config.counter + 1
        BY <1>1, <1>9 DEF CloseBuild, ClosePut, CloseWait, At, Numbered, NextNumber, CloseOnly
    <2>2. ASSUME NEW x \in Request, Goto(h, x), x.pc # "clear", x.z = r.z PROVE Numbered'
        BY <1>5, <2>1, <2>2 DEF NextNumber
    <2>3. CASE CloseBuild(h) /\ ~End(h)
        <3>1. PICK w \in SUBSET Txs : w = Window(r)
            BY DEF Window
        <3>2. PICK x \in Request : x = [r EXCEPT !.pc = "put", !.txs = w]
            BY DEF Request, Pcs
        <3>3. x.pc = "put" /\ x.z = r.z
            BY <3>2 DEF Request
        <3> QED
            BY <1>1, <2>2, <2>3, <3>1, <3>2, <3>3 DEF CloseBuild
    <2>4. CASE ClosePut(h) /\ ~End(h)
        <3>1. PICK c \in Closings : Goto(h, [r EXCEPT !.pc = "wait", !.c = c])
            BY <1>1, <2>4 DEF ClosePut
        <3>2. PICK x \in Request : x = [r EXCEPT !.pc = "wait", !.c = c]
            BY DEF Request, Pcs
        <3>3. x.pc = "wait" /\ x.z = r.z
            BY <3>2 DEF Request
        <3> QED
            BY <2>2, <3>1, <3>2, <3>3
    <2>5. CASE CloseWait(h) /\ ~End(h)
        <3>1. PICK x \in Request : x = [r EXCEPT !.pc = "record"]
            BY DEF Request, Pcs
        <3>2. x.pc = "record" /\ x.z = r.z
            BY <3>1 DEF Request
        <3>3. Goto(h, x)
            BY <1>1, <2>5, <3>1 DEF CloseWait, Step
        <3> QED
            BY <2>2, <3>2, <3>3
    <2> QED
        BY <1>7, <1>9, <2>3, <2>4, <2>5
<1>10. CASE Vanish(h)
    BY <1>7, <1>10 DEF Vanish
<1> QED
    BY <1>1, <1>6, <1>8, <1>9, <1>10 DEF Continues, FindOpen, FindLegacy, Backfill, BackfillPoint,
       OpenRead, OpenStamp, OpenInsert, OpenLink, Sign, Store, At, CloseOnly

LEMMA NextKeepsNumbers == Inv /\ AloneInv /\ NumberedInv /\ [Next]_vars => NumberedInv'
<1> SUFFICES ASSUME Inv, AloneInv, NumberedInv, [Next]_vars, InOrder' PROVE Numbered'
    BY DEF NumberedInv
<1>0. Numbered /\ "overlap" \notin hist /\ "uncleared" \notin hist'
    BY HistoryStays DEF NumberedInv, InOrder
<1>1. CASE UNCHANGED vars
    BY <1>0, <1>1 DEF vars, tables, Numbered, NextNumber, Number, Uncounted, Closed
<1>2. CASE \E c \in Closings : Process(c)
    BY <1>0, <1>2 DEF Process, Numbered, NextNumber, Number, Uncounted, Closed
<1>3. ASSUME NEW h \in Handlers, Begins(h) PROVE Numbered'
    <2>1. PICK x \in Request : Begin(h, x) /\ Starts(x)
        BY <1>3, BeginsWith
    <2>2. req[h].pc = "idle"
        BY <2>1 DEF Begin, Idle
    <2>3. Goto(h, x) /\ UNCHANGED tables
        BY <2>1 DEF Begin
    <2>4. NextNumber(x) /\ x.pc # "clear"
        BY <2>1 DEF Starts, NextNumber, CloseOnly
    <2> QED
        BY <1>0, <2>2, <2>3, <2>4, NumberFrame DEF tables
<1>4. ASSUME NEW h \in Handlers, Continues(h) PROVE Numbered'
    BY <1>0, <1>4, RecordKeepsNumbers, ClearKeepsNumbers, OnwardKeepsNumbers
<1> QED
    BY <1>1, <1>2, <1>3, <1>4, NextSplits

LEMMA InitIsAlone == Init => AloneInv /\ NumberedInv
<1> SUFFICES ASSUME Init PROVE AloneInv /\ NumberedInv
    OBVIOUS
<1>1. \A h \in Handlers : req[h].op = "none" /\ req[h].pc = "idle" /\ req[h].ret = "none"
    BY DEF Init, Idle
<1>2. AloneInv
    BY <1>1 DEF AloneInv, Roles, Role, Alone, StillOpen, Works, CloseOnly
<1>3. config.counter = 0 /\ Closed = {}
    BY DEF Init, Closed
<1>4. Number = 0
    BY <1>1, <1>3 DEF Number, Uncounted
<1>5. {sess[s].z : s \in Closed} = 1 .. Number
    BY <1>3, <1>4
<1>6. IsFiniteSet(Closed) /\ Cardinality(Closed) = 0
    BY <1>3, FS_EmptySet
<1> QED
    BY <1>1, <1>2, <1>4, <1>5, <1>6 DEF NumberedInv, Numbered, NextNumber, CloseOnly

\* Whatever requests, faults and restarts there are: the closed sessions are
\* numbered 1, 2, 3 and on up to the counter, each number once, if no close met
\* another request and none was cut off between its two updates.
THEOREM NumbersConsecutive == Spec => []ZConsecutive
<1>1. Init => AloneInv /\ NumberedInv
    BY InitIsAlone
<1>2. Inv /\ AloneInv /\ NumberedInv /\ [Next]_vars => AloneInv' /\ NumberedInv'
    BY NextKeepsAlone, NextKeepsNumbers
<1>3. NumberedInv => ZConsecutive
    <2> SUFFICES ASSUME Numbered, Quiet
                 PROVE  /\ {sess[s].z : s \in Closed} = 1 .. config.counter
                        /\ Cardinality(Closed) = config.counter
        BY DEF NumberedInv, InOrder, ZConsecutive
    <2>1. ~Uncounted
        BY DEF Quiet, Idle, Uncounted
    <2> QED
        BY <2>1 DEF Number, Numbered
<1> QED
    BY <1>1, <1>2, <1>3, InvHolds, PTL DEF Spec

-----------------------------------------------------------------------------
(* No transaction is in two Z reports *)

\* The closings that are completed, or may be.
Live == {c \in Closings : closing[c].st \in {"pending", "completed"}}

\* The closings that a close has sent and not recorded; and those that it has
\* not yet taken out of the config.
Sent == {"wait", "record"}
Carried == {"wait", "record", "clear"}
InHand == {c \in Closings : \E h \in Handlers : req[h].pc \in Sent /\ req[h].c = c}
Unfinished == {c \in Closings : \E h \in Handlers : req[h].pc \in Carried /\ req[h].c = c}

\* What the other closings have counted was signed before n, if it was signed once.
Since(n, except) == \A c \in Live \ except : \A t \in closing[c].txs : t \in hist \/ signed[t] < n

\* What a request may make the opening of a session.
SinceHeld(r) ==
    /\ r.pc = "backfill" => Since(r.legacy, {})
    /\ r.pc \in {"insert", "link"} => Since(r.at, {})

\* The open session, and whatever may become one, begins after all that was counted.
Apart == \A c, d \in Live : c # d => closing[c].txs \cap closing[d].txs \subseteq hist
Fresh ==
    /\ Apart
    /\ \A s \in Sessions : IsOpen(s) => Since(sess[s].opened, InHand)
    /\ config.opened # 0 => Since(config.opened, Unfinished)
    /\ \A h \in Handlers : SinceHeld(req[h])

Undivided == hist \cap {"overlap", "unrecorded", "uncleared"} = {}
FreshInv == Undivided => Fresh

\* What was signed once stays, and no closing counts anew.
CountsStay ==
    /\ Live' \subseteq Live
    /\ \A c \in Live : closing'[c].txs = closing[c].txs
    /\ hist \subseteq hist'
    /\ \A t \in Txs : signed[t] # 0 => t \in hist' \/ signed'[t] = signed[t]

LEMMA CountedAre ==
    ASSUME Inv, NEW c \in Closings, NEW t \in closing[c].txs
    PROVE  t \in Txs /\ (t \in hist \/ signed[t] # 0)
BY DEF Inv, TablesOK, Closing, BooksOK, CountedSigned

LEMMA SinceStays ==
    ASSUME Inv, CountsStay, NEW n, NEW E, NEW F, Live' \ F \subseteq Live \ E, Since(n, E)
    PROVE  \A c \in Live' \ F : \A t \in closing'[c].txs : t \in hist' \/ signed'[t] < n
<1> SUFFICES ASSUME NEW c \in Live' \ F, NEW t \in closing'[c].txs
             PROVE  t \in hist' \/ signed'[t] < n
    OBVIOUS
<1>1. c \in Closings /\ c \in Live \ E /\ t \in closing[c].txs
    BY DEF CountsStay, Live
<1>2. t \in Txs /\ (t \in hist \/ signed[t] # 0)
    BY <1>1, CountedAre
<1> QED
    BY <1>1, <1>2 DEF CountsStay, Since

LEMMA FreshFrame ==
    ASSUME Inv, Fresh, CountsStay, NEW h \in Handlers, NEW x \in Request, Goto(h, x),
           \A s \in Sessions : IsOpen(s)' =>
              \/ IsOpen(s) /\ sess'[s].opened = sess[s].opened /\ Live' \ InHand' \subseteq Live \ InHand
              \/ Since(sess'[s].opened, {}),
           config'.opened # 0 =>
              \/ config'.opened = config.opened /\ Live' \ Unfinished' \subseteq Live \ Unfinished
              \/ Since(config'.opened, {}),
           SinceHeld(x)
    PROVE  Fresh'
<1>1. req'[h] = x /\ \A g \in Handlers : g # h => req'[g] = req[g]
    BY DEF Goto, Inv, RequestsOK
<1>2. Apart'
    BY DEF Apart, CountsStay, Fresh
<1>3. ASSUME NEW n, NEW F, Since(n, {})
      PROVE  \A c \in Live' \ F : \A t \in closing'[c].txs : t \in hist' \/ signed'[t] < n
    <2>1. Live' \ F \subseteq Live \ {}
        BY DEF CountsStay
    <2> QED
        BY <1>3, <2>1, SinceStays
<1>4. ASSUME NEW s \in Sessions, IsOpen(s)' PROVE Since(sess[s].opened, InHand)'
    <2>1. PICK n : n = sess'[s].opened
        OBVIOUS
    <2>2. PICK F : F = InHand'
        OBVIOUS
    <2>3. CASE Since(n, {})
        BY <1>3, <2>1, <2>2, <2>3 DEF Since
    <2>4. CASE IsOpen(s) /\ n = sess[s].opened /\ Live' \ F \subseteq Live \ InHand
        <3>1. Since(n, InHand)
            BY <2>4 DEF Fresh
        <3>2. \A c \in Live' \ F : \A t \in closing'[c].txs : t \in hist' \/ signed'[t] < n
            BY <2>4, <3>1, SinceStays
        <3> QED
            BY <2>1, <2>2, <3>2 DEF Since
    <2> QED
        BY <1>4, <2>1, <2>2, <2>3, <2>4
<1>5. ASSUME config'.opened # 0 PROVE Since(config.opened, Unfinished)'
    <2>1. PICK n : n = config'.opened
        OBVIOUS
    <2>2. PICK F : F = Unfinished'
        OBVIOUS
    <2>3. CASE Since(n, {})
        BY <1>3, <2>1, <2>2, <2>3 DEF Since
    <2>4. CASE n = config.opened /\ Live' \ F \subseteq Live \ Unfinished
        <3>1. Since(n, Unfinished)
            BY <1>5, <2>1, <2>4 DEF Fresh
        <3>2. \A c \in Live' \ F : \A t \in closing'[c].txs : t \in hist' \/ signed'[t] < n
            BY <2>4, <3>1, SinceStays
        <3> QED
            BY <2>1, <2>2, <3>2 DEF Since
    <2> QED
        BY <1>5, <2>1, <2>2, <2>3, <2>4
<1>6. ASSUME NEW g \in Handlers PROVE SinceHeld(req[g])'
    <2>1. PICK q : q = req'[g] /\ SinceHeld(q)
        BY <1>1 DEF Fresh
    <2>2. q.pc = "backfill" => \A c \in Live' \ {} : \A t \in closing'[c].txs : t \in hist' \/ signed'[t] < q.legacy
        BY <1>3, <2>1 DEF SinceHeld
    <2>3. q.pc \in {"insert", "link"} => \A c \in Live' \ {} : \A t \in closing'[c].txs : t \in hist' \/ signed'[t] < q.at
        BY <1>3, <2>1 DEF SinceHeld
    <2> QED
        BY <2>1, <2>2, <2>3 DEF SinceHeld, Since
<1> QED
    BY <1>2, <1>4, <1>5, <1>6 DEF Fresh

\* Which closings are in hand.
LEMMA HandsStay ==
    ASSUME Inv, NEW h \in Handlers, NEW x, Goto(h, x),
           req[h].pc \in Sent <=> x.pc \in Sent, req[h].pc \in Carried <=> x.pc \in Carried,
           x.pc \in Carried => x.c = req[h].c
    PROVE  InHand' = InHand /\ Unfinished' = Unfinished
<1>1. req'[h] = x /\ \A g \in Handlers : g # h => req'[g] = req[g]
    BY DEF Goto, Inv, RequestsOK
<1>2. \A g \in Handlers :
        /\ req'[g].pc \in Sent <=> req[g].pc \in Sent
        /\ req'[g].pc \in Carried <=> req[g].pc \in Carried
        /\ req[g].pc \in Carried => req'[g].c = req[g].c
    BY <1>1
<1>3. Sent \subseteq Carried
    BY DEF Sent, Carried
<1> QED
    BY <1>2, <1>3 DEF InHand, Unfinished

\* A step that leaves sessions, closings and the opening in the config alone.
LEMMA FreshAside ==
    ASSUME Inv, Fresh, NEW h \in Handlers, NEW x \in Request, Goto(h, x),
           UNCHANGED <<sess, closing>>, config'.opened = config.opened,
           hist \subseteq hist',
           \A t \in Txs : signed[t] # 0 => t \in hist' \/ signed'[t] = signed[t],
           req[h].pc \in Sent <=> x.pc \in Sent, req[h].pc \in Carried <=> x.pc \in Carried,
           x.pc \in Carried => x.c = req[h].c,
           SinceHeld(x)
    PROVE  Fresh'
<1>1. InHand' = InHand /\ Unfinished' = Unfinished
    BY HandsStay
<1>2. Live' = Live
    BY DEF Live
<1>3. CountsStay
    BY <1>2 DEF CountsStay
<1>4. \A s \in Sessions : IsOpen(s)' => IsOpen(s) /\ sess'[s].opened = sess[s].opened
    BY DEF IsOpen
<1> QED
    BY <1>1, <1>2, <1>3, <1>4, FreshFrame

\* The requests that are none of a close.
LEMMA NoneCarried ==
    ASSUME Inv, AloneInv, NEW h \in Handlers, Continues(h), req[h].pc \notin CloseOnly
    PROVE  \E x \in Request : Goto(h, x) /\ From(req[h], x) /\ x.pc \notin Carried /\ x.pc \notin Sent
<1>1. PICK x \in Request : Goto(h, x) /\ From(req[h], x)
    BY AllOnward DEF Onward
<1>2. x.pc \notin Carried /\ x.pc \notin Sent
    BY <1>1 DEF From, CloseOnly, Carried, Sent
<1> QED
    BY <1>1, <1>2

\* While another request is at work no closing is on its way.
LEMMA NothingOnItsWay ==
    ASSUME AloneInv, "overlap" \notin hist, NEW h \in Handlers, req[h].pc \notin CloseOnly, req[h] # Idle
    PROVE  InHand = {} /\ Unfinished = {}
<1>1. \A g \in Handlers : req[g].pc \notin CloseOnly
    BY OthersIdle
<1> QED
    BY <1>1 DEF InHand, Unfinished, Sent, Carried, CloseOnly

LEMMA ReturnsTo ==
    ASSUME NEW r \in Request, NEW s
    PROVE  Return(r, s).pc \in {"idle", "find", "config", "stamp", "sign", "counter"}
<1> DEFINE Fine(y) == y.pc \in {"idle", "find", "config", "stamp", "sign", "counter"}
<1>1. Fine(Idle) /\ Fine(Opened(r)) /\ Fine(Call(r, "ensure"))
    BY DEF Idle, ToSign, Opened, Call, Request
<1>2. /\ Fine([r EXCEPT !.pc = "config"]) /\ Fine([r EXCEPT !.pc = "stamp"])
      /\ Fine([r EXCEPT !.pc = "counter", !.s = s])
    BY DEF Request
<1>3. Fine(Return(r, s))
    <2> HIDE DEF Fine
    <2>1. CASE r.ret = "gate"
        BY <1>1, <2>1 DEF Return
    <2>2. CASE r.ret = "ensure"
        BY <1>1, <1>2, <2>2 DEF Return
    <2>3. CASE r.ret = "open"
        BY <1>1, <1>2, <2>3 DEF Return
    <2>4. CASE r.ret = "close"
        BY <1>1, <1>2, <2>4 DEF Return
    <2>5. CASE r.ret \notin {"gate", "ensure", "open", "close"}
        BY <1>1, <2>5 DEF Return
    <2> QED
        BY <2>1, <2>2, <2>3, <2>4, <2>5
<1> QED
    BY <1>3

LEMMA OthersKeepFresh ==
    ASSUME Inv, AloneInv, Fresh, "overlap" \notin hist, hist \subseteq hist', NEW h \in Handlers,
           \/ FindOpen(h) \/ FindLegacy(h) \/ Backfill(h) \/ BackfillPoint(h)
           \/ OpenRead(h) \/ OpenStamp(h) \/ OpenInsert(h) \/ OpenLink(h)
           \/ Sign(h) \/ Store(h)
    PROVE  Fresh'
<1>1. PICK r \in Request : r = req[h]
    BY HeldOK
<1>2. r.pc \notin CloseOnly /\ r.pc # "idle" /\ r.pc \notin Carried /\ r.pc \notin Sent
    BY <1>1 DEF FindOpen, FindLegacy, Backfill, BackfillPoint, OpenRead, OpenStamp, OpenInsert, OpenLink,
       Sign, Store, At, CloseOnly, Carried, Sent
<1>3. InHand = {} /\ Unfinished = {}
    BY <1>1, <1>2, Begun, NothingOnItsWay
<1>4. PICK x \in Request : Goto(h, x) /\ From(r, x) /\ x.pc \notin Carried /\ x.pc \notin Sent
    BY <1>1, <1>2, NoneCarried DEF Continues
<1>5. req'[h] = x /\ \A g \in Handlers : g # h => req'[g] = req[g]
    BY <1>4 DEF Goto, Inv, RequestsOK
<1>6. InHand' = InHand /\ Unfinished' = Unfinished
    BY <1>1, <1>2, <1>4, HandsStay
<1>7. SinceHeld(r)
    BY <1>1 DEF Fresh
<1>8. ASSUME UNCHANGED <<sess, closing>>, config'.opened = config.opened,
             \A t \in Txs : signed[t] # 0 => t \in hist' \/ signed'[t] = signed[t], SinceHeld(x)
      PROVE  Fresh'
    BY <1>1, <1>2, <1>4, <1>8, FreshAside
<1>9. x.pc \notin {"backfill", "insert", "link"} => SinceHeld(x)
    BY DEF SinceHeld
<1>10. CASE FindOpen(h) \/ OpenRead(h) \/ BackfillPoint(h) \/ Sign(h)
    <2>1. r.pc \in {"find", "config", "point", "sign"}
        BY <1>1, <1>10 DEF FindOpen, OpenRead, BackfillPoint, Sign, At
    <2>2. SinceHeld(x)
        BY <1>4, <1>9, <2>1 DEF From
    <2>3. UNCHANGED <<sess, closing>> /\ config'.opened = config.opened
        BY <1>10 DEF FindOpen, OpenRead, BackfillPoint, Sign, tables, Inv, TablesOK, Config
    <2>4. UNCHANGED signed
        BY <1>10 DEF FindOpen, OpenRead, BackfillPoint, Sign, tables
    <2> QED
        BY <1>8, <2>2, <2>3, <2>4
<1>11. CASE FindLegacy(h)
    <2>1. UNCHANGED tables /\ r.pc = "legacy"
        BY <1>1, <1>11 DEF FindLegacy, At
    <2>2. SinceHeld(x)
        <3>1. CASE config.opened = 0
            <4>1. Goto(h, Return(r, None))
                BY <1>1, <1>11, <3>1 DEF FindLegacy
            <4>2. Role(r)
                BY <1>1 DEF AloneInv, Roles
            <4>3. PICK y : y = Return(r, None) /\ From(r, y)
                BY <4>2, ReturnRole
            <4>4. x = y
                BY <1>5, <4>1, <4>3 DEF Goto, Inv, RequestsOK
            <4>5. y.pc \in {"idle", "find", "config", "stamp", "sign", "counter"}
                BY <4>3, ReturnsTo
            <4> QED
                BY <1>9, <4>4, <4>5
        <3>2. CASE config.opened # 0
            <4>1. PICK o \in Times : o = config.opened
                BY DEF Inv, TablesOK, Config
            <4>2. Goto(h, [r EXCEPT !.pc = "backfill", !.legacy = o])
                BY <1>1, <1>11, <3>2, <4>1 DEF FindLegacy
            <4>3. x = [r EXCEPT !.pc = "backfill", !.legacy = o]
                BY <1>5, <4>2 DEF Goto, Inv, RequestsOK
            <4>4. x.pc = "backfill" /\ x.legacy = o
                BY <4>3 DEF Request
            <4>5. Since(o, {})
                BY <1>3, <3>2, <4>1 DEF Fresh
            <4> QED
                BY <4>4, <4>5 DEF SinceHeld
        <3> QED
            BY <3>1, <3>2
    <2> QED
        BY <1>8, <2>1, <2>2 DEF tables
<1>12. CASE OpenStamp(h)
    <2>1. UNCHANGED tables /\ Stamp
        BY <1>12 DEF OpenStamp
    <2>2. PICK n \in Times : n = now' /\ now < n
        BY <1>12, BoundsAreNat DEF OpenStamp, Stamp, Inv, RestOK, Times
    <2>3. Goto(h, [r EXCEPT !.pc = "insert", !.at = n])
        BY <1>1, <1>12, <2>2 DEF OpenStamp
    <2>4. x = [r EXCEPT !.pc = "insert", !.at = n]
        BY <1>5, <2>3 DEF Goto, Inv, RequestsOK
    <2>5. x.pc = "insert" /\ x.at = n
        BY <2>4 DEF Request
    <2>6. \A t \in Txs : signed[t] < n
        BY <2>2, Numbers, TimesAreNat
    <2>7. Since(n, {})
        BY <2>6, CountedAre DEF Since, Live
    <2>8. SinceHeld(x)
        BY <2>5, <2>7 DEF SinceHeld
    <2> QED
        BY <1>8, <2>1, <2>8 DEF tables
<1>13. CASE Store(h)
    <2>1. r.pc = "store"
        BY <1>1, <1>13 DEF Store, At
    <2>2. SinceHeld(x)
        BY <1>4, <1>9, <2>1 DEF From
    <2>3. \A t \in Txs : signed[t] # 0 => t \in hist' \/ signed'[t] = signed[t]
        BY <1>13, StoredIs DEF Inv, TablesOK
    <2> QED
        BY <1>8, <1>13, <2>2, <2>3 DEF Store
<1>14. ASSUME NEW s \in Sessions, NEW o, Insert(s, o), Since(o, {}), SinceHeld(x),
              UNCHANGED <<config, signed, closing>>
       PROVE  Fresh'
    <2>1. \A u \in Sessions : u # s => sess'[u] = sess[u]
        BY <1>14 DEF Insert, Inv, TablesOK
    <2>2. sess'[s].opened = o
        BY <1>14 DEF Insert, Inv, TablesOK, Session
    <2>3. CountsStay /\ Live' = Live
        BY <1>14 DEF CountsStay, Live
    <2>4. \A u \in Sessions : IsOpen(u)' =>
              \/ IsOpen(u) /\ sess'[u].opened = sess[u].opened /\ Live' \ InHand' \subseteq Live \ InHand
              \/ Since(sess'[u].opened, {})
        BY <1>6, <1>14, <2>1, <2>2, <2>3 DEF IsOpen
    <2> QED
        BY <1>4, <1>6, <1>14, <2>3, <2>4, FreshFrame
<1>15. CASE Backfill(h)
    <2>1. r.pc = "backfill"
        BY <1>1, <1>15 DEF Backfill, At
    <2>2. SinceHeld(x) /\ Since(r.legacy, {})
        BY <1>4, <1>7, <1>9, <2>1 DEF From, SinceHeld
    <2>3. CASE UNCHANGED sess
        BY <1>8, <1>15, <2>2, <2>3 DEF Backfill
    <2>4. CASE \E s \in Sessions : Insert(s, r.legacy)
        BY <1>14, <1>15, <2>2, <2>4 DEF Backfill
    <2> QED
        BY <1>1, <1>15, <2>3, <2>4 DEF Backfill
<1>16. CASE OpenInsert(h)
    <2>1. r.pc = "insert"
        BY <1>1, <1>16 DEF OpenInsert, At
    <2>2. Since(r.at, {})
        BY <1>7, <2>1 DEF SinceHeld
    <2>3. CASE UNCHANGED sess /\ Goto(h, Opened(r))
        <3>1. x = Opened(r)
            BY <1>5, <2>3 DEF Goto, Inv, RequestsOK
        <3>2. x.pc \in {"idle", "sign"}
            BY <3>1 DEF Opened, ToSign, Idle
        <3> QED
            BY <1>8, <1>9, <1>16, <2>3, <3>2 DEF OpenInsert
    <2>4. CASE \E s \in Sessions : Insert(s, r.at) /\ Goto(h, [r EXCEPT !.pc = "link", !.s = s])
        <3>1. PICK s \in Sessions : Insert(s, r.at) /\ Goto(h, [r EXCEPT !.pc = "link", !.s = s])
            BY <2>4
        <3>2. x = [r EXCEPT !.pc = "link", !.s = s]
            BY <1>5, <3>1 DEF Goto, Inv, RequestsOK
        <3>3. x.pc = "link" /\ x.at = r.at
            BY <3>2 DEF Request
        <3>4. SinceHeld(x)
            BY <2>2, <3>3 DEF SinceHeld
        <3> QED
            BY <1>14, <1>16, <2>2, <3>1, <3>4 DEF OpenInsert
    <2> QED
        BY <1>1, <1>16, <2>3, <2>4 DEF OpenInsert
<1>17. CASE OpenLink(h)
    <2>1. r.pc = "link"
        BY <1>1, <1>17 DEF OpenLink, At
    <2>2. Since(r.at, {}) /\ SinceHeld(x)
        BY <1>4, <1>7, <1>9, <2>1 DEF From, SinceHeld
    <2>3. UNCHANGED <<sess, closing, signed>>
        BY <1>17 DEF OpenLink
    <2>4. config'.opened = config.opened \/ config'.opened = r.at
        BY <1>1, <1>17 DEF OpenLink, Inv, TablesOK, Config
    <2>5. CountsStay /\ Live' = Live
        BY <2>3 DEF CountsStay, Live
    <2>6. \A s \in Sessions : IsOpen(s)' => IsOpen(s) /\ sess'[s].opened = sess[s].opened
        BY <2>3 DEF IsOpen
    <2> QED
        BY <1>4, <1>6, <2>2, <2>4, <2>5, <2>6, FreshFrame
<1> QED
    BY <1>10, <1>11, <1>12, <1>13, <1>15, <1>16, <1>17

\* A request that ends and has no closing at the service.
LEMMA EndKeepsFresh ==
    ASSUME Inv, Fresh, hist \subseteq hist', NEW h \in Handlers, End(h), UNCHANGED tables,
           req[h].pc \notin Carried
    PROVE  Fresh'
<1>1. Idle \in Request /\ Idle.pc = "idle"
    BY IdleOK, NowIsNat DEF Idle
<1>2. SinceHeld(Idle)
    BY <1>1 DEF SinceHeld
<1>3. UNCHANGED <<sess, closing, signed, config>>
    BY DEF tables
<1>4. req[h].pc \notin Sent /\ Idle.pc \notin Sent /\ Idle.pc \notin Carried
    BY <1>1 DEF Sent, Carried
<1> QED
    BY <1>1, <1>2, <1>3, <1>4, FreshAside DEF End

LEMMA NewClosing ==
    ASSUME Inv, NEW c \in Closings, closing[c].st = "none", NEW k, k.st = "pending",
           closing' = [closing EXCEPT ![c] = k]
    PROVE  closing' # closing
<1>1. closing'[c].st = "pending"
    BY DEF Inv, TablesOK
<1> QED
    BY <1>1

\* A close counts what is signed since the opening of its session, and nothing
\* that was counted before is: a closing more shares nothing with the others.
LEMMA PutKeepsFresh ==
    ASSUME Inv, AloneInv, Fresh, "overlap" \notin hist, "unrecorded" \notin hist', hist \subseteq hist',
           NEW h \in Handlers, ClosePut(h)
    PROVE  Fresh'
<1>1. PICK r \in Request : r = req[h] /\ RequestOK(r)
    BY HeldOK
<1>2. r.pc = "put" /\ UNCHANGED <<sess, config, signed>>
    BY <1>1 DEF ClosePut, At
<1>3. CASE UNCHANGED closing
    <2>1. End(h)
        BY <1>3, NewClosing DEF ClosePut, Happens
    <2> QED
        BY <1>1, <1>2, <1>3, <2>1, EndKeepsFresh DEF tables, Carried
<1>4. CASE ~UNCHANGED closing
    <2>1. PICK c \in Closings :
             /\ closing[c].st = "none"
             /\ closing' = [closing EXCEPT ![c] = [st |-> "pending", z |-> r.z, to |-> r.at,
                                                   from |-> sess[r.s].opened, txs |-> r.txs]]
             /\ Goto(h, [r EXCEPT !.pc = "wait", !.c = c])
        BY <1>1, <1>4 DEF ClosePut, Happens
    <2>2. closing'[c].st = "pending" /\ closing'[c].txs = r.txs
        BY <2>1 DEF Inv, TablesOK
    <2>3. \A d \in Closings : d # c => closing'[d] = closing[d]
        BY <2>1 DEF Inv, TablesOK
    <2>4. Live' = Live \cup {c} /\ c \notin Live
        BY <2>1, <2>2, <2>3 DEF Live
    <2>5. PICK x \in Request : x = [r EXCEPT !.pc = "wait", !.c = c]
        BY DEF Request, Pcs
    <2>6. x.pc = "wait" /\ x.c = c
        BY <2>5 DEF Request
    <2>7. req'[h] = x /\ \A g \in Handlers : g # h => req'[g] = req[g]
        BY <2>1, <2>5 DEF Goto, Inv, RequestsOK
    <2>8. \A g \in Handlers : g # h => req[g].pc = "idle"
        BY <1>1, <1>2, OthersIdle DEF CloseOnly
    <2>9. InHand = {} /\ Unfinished = {}
        BY <1>1, <1>2, <2>8 DEF InHand, Unfinished, Sent, Carried
    <2>10. InHand' = {c} /\ Unfinished' = {c}
        BY <2>6, <2>7, <2>8 DEF InHand, Unfinished, Sent, Carried
    <2>11. r.s \in Sessions /\ IsOpen(r.s)
        BY <1>1, <1>2 DEF AloneInv, StillOpen, Works, CloseOnly
    <2>12. PICK n \in Nat : n = sess[r.s].opened
        BY <2>11, Numbers
    <2>13. Since(n, {})
        BY <2>9, <2>11, <2>12 DEF Fresh
    <2>14. \A t \in r.txs : t \in hist \/ (t \in Txs /\ signed[t] \in Nat /\ n <= signed[t])
        BY <1>1, <1>2, <2>12, Numbers DEF RequestOK, Request
    <2>15. \A d \in Live : r.txs \cap closing[d].txs \subseteq hist
        <3> SUFFICES ASSUME NEW d \in Live, NEW t \in r.txs, t \in closing[d].txs, t \notin hist
                     PROVE  FALSE
            OBVIOUS
        <3>1. signed[t] < n
            BY <2>13 DEF Since
        <3> QED
            BY <2>14, <3>1
    <2>16. Apart'
        BY <2>2, <2>3, <2>4, <2>15 DEF Apart, Fresh, Live
    <2>17. ASSUME NEW m, Since(m, {})
           PROVE  \A d \in Live' \ {c} : \A t \in closing'[d].txs : t \in hist' \/ signed'[t] < m
        <3>1. \A d \in Live' \ {c} : d \in Live /\ closing'[d].txs = closing[d].txs
            BY <2>3, <2>4 DEF Live
        <3> QED
            BY <1>2, <2>17, <3>1 DEF Since
    <2>18. \A s \in Sessions : IsOpen(s)' => Since(sess[s].opened, InHand)'
        BY <1>2, <2>9, <2>10, <2>17 DEF Fresh, Since, IsOpen
    <2>19. config'.opened # 0 => Since(config.opened, Unfinished)'
        BY <1>2, <2>9, <2>10, <2>17 DEF Fresh, Since
    <2>20. \A g \in Handlers : SinceHeld(req[g])'
        BY <2>6, <2>7, <2>8 DEF SinceHeld
    <2> QED
        BY <2>16, <2>18, <2>19, <2>20 DEF Fresh
<1> QED
    BY <1>3, <1>4

\* The close hears how the closing went.
LEMMA WaitKeepsFresh ==
    ASSUME Inv, Fresh, "unrecorded" \notin hist', hist \subseteq hist', NEW h \in Handlers,
           CloseWait(h)
    PROVE  Fresh'
<1>1. PICK r \in Request : r = req[h] /\ RequestOK(r)
    BY HeldOK
<1>2. r.pc = "wait" /\ UNCHANGED <<sess, config, signed, closing>>
    BY <1>1 DEF CloseWait, At, tables
<1>3. CASE Step(h, "record")
    <2>1. PICK x \in Request : x = [r EXCEPT !.pc = "record"]
        BY DEF Request, Pcs
    <2>2. x.pc = "record" /\ x.c = r.c
        BY <2>1 DEF Request
    <2>3. Goto(h, x)
        BY <1>1, <1>3, <2>1 DEF Step
    <2>4. SinceHeld(x)
        BY <2>2 DEF SinceHeld
    <2>5. req[h].pc \in Sent /\ x.pc \in Sent /\ req[h].pc \in Carried /\ x.pc \in Carried
        BY <1>1, <1>2, <2>2 DEF Sent, Carried
    <2> QED
        BY <1>1, <1>2, <2>2, <2>3, <2>4, <2>5, FreshAside
<1>4. CASE closing[r.c].st = "error" /\ End(h)
    <2>1. Idle \in Request /\ Idle.pc = "idle"
        BY IdleOK, NowIsNat DEF Idle
    <2>2. SinceHeld(Idle)
        BY <2>1 DEF SinceHeld
    <2>3. Goto(h, Idle)
        BY <1>4 DEF End
    <2>4. req'[h].pc = "idle" /\ \A g \in Handlers : g # h => req'[g] = req[g]
        BY <2>1, <2>3 DEF Goto, Inv, RequestsOK
    <2>5. Live' = Live /\ r.c \notin Live
        BY <1>2, <1>4 DEF Live
    <2>6. CountsStay
        BY <1>2, <2>5 DEF CountsStay
    <2>7. ASSUME NEW c \in Live, c \in InHand PROVE c \in InHand'
        BY <1>1, <2>4, <2>5, <2>7 DEF InHand
    <2>8. ASSUME NEW c \in Live, c \in Unfinished PROVE c \in Unfinished'
        BY <1>1, <2>4, <2>5, <2>8 DEF Unfinished
    <2>9. \A s \in Sessions : IsOpen(s)' => IsOpen(s) /\ sess'[s].opened = sess[s].opened
        BY <1>2 DEF IsOpen
    <2>10. Live' \ InHand' \subseteq Live \ InHand /\ Live' \ Unfinished' \subseteq Live \ Unfinished
        BY <2>5, <2>7, <2>8
    <2> QED
        BY <1>2, <2>1, <2>2, <2>3, <2>6, <2>9, <2>10, FreshFrame
<1> QED
    BY <1>1, <1>3, <1>4 DEF CloseWait, Happens

\* The session is closed: what was in hand is in no open session's way.
LEMMA RecordKeepsFresh ==
    ASSUME Inv, AloneInv, Fresh, "overlap" \notin hist, "unrecorded" \notin hist', hist \subseteq hist',
           NEW h \in Handlers, CloseRecord(h)
    PROVE  Fresh'
<1>1. PICK r \in Request : r = req[h] /\ RequestOK(r)
    BY HeldOK
<1>2. r.pc = "record" /\ UNCHANGED <<config, signed, closing>>
    BY <1>1 DEF CloseRecord, At
<1>3. /\ sess' = [sess EXCEPT ![r.s] = [@ EXCEPT !.st = "closed", !.closed = r.at, !.z = r.z,
                                                 !.closing = r.c]]
      /\ Step(h, "clear")
    BY <1>1 DEF CloseRecord, Happens
<1>4. r.s \in Sessions /\ IsOpen(r.s)
    BY <1>1, <1>2 DEF AloneInv, StillOpen, Works, CloseOnly
<1>5. PICK o \in Session : o = sess[r.s]
    BY <1>4 DEF Inv, TablesOK
<1>6. sess'[r.s].st = "closed"
    BY <1>3, <1>4, <1>5 DEF Inv, TablesOK, Session
<1>7. \A s \in Sessions : s # r.s => sess'[s] = sess[s]
    BY <1>3 DEF Inv, TablesOK
<1>8. \A s \in Sessions : ~IsOpen(s)'
    <2> SUFFICES ASSUME NEW s \in Sessions, sess'[s].st = "open" PROVE FALSE
        BY DEF IsOpen
    <2>1. s # r.s
        BY <1>6
    <2>2. IsOpen(s)
        BY <1>7, <2>1 DEF IsOpen
    <2> QED
        BY <1>4, <2>1, <2>2 DEF Inv, TablesOK, OneOpen
<1>9. PICK x \in Request : x = [r EXCEPT !.pc = "clear"]
    BY DEF Request, Pcs
<1>10. x.pc = "clear" /\ x.c = r.c /\ Goto(h, x)
    BY <1>1, <1>3, <1>9 DEF Request, Step
<1>11. req'[h] = x /\ \A g \in Handlers : g # h => req'[g] = req[g]
    BY <1>10 DEF Goto, Inv, RequestsOK
<1>12. Unfinished' = Unfinished
    <2>1. \A g \in Handlers : /\ req'[g].pc \in Carried <=> req[g].pc \in Carried
                              /\ req'[g].c = req[g].c
        BY <1>1, <1>2, <1>10, <1>11 DEF Carried
    <2> QED
        BY <2>1 DEF Unfinished
<1>13. CountsStay /\ Live' = Live
    BY <1>2 DEF CountsStay, Live
<1>14. SinceHeld(x)
    BY <1>10 DEF SinceHeld
<1> QED
    BY <1>2, <1>8, <1>10, <1>12, <1>13, <1>14, FreshFrame

\* Nothing is open in the config.
LEMMA ClearKeepsFresh ==
    ASSUME Inv, Fresh, "uncleared" \notin hist', hist \subseteq hist', NEW h \in Handlers,
           CloseClear(h)
    PROVE  Fresh'
<1>1. req[h].pc = "clear" /\ UNCHANGED <<sess, signed, closing>> /\ Goto(h, Idle)
    BY DEF CloseClear, At, End
<1>2. config'.opened = 0
    BY DEF CloseClear, Cleared, Happens
<1>3. Idle \in Request /\ Idle.pc = "idle"
    BY IdleOK, NowIsNat DEF Idle
<1>4. req'[h].pc = "idle" /\ \A g \in Handlers : g # h => req'[g] = req[g]
    BY <1>1, <1>3 DEF Goto, Inv, RequestsOK
<1>5. InHand' = InHand
    <2>1. \A g \in Handlers : /\ req'[g].pc \in Sent <=> req[g].pc \in Sent
                              /\ req[g].pc \in Sent => req'[g].c = req[g].c
        BY <1>1, <1>4 DEF Sent
    <2> QED
        BY <2>1 DEF InHand
<1>6. CountsStay /\ Live' = Live
    BY <1>1 DEF CountsStay, Live
<1>7. \A s \in Sessions : IsOpen(s)' => IsOpen(s) /\ sess'[s].opened = sess[s].opened
    BY <1>1 DEF IsOpen
<1>8. SinceHeld(Idle)
    BY <1>3 DEF SinceHeld
<1> QED
    BY <1>1, <1>2, <1>3, <1>5, <1>6, <1>7, <1>8, FreshFrame

\* A close takes its time stamp, and counts.
LEMMA CountKeepsFresh ==
    ASSUME Inv, Fresh, hist \subseteq hist', NEW h \in Handlers, CloseRead(h) \/ CloseBuild(h)
    PROVE  Fresh'
<1>1. PICK r \in Request : r = req[h]
    BY HeldOK
<1>2. r.pc \in {"counter", "build"} /\ UNCHANGED tables
    BY <1>1 DEF CloseRead, CloseBuild, At
<1>3. CASE End(h)
    BY <1>1, <1>2, <1>3, EndKeepsFresh DEF Carried
<1>4. CASE ~End(h)
    <2>1. PICK x \in Request : Goto(h, x) /\ x.pc \in {"build", "put"}
        <3>1. CASE CloseRead(h)
            <4>1. PICK n \in Times : n = now'
                BY <3>1, BoundsAreNat DEF CloseRead, Stamp, Inv, RestOK, Times
            <4>2. PICK z \in Nat : z = config.counter + 1
                BY DEF Inv, TablesOK, Config
            <4>3. PICK x \in Request : x = [r EXCEPT !.pc = "build", !.at = n, !.z = z]
                BY DEF Request, Pcs
            <4>4. x.pc = "build"
                BY <4>3 DEF Request
            <4> QED
                BY <1>1, <3>1, <4>1, <4>2, <4>3, <4>4 DEF CloseRead
        <3>2. CASE CloseBuild(h)
            <4>1. PICK w \in SUBSET Txs : w = Window(r)
                BY DEF Window
            <4>2. PICK x \in Request : x = [r EXCEPT !.pc = "put", !.txs = w]
                BY DEF Request, Pcs
            <4>3. x.pc = "put"
                BY <4>2 DEF Request
            <4> QED
                BY <1>1, <1>4, <3>2, <4>1, <4>2, <4>3 DEF CloseBuild
        <3> QED
            BY <3>1, <3>2
    <2>2. SinceHeld(x)
        BY <2>1 DEF SinceHeld
    <2>3. req[h].pc \notin Carried /\ x.pc \notin Carried /\ req[h].pc \notin Sent /\ x.pc \notin Sent
        BY <1>1, <1>2, <2>1 DEF Carried, Sent
    <2>4. UNCHANGED <<sess, closing, signed, config>>
        BY <1>2 DEF tables
    <2> QED
        BY <2>1, <2>2, <2>3, <2>4, FreshAside
<1> QED
    BY <1>3, <1>4

LEMMA VanishKeepsFresh ==
    ASSUME Inv, Fresh, "unrecorded" \notin hist', "uncleared" \notin hist', hist \subseteq hist',
           NEW h \in Handlers, Vanish(h)
    PROVE  Fresh'
<1>1. req[h].pc \notin Carried
    BY DEF Vanish, Happens, LeavesAt, Carried
<1> QED
    BY <1>1, EndKeepsFresh DEF Vanish

\* The service completes or rejects what it has.
LEMMA ProcessKeepsFresh ==
    ASSUME Inv, Fresh, hist \subseteq hist', NEW c \in Closings, Process(c)
    PROVE  Fresh'
<1>1. UNCHANGED <<sess, config, signed, req>> /\ closing[c].st = "pending"
    BY DEF Process
<1>2. \A d \in Closings : closing'[d].txs = closing[d].txs /\ (d # c => closing'[d] = closing[d])
    BY DEF Process, Inv, TablesOK, Closing
<1>3. Live' \subseteq Live
    BY <1>1, <1>2 DEF Live
<1>4. InHand' = InHand /\ Unfinished' = Unfinished
    BY <1>1 DEF InHand, Unfinished
<1>5. \A n, E : Since(n, E) => \A d \in Live' \ E : \A t \in closing'[d].txs : t \in hist' \/ signed'[t] < n
    BY <1>1, <1>2, <1>3 DEF Since, Live
<1>6. Apart'
    BY <1>2, <1>3 DEF Fresh, Apart, Live
<1>7. \A s \in Sessions : IsOpen(s)' => Since(sess[s].opened, InHand)'
    BY <1>1, <1>4, <1>5 DEF Fresh, Since, IsOpen
<1>8. config'.opened # 0 => Since(config.opened, Unfinished)'
    BY <1>1, <1>4, <1>5 DEF Fresh, Since
<1>9. \A g \in Handlers : SinceHeld(req[g])'
    BY <1>1, <1>5 DEF Fresh, SinceHeld, Since
<1> QED
    BY <1>6, <1>7, <1>8, <1>9 DEF Fresh

LEMMA NextKeepsFresh == Inv /\ AloneInv /\ FreshInv /\ [Next]_vars => FreshInv'
<1> SUFFICES ASSUME Inv, AloneInv, FreshInv, [Next]_vars, Undivided' PROVE Fresh'
    BY DEF FreshInv
<1>0. /\ Fresh /\ "overlap" \notin hist
      /\ "unrecorded" \notin hist' /\ "uncleared" \notin hist' /\ hist \subseteq hist'
    BY HistoryStays DEF FreshInv, Undivided
<1>1. CASE UNCHANGED vars
    BY <1>0, <1>1 DEF vars, tables, Fresh, Apart, Since, SinceHeld, InHand, Unfinished, Live, IsOpen
<1>2. CASE \E c \in Closings : Process(c)
    BY <1>0, <1>2, ProcessKeepsFresh
<1>3. ASSUME NEW h \in Handlers, Begins(h) PROVE Fresh'
    <2>1. PICK x \in Request : Begin(h, x) /\ Starts(x)
        BY <1>3, BeginsWith
    <2>2. req[h].pc = "idle"
        BY <2>1 DEF Begin, Idle
    <2>3. Goto(h, x) /\ UNCHANGED <<sess, closing, signed, config>>
        BY <2>1 DEF Begin, tables
    <2>4. SinceHeld(x) /\ x.pc \notin Carried /\ x.pc \notin Sent
        BY <2>1 DEF Starts, SinceHeld, Carried, Sent
    <2>5. req[h].pc \notin Carried /\ req[h].pc \notin Sent
        BY <2>2 DEF Carried, Sent
    <2> QED
        BY <1>0, <2>3, <2>4, <2>5, FreshAside
<1>4. ASSUME NEW h \in Handlers, Continues(h) PROVE Fresh'
    BY <1>0, <1>4, OthersKeepFresh, CountKeepsFresh, PutKeepsFresh, WaitKeepsFresh, RecordKeepsFresh,
       ClearKeepsFresh, VanishKeepsFresh DEF Continues
<1> QED
    BY <1>1, <1>2, <1>3, <1>4, NextSplits

\* Signing, closing and opening in any interleaving, with every fault: no
\* transaction that was signed once is in two completed closings, if no close met
\* another request and none broke off after it had sent its closing.
THEOREM IsCountedOnce == Spec => []CountedOnce
<1>1. Init => AloneInv /\ FreshInv
    <2>1. Init => Live = {}
        BY DEF Init, Live
    <2>2. Init => \A h \in Handlers : SinceHeld(req[h])
        BY DEF Init, Idle, SinceHeld
    <2> QED
        BY <2>1, <2>2, InitIsAlone DEF FreshInv, Fresh, Apart, Since
<1>2. Inv /\ AloneInv /\ FreshInv /\ [Next]_vars => AloneInv' /\ FreshInv'
    BY NextKeepsAlone, NextKeepsFresh
<1>3. FreshInv => CountedOnce
    BY DEF FreshInv, Undivided, Fresh, Apart, Live, CountedOnce
<1> QED
    BY <1>1, <1>2, <1>3, InvHolds, PTL DEF Spec
=============================================================================
