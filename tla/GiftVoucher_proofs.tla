------------------------- MODULE GiftVoucher_proofs -------------------------
(***************************************************************************)
(* Proofs about GiftVoucher, for any number of vouchers, payments and      *)
(* concurrent requests, all amounts, operations and faults: the types are  *)
(* right, a voucher is active exactly while there is something on it, a    *)
(* balance never rises and an ended voucher stays ended (Inv); nothing is  *)
(* taken off a balance that is not in one of the books (BackedInv); and    *)
(* while requests come one at a time, value is kept and voucher, event log *)
(* and cash book agree (SerialInv).  Statements fail throughout, and hist  *)
(* says which of the errors the code passes over there have been.          *)
(***************************************************************************)
EXTENDS GiftVoucher, FiniteSetTheorems, TLAPS

IssuePcs == {"payment", "unissue", "cash", "link", "issued"}
RedeemPcs == {"rows", "read", "update", "redeemed", "reload", "unpay"}
VoidPcs == {"vcash", "void", "refund", "voided"}

\* What a request holds in its local variables when it is at a statement.
RequestOK(r) ==
    /\ r.pc \in IssuePcs => r.op = "issue"
    /\ r.pc \in RedeemPcs => r.op = "redeem"
    /\ r.pc \in VoidPcs => r.op = "void"
    /\ r.op \in {"issue", "redeem", "void"} => r.v \in Vouchers
    /\ r.op = "redeem" => r.p \in Payments /\ r.amount > 0
    /\ r.pc \in {"cash", "link", "issued"} => r.p \in Payments
    /\ r.pc \in {"expire", "expired"} => r.cur \in Vouchers
    /\ r.pc = "update" => r.amount <= r.seen[r.v]

RequestsOK == req \in [Handlers -> Request] /\ \A h \in Handlers : RequestOK(req[h])

VoucherRecord == [st: {"none", "active", "gone"} \cup Final, initial: Amounts,
                  balance: Amounts, issue: Payments \cup {None}]
PaymentRecord == [st: {"none", "issue", "redeem", "refunded", "deleted"},
                  v: Vouchers \cup {None}, amount: Amounts]

VouchersOK == voucher \in [Vouchers -> VoucherRecord] /\ ActiveWhileFilled

PaysOK == pays \in [Payments -> PaymentRecord]
BooksOK ==
    /\ cash \in [Vouchers -> [income: Nat, expense: Nat]]
    /\ booked \in [Vouchers -> Nat]
    /\ journal \in [Vouchers -> Int]
RestOK == due \subseteq Vouchers /\ hist \subseteq Happenings /\ faults \in 0 .. MaxFaults

Inv == RequestsOK /\ VouchersOK /\ PaysOK /\ BooksOK /\ RestOK

\* What a step may do to a voucher: the two action properties.
VoucherStep ==
    \A v \in Vouchers :
        /\ voucher[v].st # "none" => voucher'[v].balance <= voucher[v].balance
        /\ voucher[v].st \in Final => voucher'[v].st \in {voucher[v].st, "gone"}

-----------------------------------------------------------------------------
(* What the statements do *)

\* The invariant is the types and a fact about the requests.
LEMMA InvTypes == Inv => TypeOK /\ ActiveWhileFilled
BY DEF Inv, TypeOK, RequestsOK, VouchersOK, PaysOK, BooksOK, RestOK, VoucherRecord, PaymentRecord

\* Only the request that takes the step changes what it holds.
LEMMA GotoOK ==
    ASSUME RequestsOK, NEW h \in Handlers, NEW r \in Request, RequestOK(r), Goto(h, r)
    PROVE  RequestsOK'
BY DEF RequestsOK, Goto

LEMMA IdleOK == Idle \in Request /\ RequestOK(Idle)
BY BoundsAreNat DEF Idle, Request, RequestOK, IssuePcs, RedeemPcs, VoidPcs, Amounts

LEMMA EndOK ==
    ASSUME RequestsOK, NEW h \in Handlers, End(h)
    PROVE  RequestsOK'
BY GotoOK, IdleOK DEF End

Pcs == {"idle", "payment", "unissue", "cash", "link", "issued", "rows", "due",
        "book", "expire", "expired", "read", "update", "redeemed", "reload",
        "unpay", "vcash", "void", "refund", "voided"}

\* Going on to the next statement keeps everything else.
LEMMA StepOK ==
    ASSUME RequestsOK, NEW h \in Handlers, NEW pc \in Pcs, Step(h, pc),
           RequestOK([req[h] EXCEPT !.pc = pc])
    PROVE  RequestsOK'
<1>1. [req[h] EXCEPT !.pc = pc] \in Request
    BY DEF RequestsOK, Request, Pcs
<1>2. Goto(h, [req[h] EXCEPT !.pc = pc])
    BY DEF Step
<1> QED
    BY <1>1, <1>2, GotoOK

\* A request that has begun is one that may.
LEMMA BeginOK ==
    ASSUME RequestsOK, RestOK, NEW h \in Handlers, NEW r \in Request, RequestOK(r), Begin(h, r)
    PROVE  RequestsOK' /\ hist' \subseteq Happenings
<1>1. RequestsOK'
    BY GotoOK DEF Begin
<1>2. hist' \subseteq Happenings
    BY DEF Begin, Happens, Happenings, ValueSlips, BookSlips, RestOK
<1> QED
    BY <1>1, <1>2

LEMMA FaultOK ==
    ASSUME RestOK, NEW kind, Fault(kind)
    PROVE  faults' \in 0 .. MaxFaults
BY BoundsAreNat DEF Fault, RestOK

\* Ending a voucher, or taking something off it, leaves it well-formed.
LEMMA SetOK ==
    ASSUME VouchersOK, NEW v \in Vouchers, NEW st \in {"active", "gone"} \cup Final,
           NEW balance \in Amounts, st = "active" <=> balance > 0,
           balance <= voucher[v].balance,
           voucher[v].st \in Final => st = "gone",
           Set(v, st, balance)
    PROVE  VouchersOK' /\ VoucherStep
<1>1. voucher' \in [Vouchers -> VoucherRecord]
    BY DEF VouchersOK, Set, VoucherRecord
<1>2. \A w \in Vouchers : voucher'[w].st = IF w = v THEN st ELSE voucher[w].st
    BY DEF VouchersOK, Set, VoucherRecord
<1>3. \A w \in Vouchers : voucher'[w].balance = IF w = v THEN balance ELSE voucher[w].balance
    BY DEF VouchersOK, Set, VoucherRecord
<1>4. ActiveWhileFilled'
    BY <1>2, <1>3 DEF VouchersOK, ActiveWhileFilled
<1>5. \A w \in Vouchers : voucher[w].balance \in Int
    BY BoundsAreNat DEF VouchersOK, VoucherRecord, Amounts
<1>6. VoucherStep
    BY <1>2, <1>3, <1>5 DEF VoucherStep
<1> QED
    BY <1>1, <1>4, <1>6 DEF VouchersOK

LEMMA VouchersStay ==
    ASSUME VouchersOK, UNCHANGED voucher
    PROVE  VouchersOK' /\ VoucherStep
<1>1. \A w \in Vouchers : voucher[w].balance \in Int
    BY BoundsAreNat DEF VouchersOK, VoucherRecord, Amounts
<1> QED
    BY <1>1 DEF VouchersOK, ActiveWhileFilled, VoucherStep

LEMMA InsertOK ==
    ASSUME PaysOK, NEW p \in Payments, NEW st \in {"issue", "redeem"}, NEW v \in Vouchers,
           NEW a \in Amounts, Insert(p, st, v, a)
    PROVE  PaysOK'
BY DEF PaysOK, Insert, PaymentRecord

LEMMA RecordOK ==
    ASSUME BooksOK, NEW v \in Vouchers, NEW a \in Int, Record(v, a)
    PROVE  journal' \in [Vouchers -> Int]
BY DEF BooksOK, Record

LEMMA HeldOK ==
    ASSUME Inv, NEW h \in Handlers
    PROVE  req[h] \in Request /\ RequestOK(req[h]) /\ req[h].amount \in Nat
BY BoundsAreNat DEF Inv, RequestsOK, Request, Amounts

LEMMA BalanceOK ==
    ASSUME Inv, NEW v \in Vouchers
    PROVE  voucher[v].balance \in Nat /\ voucher[v].balance \in Amounts
BY BoundsAreNat DEF Inv, VouchersOK, VoucherRecord, Amounts

LEMMA ZeroOK == 0 \in Amounts
BY BoundsAreNat DEF Amounts

-----------------------------------------------------------------------------
(* The steps of an issue *)

\* A new voucher is active with its whole balance.
LEMMA IssueOK ==
    ASSUME Inv, NEW h \in Handlers, NEW v \in Vouchers, NEW a \in Amounts \ {0}, Issue(h, v, a)
    PROVE  Inv' /\ VoucherStep
<1> DEFINE r == [Idle EXCEPT !.op = "issue", !.pc = "payment", !.v = v, !.amount = a]
<1>0. r \in Request /\ RequestOK(r) /\ Begin(h, r)
    <2>1. Begin(h, r)
        BY DEF Issue
    <2>2. "issue" \in Ops
        BY <2>1 DEF Begin, Idle
    <2> QED
        BY <2>1, <2>2, IdleOK DEF Idle, Request, RequestOK, IssuePcs, RedeemPcs, VoidPcs
<1> HIDE DEF r
<1>1. RequestsOK' /\ hist' \subseteq Happenings
    BY <1>0, BeginOK DEF Inv
<1>2. VouchersOK' /\ VoucherStep
    <2>1. voucher' = [voucher EXCEPT ![v] = [st |-> "active", initial |-> a, balance |-> a, issue |-> None]]
        BY DEF Issue
    <2>2. voucher' \in [Vouchers -> VoucherRecord]
        BY <2>1 DEF Inv, VouchersOK, VoucherRecord
    <2>3. \A w \in Vouchers : voucher'[w].balance = IF w = v THEN a ELSE voucher[w].balance
        BY <2>1 DEF Inv, VouchersOK, VoucherRecord
    <2>4. \A w \in Vouchers : voucher'[w].st = IF w = v THEN "active" ELSE voucher[w].st
        BY <2>1 DEF Inv, VouchersOK, VoucherRecord
    <2>5. \A w \in Vouchers : voucher[w].balance \in Int
        BY BalanceOK
    <2>6. a \in Int /\ a > 0 /\ voucher[v].st = "none"
        BY BoundsAreNat DEF Issue, Amounts
    <2>7. ActiveWhileFilled'
        BY <2>3, <2>4, <2>6 DEF Inv, VouchersOK, ActiveWhileFilled
    <2>8. VoucherStep
        BY <2>3, <2>4, <2>5, <2>6 DEF VoucherStep, Final
    <2> QED
        BY <2>2, <2>7, <2>8 DEF VouchersOK
<1>3. PaysOK' /\ BooksOK'
    BY DEF Issue, Inv, PaysOK, BooksOK, books
<1>4. RestOK'
    BY <1>1 DEF Issue, Inv, RestOK
<1> QED
    BY <1>1, <1>2, <1>3, <1>4 DEF Inv

\* The sale, or its failure.
LEMMA IssuePaymentOK ==
    ASSUME Inv, NEW h \in Handlers, IssuePayment(h)
    PROVE  Inv' /\ VoucherStep
<1>0. req[h].v \in Vouchers /\ req[h].amount \in Amounts
    BY HeldOK DEF IssuePayment, At, Request, RequestOK, IssuePcs
<1>1. RequestsOK' /\ PaysOK' /\ faults' \in 0 .. MaxFaults
    <2>1. CASE \E p \in Payments :
                  /\ Insert(p, "issue", req[h].v, req[h].amount)
                  /\ Goto(h, [req[h] EXCEPT !.pc = "cash", !.p = p])
                  /\ UNCHANGED faults
        <3>1. PICK p \in Payments :
                  /\ Insert(p, "issue", req[h].v, req[h].amount)
                  /\ Goto(h, [req[h] EXCEPT !.pc = "cash", !.p = p])
                  /\ UNCHANGED faults
            BY <2>1
        <3> DEFINE r == [req[h] EXCEPT !.pc = "cash", !.p = p]
        <3>2. r \in Request /\ RequestOK(r)
            BY HeldOK DEF IssuePayment, At, Request, RequestOK, IssuePcs, RedeemPcs, VoidPcs
        <3>3. RequestsOK'
            BY <3>1, <3>2, GotoOK DEF Inv
        <3>4. PaysOK'
            BY <3>1, <1>0, InsertOK DEF Inv
        <3> QED
            BY <3>1, <3>3, <3>4 DEF Inv, RestOK
    <2>2. CASE Fault("issuefails") /\ Step(h, "unissue") /\ UNCHANGED pays
        <3>1. RequestOK([req[h] EXCEPT !.pc = "unissue"])
            BY HeldOK DEF IssuePayment, At, Request, RequestOK, IssuePcs, RedeemPcs, VoidPcs
        <3>2. "unissue" \in Pcs
            BY DEF Pcs
        <3>3. RequestsOK'
            BY <2>2, <3>1, <3>2, StepOK DEF Inv
        <3> QED
            BY <2>2, <3>3, FaultOK DEF Inv, PaysOK
    <2> QED
        BY <2>1, <2>2 DEF IssuePayment
<1>2. VouchersOK' /\ VoucherStep
    BY VouchersStay DEF IssuePayment, Inv
<1>3. BooksOK' /\ RestOK'
    BY <1>1 DEF IssuePayment, Inv, BooksOK, RestOK
<1> QED
    BY <1>1, <1>2, <1>3 DEF Inv

\* The deleted voucher is empty.
LEMMA UnissueOK ==
    ASSUME Inv, NEW h \in Handlers, Unissue(h)
    PROVE  Inv' /\ VoucherStep
<1>1. RequestsOK'
    BY EndOK DEF Unissue, Inv
<1>2. VouchersOK' /\ VoucherStep
    <2>1. req[h].v \in Vouchers
        BY HeldOK DEF Unissue, At, Request, RequestOK, IssuePcs
    <2>2. 0 \in Amounts /\ 0 <= voucher[req[h].v].balance
        BY <2>1, ZeroOK, BalanceOK
    <2>3. Set(req[h].v, "gone", 0)
        BY DEF Unissue
    <2> QED
        BY <2>1, <2>2, <2>3, SetOK DEF Inv
<1>3. PaysOK'
    BY DEF Unissue, Inv, PaysOK, books
<1>4. BooksOK'
    BY HeldOK DEF Unissue, At, RequestOK, IssuePcs, Inv, BooksOK
<1>5. RestOK'
    BY DEF Unissue, Inv, RestOK
<1> QED
    BY <1>1, <1>2, <1>3, <1>4, <1>5 DEF Inv

\* The cash book is written.
LEMMA IssueCashOK ==
    ASSUME Inv, NEW h \in Handlers, IssueCash(h)
    PROVE  Inv' /\ VoucherStep
<1>1. RequestsOK'
    <2>1. RequestOK([req[h] EXCEPT !.pc = "link"])
        BY HeldOK DEF IssueCash, At, Request, RequestOK, IssuePcs, RedeemPcs, VoidPcs
    <2>2. "link" \in Pcs
        BY DEF Pcs
    <2> QED
        BY <2>1, <2>2, StepOK DEF IssueCash, Inv
<1>2. VouchersOK' /\ VoucherStep
    BY VouchersStay DEF IssueCash, Inv
<1>3. PaysOK'
    BY DEF IssueCash, Inv, PaysOK, books
<1>4. BooksOK'
    <2>1. req[h].v \in Vouchers /\ req[h].amount \in Nat
        BY HeldOK DEF IssueCash, At, Request, RequestOK, IssuePcs
    <2> QED
        BY <2>1 DEF IssueCash, Inv, BooksOK
<1>5. RestOK'
    BY DEF IssueCash, Inv, RestOK
<1> QED
    BY <1>1, <1>2, <1>3, <1>4, <1>5 DEF Inv

\* The voucher learns its payment.
LEMMA IssueLinkOK ==
    ASSUME Inv, NEW h \in Handlers, IssueLink(h)
    PROVE  Inv' /\ VoucherStep
<1>1. RequestsOK'
    <2>1. RequestOK([req[h] EXCEPT !.pc = "issued"])
        BY HeldOK DEF IssueLink, At, Request, RequestOK, IssuePcs, RedeemPcs, VoidPcs
    <2>2. "issued" \in Pcs
        BY DEF Pcs
    <2> QED
        BY <2>1, <2>2, StepOK DEF IssueLink, Inv
<1>2. VouchersOK' /\ VoucherStep
    <2>1. req[h].v \in Vouchers /\ req[h].p \in Payments
        BY HeldOK DEF IssueLink, At, Request, RequestOK, IssuePcs
    <2>2. voucher' \in [Vouchers -> VoucherRecord]
        BY <2>1 DEF IssueLink, Inv, VouchersOK, VoucherRecord
    <2>3. \A w \in Vouchers : voucher'[w].st = voucher[w].st /\ voucher'[w].balance = voucher[w].balance
        BY <2>1 DEF IssueLink, Inv, VouchersOK, VoucherRecord
    <2>4. \A w \in Vouchers : voucher[w].balance \in Int
        BY BalanceOK
    <2> QED
        BY <2>2, <2>3, <2>4 DEF Inv, VouchersOK, ActiveWhileFilled, VoucherStep
<1>3. PaysOK'
    BY DEF IssueLink, Inv, PaysOK, books
<1>4. BooksOK'
    BY DEF IssueLink, Inv, BooksOK, books
<1>5. RestOK'
    BY DEF IssueLink, Inv, RestOK
<1> QED
    BY <1>1, <1>2, <1>3, <1>4, <1>5 DEF Inv

\* The event is recorded.
LEMMA IssueRecordOK ==
    ASSUME Inv, NEW h \in Handlers, IssueRecord(h)
    PROVE  Inv' /\ VoucherStep
<1>1. RequestsOK'
    BY EndOK DEF IssueRecord, Inv
<1>2. VouchersOK' /\ VoucherStep
    BY VouchersStay DEF IssueRecord, Inv
<1>3. PaysOK'
    BY DEF IssueRecord, Inv, PaysOK, books
<1>4. BooksOK'
    <2>1. req[h].v \in Vouchers /\ req[h].amount \in Int
        BY HeldOK DEF IssueRecord, At, Request, RequestOK, IssuePcs
    <2> QED
        BY <2>1, RecordOK DEF IssueRecord, Inv, BooksOK
<1>5. RestOK'
    BY DEF IssueRecord, Inv, RestOK
<1> QED
    BY <1>1, <1>2, <1>3, <1>4, <1>5 DEF Inv

-----------------------------------------------------------------------------
(* The steps of an expiry *)

\* A lookup begins.
LEMMA LookOK ==
    ASSUME Inv, NEW h \in Handlers, Look(h)
    PROVE  Inv' /\ VoucherStep
<1> DEFINE r == [Idle EXCEPT !.op = "look", !.pc = "due"]
<1>0. r \in Request /\ RequestOK(r) /\ Begin(h, r)
    <2>1. Begin(h, r)
        BY DEF Look
    <2>2. "look" \in Ops
        BY <2>1 DEF Begin, Idle
    <2> QED
        BY <2>1, <2>2, IdleOK DEF Idle, Request, RequestOK, IssuePcs, RedeemPcs, VoidPcs
<1> HIDE DEF r
<1>1. RequestsOK' /\ hist' \subseteq Happenings
    BY <1>0, BeginOK DEF Inv
<1> QED
    BY <1>1, VouchersStay DEF Look, Inv, PaysOK, BooksOK, RestOK, books

\* The due vouchers are read.
LEMMA ExpireSelectOK ==
    ASSUME Inv, NEW h \in Handlers, ExpireSelect(h)
    PROVE  Inv' /\ VoucherStep
<1>1. RequestsOK'
    <2> DEFINE r == [req[h] EXCEPT !.pc = "book",
                       !.seen = [v \in Vouchers |-> voucher[v].balance],
                       !.todo = {v \in due : voucher[v].st = "active" /\ voucher[v].balance > 0}]
    <2>1. r \in Request /\ RequestOK(r)
        BY HeldOK, BalanceOK DEF ExpireSelect, At, Request, RequestOK, IssuePcs, RedeemPcs, VoidPcs, Inv, RestOK
    <2> QED
        BY <2>1, GotoOK DEF ExpireSelect, Inv
<1>2. VouchersOK' /\ VoucherStep
    BY VouchersStay DEF ExpireSelect, Inv
<1>3. PaysOK'
    BY DEF ExpireSelect, Inv, PaysOK, books
<1>4. BooksOK'
    BY DEF ExpireSelect, Inv, BooksOK, books
<1>5. RestOK'
    BY DEF ExpireSelect, Inv, RestOK
<1> QED
    BY <1>1, <1>2, <1>3, <1>4, <1>5 DEF Inv

\* A balance is booked.
LEMMA ExpireBookOK ==
    ASSUME Inv, NEW h \in Handlers, ExpireBook(h)
    PROVE  Inv' /\ VoucherStep
<1>0. PICK v \in req[h].todo :
          /\ booked' = [booked EXCEPT ![v] = @ + req[h].seen[v]]
          /\ Goto(h, [req[h] EXCEPT !.pc = "expire", !.cur = v])
    BY DEF ExpireBook
<1>a. v \in Vouchers /\ req[h].seen[v] \in Nat
    BY HeldOK, BoundsAreNat DEF Request, Amounts
<1>1. RequestsOK'
    <2> DEFINE r == [req[h] EXCEPT !.pc = "expire", !.cur = v]
    <2>1. r \in Request /\ RequestOK(r)
        BY <1>a, HeldOK DEF ExpireBook, At, Request, RequestOK, IssuePcs, RedeemPcs, VoidPcs
    <2> QED
        BY <1>0, <2>1, GotoOK DEF Inv
<1>2. VouchersOK' /\ VoucherStep
    BY VouchersStay DEF ExpireBook, Inv
<1>3. PaysOK'
    BY DEF ExpireBook, Inv, PaysOK
<1>4. BooksOK'
    <2>1. cash' = cash /\ journal' = journal
        BY DEF ExpireBook
    <2>2. booked' \in [Vouchers -> Nat]
        BY <1>0, <1>a DEF Inv, BooksOK
    <2> QED
        BY <2>1, <2>2 DEF Inv, BooksOK
<1>5. RestOK'
    BY DEF ExpireBook, Inv, RestOK
<1> QED
    BY <1>1, <1>2, <1>3, <1>4, <1>5 DEF Inv

\* What is active expires.
LEMMA ExpireUpdateOK ==
    ASSUME Inv, NEW h \in Handlers, ExpireUpdate(h)
    PROVE  Inv' /\ VoucherStep
<1>1. RequestsOK'
    <2>1. RequestOK([req[h] EXCEPT !.pc = "expired"])
        BY HeldOK DEF ExpireUpdate, At, Request, RequestOK, IssuePcs, RedeemPcs, VoidPcs
    <2>2. "expired" \in Pcs
        BY DEF Pcs
    <2> QED
        BY <2>1, <2>2, StepOK DEF ExpireUpdate, Inv
<1>2. VouchersOK' /\ VoucherStep
    <2>1. req[h].cur \in Vouchers
        BY HeldOK DEF ExpireUpdate, At, Request, RequestOK, IssuePcs
    <2>2. 0 \in Amounts /\ 0 <= voucher[req[h].cur].balance
        BY <2>1, ZeroOK, BalanceOK
    <2>3. CASE voucher[req[h].cur].st = "active" /\ Set(req[h].cur, "expired", 0)
        BY <2>1, <2>2, <2>3, SetOK DEF Inv, Final
    <2>4. CASE UNCHANGED voucher
        BY <2>4, VouchersStay DEF Inv
    <2> QED
        BY <2>3, <2>4 DEF ExpireUpdate
<1>3. PaysOK'
    BY DEF ExpireUpdate, Inv, PaysOK, books
<1>4. BooksOK'
    BY DEF ExpireUpdate, Inv, BooksOK, books
<1>5. RestOK'
    BY DEF ExpireUpdate, Inv, RestOK
<1> QED
    BY <1>1, <1>2, <1>3, <1>4, <1>5 DEF Inv

\* The event is recorded.
LEMMA ExpireRecordOK ==
    ASSUME Inv, NEW h \in Handlers, ExpireRecord(h)
    PROVE  Inv' /\ VoucherStep
<1>1. RequestsOK'
    <2> DEFINE r == NextDue(req[h])
    <2>1. r \in Request /\ RequestOK(r)
        BY HeldOK DEF NextDue, ExpireRecord, At, Request, RequestOK, IssuePcs, RedeemPcs, VoidPcs
    <2> QED
        BY <2>1, GotoOK DEF ExpireRecord, Inv
<1>2. VouchersOK' /\ VoucherStep
    BY VouchersStay DEF ExpireRecord, Inv
<1>3. PaysOK'
    BY DEF ExpireRecord, Inv, PaysOK
<1>4. BooksOK'
    <2>1. req[h].cur \in Vouchers /\ -req[h].seen[req[h].cur] \in Int
        BY HeldOK, BoundsAreNat DEF ExpireRecord, At, Request, RequestOK, IssuePcs, Amounts
    <2> QED
        BY <2>1, RecordOK DEF ExpireRecord, Inv, BooksOK
<1>5. RestOK'
    BY DEF ExpireRecord, Inv, RestOK
<1> QED
    BY <1>1, <1>2, <1>3, <1>4, <1>5 DEF Inv

\* The expiry ends.
LEMMA ExpireDoneOK ==
    ASSUME Inv, NEW h \in Handlers, ExpireDone(h)
    PROVE  Inv' /\ VoucherStep
<1>1. RequestsOK'
    <2>1. CASE End(h)
        BY <2>1, EndOK DEF Inv
    <2>2. CASE req[h].op = "redeem" /\ Step(h, "read")
        <3>1. RequestOK([req[h] EXCEPT !.pc = "read"])
            BY <2>2, HeldOK DEF Request, RequestOK, IssuePcs, RedeemPcs, VoidPcs
        <3>2. "read" \in Pcs
            BY DEF Pcs
        <3> QED
            BY <2>2, <3>1, <3>2, StepOK DEF Inv
    <2> QED
        BY <2>1, <2>2 DEF ExpireDone
<1>2. VouchersOK' /\ VoucherStep
    BY VouchersStay DEF ExpireDone, Inv
<1>3. PaysOK'
    BY DEF ExpireDone, Inv, PaysOK, books
<1>4. BooksOK'
    BY DEF ExpireDone, Inv, BooksOK, books
<1>5. RestOK'
    BY DEF ExpireDone, Inv, RestOK
<1> QED
    BY <1>1, <1>2, <1>3, <1>4, <1>5 DEF Inv

-----------------------------------------------------------------------------
(* The steps of a redemption *)

\* A redemption begins with its payment.
LEMMA RedeemOK ==
    ASSUME Inv, NEW h \in Handlers, NEW v \in Vouchers, NEW a \in Amounts \ {0}, Redeem(h, v, a)
    PROVE  Inv' /\ VoucherStep
<1>p. PICK p \in Payments :
          /\ Insert(p, "redeem", v, a)
          /\ Begin(h, [Idle EXCEPT !.op = "redeem", !.pc = "rows", !.v = v, !.p = p, !.amount = a])
    BY DEF Redeem
<1> DEFINE r == [Idle EXCEPT !.op = "redeem", !.pc = "rows", !.v = v, !.p = p, !.amount = a]
<1>0. r \in Request /\ RequestOK(r) /\ Begin(h, r)
    <2>1. "redeem" \in Ops
        BY <1>p DEF Begin, Idle
    <2>2. a > 0
        BY BoundsAreNat DEF Amounts
    <2> QED
        BY <1>p, <2>1, <2>2, IdleOK DEF Idle, Request, RequestOK, IssuePcs, RedeemPcs, VoidPcs
<1> HIDE DEF r
<1>1. RequestsOK' /\ hist' \subseteq Happenings
    BY <1>0, BeginOK DEF Inv
<1>2. PaysOK'
    BY <1>p, InsertOK DEF Inv
<1> QED
    BY <1>1, <1>2, VouchersStay DEF Redeem, Inv, BooksOK, RestOK

\* The rows are inserted, or not.
LEMMA RedeemRowsOK ==
    ASSUME Inv, NEW h \in Handlers, RedeemRows(h)
    PROVE  Inv' /\ VoucherStep
<1>1. RequestsOK'
    <2>1. CASE Step(h, "due")
        <3>1. RequestOK([req[h] EXCEPT !.pc = "due"])
            BY HeldOK DEF RedeemRows, At, Request, RequestOK, IssuePcs, RedeemPcs, VoidPcs
        <3>2. "due" \in Pcs
            BY DEF Pcs
        <3> QED
            BY <2>1, <3>1, <3>2, StepOK DEF Inv
    <2>2. CASE Step(h, "unpay")
        <3>1. RequestOK([req[h] EXCEPT !.pc = "unpay"])
            BY HeldOK DEF RedeemRows, At, Request, RequestOK, IssuePcs, RedeemPcs, VoidPcs
        <3>2. "unpay" \in Pcs
            BY DEF Pcs
        <3> QED
            BY <2>2, <3>1, <3>2, StepOK DEF Inv
    <2> QED
        BY <2>1, <2>2 DEF RedeemRows
<1>2. VouchersOK' /\ VoucherStep
    BY VouchersStay DEF RedeemRows, Inv
<1>3. PaysOK'
    BY DEF RedeemRows, Inv, PaysOK, books
<1>4. BooksOK'
    BY DEF RedeemRows, Inv, BooksOK, books
<1>5. RestOK'
    BY FaultOK DEF RedeemRows, Inv, RestOK
<1> QED
    BY <1>1, <1>2, <1>3, <1>4, <1>5 DEF Inv

\* What was read covers what is asked for.
LEMMA RedeemReadOK ==
    ASSUME Inv, NEW h \in Handlers, RedeemRead(h)
    PROVE  Inv' /\ VoucherStep
<1>1. RequestsOK'
    <2> DEFINE v == req[h].v
    <2>1. v \in Vouchers
        BY HeldOK DEF RedeemRead, At, Request, RequestOK, RedeemPcs
    <2>2. CASE /\ Covers(v, req[h].amount)
               /\ Goto(h, [req[h] EXCEPT !.pc = "update", !.seen[v] = voucher[v].balance])
        <3> DEFINE r == [req[h] EXCEPT !.pc = "update", !.seen[v] = voucher[v].balance]
        <3>1. req[h].amount <= voucher[v].balance /\ voucher[v].balance \in Amounts
            BY <2>1, <2>2, BalanceOK DEF Covers
        <3>2. r.seen \in [Vouchers -> Amounts] /\ r.seen[v] = voucher[v].balance
            BY <2>1, <3>1, HeldOK DEF Request
        <3>3. r \in Request
            BY <3>2, HeldOK DEF Request
        <3>4. r.v = v /\ r.amount = req[h].amount /\ r.op = req[h].op /\ r.p = req[h].p /\ r.pc = "update"
            BY HeldOK DEF Request
        <3>5. req[h].op = "redeem"
            BY HeldOK DEF RedeemRead, At, RequestOK, RedeemPcs
        <3> HIDE DEF r
        <3>6. RequestOK(r)
            BY <2>1, <3>1, <3>2, <3>4, <3>5, HeldOK DEF RequestOK, IssuePcs, RedeemPcs, VoidPcs
        <3>7. Goto(h, r)
            BY <2>2 DEF r
        <3> QED
            BY <3>3, <3>6, <3>7, GotoOK DEF Inv
    <2>3. CASE Step(h, "unpay")
        <3>1. RequestOK([req[h] EXCEPT !.pc = "unpay"])
            BY HeldOK DEF RedeemRead, At, Request, RequestOK, IssuePcs, RedeemPcs, VoidPcs
        <3>2. "unpay" \in Pcs
            BY DEF Pcs
        <3> QED
            BY <2>3, <3>1, <3>2, StepOK DEF Inv
    <2> QED
        BY <2>2, <2>3 DEF RedeemRead
<1>2. VouchersOK' /\ VoucherStep
    BY VouchersStay DEF RedeemRead, Inv
<1>3. PaysOK'
    BY DEF RedeemRead, Inv, PaysOK, books
<1>4. BooksOK'
    BY DEF RedeemRead, Inv, BooksOK, books
<1>5. RestOK'
    BY DEF RedeemRead, Inv, RestOK
<1> QED
    BY <1>1, <1>2, <1>3, <1>4, <1>5 DEF Inv

\* The balance goes down by what is redeemed, if it is what was read.
LEMMA RedeemUpdateOK ==
    ASSUME Inv, NEW h \in Handlers, RedeemUpdate(h)
    PROVE  Inv' /\ VoucherStep
<1>1. RequestsOK'
    <2>1. RequestOK([req[h] EXCEPT !.pc = "redeemed"])
        BY HeldOK DEF RedeemUpdate, At, Request, RequestOK, IssuePcs, RedeemPcs, VoidPcs
    <2>2. "redeemed" \in Pcs
        BY DEF Pcs
    <2> QED
        BY <2>1, <2>2, StepOK DEF RedeemUpdate, Inv
<1>2. VouchersOK' /\ VoucherStep
    <2> DEFINE v == req[h].v
    <2> DEFINE next == req[h].seen[v] - req[h].amount
    <2>1. v \in Vouchers /\ req[h].amount > 0 /\ req[h].amount <= req[h].seen[v]
        BY HeldOK DEF RedeemUpdate, At, RequestOK, RedeemPcs
    <2>2. CASE StillRead(req[h]) /\ Set(v, StatusFor(next), next)
        <3>1. voucher[v].st = "active" /\ voucher[v].balance = req[h].seen[v]
            BY <2>2 DEF StillRead
        <3>2. voucher[v].balance \in Amounts /\ req[h].amount \in Nat
            BY <2>1, BalanceOK, HeldOK
        <3>3. next \in Amounts /\ next <= voucher[v].balance /\ next >= 0
            BY <2>1, <3>1, <3>2, BoundsAreNat DEF Amounts
        <3>4. StatusFor(next) \in {"active"} \cup Final /\ (StatusFor(next) = "active" <=> next > 0)
            BY <3>3, BoundsAreNat DEF StatusFor, Final, Amounts
        <3> HIDE DEF next
        <3> QED
            BY <2>1, <2>2, <3>1, <3>3, <3>4, SetOK DEF Inv, Final
    <2>3. CASE UNCHANGED voucher
        BY <2>3, VouchersStay DEF Inv
    <2> QED
        BY <2>2, <2>3 DEF RedeemUpdate
<1>3. PaysOK'
    BY DEF RedeemUpdate, Inv, PaysOK, books
<1>4. BooksOK'
    BY DEF RedeemUpdate, Inv, BooksOK, books
<1>5. RestOK'
    BY DEF RedeemUpdate, Inv, RestOK
<1> QED
    BY <1>1, <1>2, <1>3, <1>4, <1>5 DEF Inv

\* The event is recorded.
LEMMA RedeemRecordOK ==
    ASSUME Inv, NEW h \in Handlers, RedeemRecord(h)
    PROVE  Inv' /\ VoucherStep
<1>1. RequestsOK'
    <2>1. RequestOK([req[h] EXCEPT !.pc = "reload"])
        BY HeldOK DEF RedeemRecord, At, Request, RequestOK, IssuePcs, RedeemPcs, VoidPcs
    <2>2. "reload" \in Pcs
        BY DEF Pcs
    <2> QED
        BY <2>1, <2>2, StepOK DEF RedeemRecord, Inv
<1>2. VouchersOK' /\ VoucherStep
    BY VouchersStay DEF RedeemRecord, Inv
<1>3. PaysOK'
    BY DEF RedeemRecord, Inv, PaysOK
<1>4. BooksOK'
    <2>1. req[h].v \in Vouchers /\ -req[h].amount \in Int
        BY HeldOK, BoundsAreNat DEF RedeemRecord, At, Request, RequestOK, RedeemPcs, Amounts
    <2> QED
        BY <2>1, RecordOK DEF RedeemRecord, Inv, BooksOK
<1>5. RestOK'
    BY DEF RedeemRecord, Inv, RestOK
<1> QED
    BY <1>1, <1>2, <1>3, <1>4, <1>5 DEF Inv

\* The redemption ends, or is undone.
LEMMA RedeemReloadOK ==
    ASSUME Inv, NEW h \in Handlers, RedeemReload(h)
    PROVE  Inv' /\ VoucherStep
<1>1. RequestsOK'
    BY EndOK DEF RedeemReload, Inv
<1>2. VouchersOK' /\ VoucherStep
    BY VouchersStay DEF RedeemReload, Inv
<1>3. PaysOK'
    BY DEF RedeemReload, Inv, PaysOK, books
<1>4. BooksOK'
    BY DEF RedeemReload, Inv, BooksOK, books
<1>5. RestOK'
    BY DEF RedeemReload, Inv, RestOK
<1> QED
    BY <1>1, <1>2, <1>3, <1>4, <1>5 DEF Inv

\* The payment is deleted.
LEMMA UnpayOK ==
    ASSUME Inv, NEW h \in Handlers, Unpay(h)
    PROVE  Inv' /\ VoucherStep
<1>1. RequestsOK'
    BY EndOK DEF Unpay, Inv
<1>2. VouchersOK' /\ VoucherStep
    BY VouchersStay DEF Unpay, Inv
<1>3. PaysOK'
    BY DEF Unpay, Inv, PaysOK, PaymentRecord
<1>4. BooksOK'
    BY DEF Unpay, Inv, BooksOK
<1>5. RestOK'
    BY DEF Unpay, Inv, RestOK
<1> QED
    BY <1>1, <1>2, <1>3, <1>4, <1>5 DEF Inv

-----------------------------------------------------------------------------
(* The steps of a void, and the environment *)

\* A void begins.
LEMMA VoidOK ==
    ASSUME Inv, NEW h \in Handlers, NEW v \in Vouchers, Void(h, v)
    PROVE  Inv' /\ VoucherStep
<1> DEFINE r == [Idle EXCEPT !.op = "void", !.pc = "vcash", !.v = v, !.p = voucher[v].issue,
                            !.amount = voucher[v].balance]
<1>0. r \in Request /\ RequestOK(r) /\ Begin(h, r)
    <2>1. Begin(h, r)
        BY DEF Void
    <2>2. "void" \in Ops
        BY <2>1 DEF Begin, Idle
    <2>3. voucher[v].issue \in Payments \cup {None} /\ voucher[v].balance \in Amounts
        BY DEF Inv, VouchersOK, VoucherRecord
    <2> QED
        BY <2>1, <2>2, <2>3, IdleOK DEF Idle, Request, RequestOK, IssuePcs, RedeemPcs, VoidPcs
<1> HIDE DEF r
<1>1. RequestsOK' /\ hist' \subseteq Happenings
    BY <1>0, BeginOK DEF Inv
<1> QED
    BY <1>1, VouchersStay DEF Void, Inv, PaysOK, BooksOK, RestOK, books

\* The cash book is written.
LEMMA VoidCashOK ==
    ASSUME Inv, NEW h \in Handlers, VoidCash(h)
    PROVE  Inv' /\ VoucherStep
<1>1. RequestsOK'
    <2>1. RequestOK([req[h] EXCEPT !.pc = "void"])
        BY HeldOK DEF VoidCash, At, Request, RequestOK, IssuePcs, RedeemPcs, VoidPcs
    <2>2. "void" \in Pcs
        BY DEF Pcs
    <2> QED
        BY <2>1, <2>2, StepOK DEF VoidCash, Inv
<1>2. VouchersOK' /\ VoucherStep
    BY VouchersStay DEF VoidCash, Inv
<1>3. PaysOK'
    BY DEF VoidCash, Inv, PaysOK
<1>4. BooksOK'
    <2>1. req[h].v \in Vouchers /\ req[h].amount \in Nat
        BY HeldOK DEF VoidCash, At, Request, RequestOK, VoidPcs
    <2> QED
        BY <2>1 DEF VoidCash, Inv, BooksOK
<1>5. RestOK'
    BY DEF VoidCash, Inv, RestOK
<1> QED
    BY <1>1, <1>2, <1>3, <1>4, <1>5 DEF Inv

\* What is active is voided.
LEMMA VoidUpdateOK ==
    ASSUME Inv, NEW h \in Handlers, VoidUpdate(h)
    PROVE  Inv' /\ VoucherStep
<1>1. RequestsOK'
    <2>1. RequestOK([req[h] EXCEPT !.pc = "refund"])
        BY HeldOK DEF VoidUpdate, At, Request, RequestOK, IssuePcs, RedeemPcs, VoidPcs
    <2>2. "refund" \in Pcs
        BY DEF Pcs
    <2> QED
        BY <2>1, <2>2, StepOK DEF VoidUpdate, Inv
<1>2. VouchersOK' /\ VoucherStep
    <2>1. req[h].v \in Vouchers
        BY HeldOK DEF VoidUpdate, At, Request, RequestOK, VoidPcs
    <2>2. 0 \in Amounts /\ 0 <= voucher[req[h].v].balance
        BY <2>1, ZeroOK, BalanceOK
    <2>3. CASE voucher[req[h].v].st = "active" /\ Set(req[h].v, "voided", 0)
        BY <2>1, <2>2, <2>3, SetOK DEF Inv, Final
    <2>4. CASE UNCHANGED voucher
        BY <2>4, VouchersStay DEF Inv
    <2> QED
        BY <2>3, <2>4 DEF VoidUpdate
<1>3. PaysOK'
    BY DEF VoidUpdate, Inv, PaysOK, books
<1>4. BooksOK'
    BY DEF VoidUpdate, Inv, BooksOK, books
<1>5. RestOK'
    BY DEF VoidUpdate, Inv, RestOK
<1> QED
    BY <1>1, <1>2, <1>3, <1>4, <1>5 DEF Inv

\* The payment is refunded.
LEMMA VoidRefundOK ==
    ASSUME Inv, NEW h \in Handlers, VoidRefund(h)
    PROVE  Inv' /\ VoucherStep
<1>1. RequestsOK'
    <2>1. RequestOK([req[h] EXCEPT !.pc = "voided"])
        BY HeldOK DEF VoidRefund, At, Request, RequestOK, IssuePcs, RedeemPcs, VoidPcs
    <2>2. "voided" \in Pcs
        BY DEF Pcs
    <2> QED
        BY <2>1, <2>2, StepOK DEF VoidRefund, Inv
<1>2. VouchersOK' /\ VoucherStep
    BY VouchersStay DEF VoidRefund, Inv
<1>3. PaysOK'
    BY DEF VoidRefund, Inv, PaysOK, PaymentRecord
<1>4. BooksOK'
    BY DEF VoidRefund, Inv, BooksOK
<1>5. RestOK'
    BY DEF VoidRefund, Inv, RestOK
<1> QED
    BY <1>1, <1>2, <1>3, <1>4, <1>5 DEF Inv

\* The event is recorded.
LEMMA VoidRecordOK ==
    ASSUME Inv, NEW h \in Handlers, VoidRecord(h)
    PROVE  Inv' /\ VoucherStep
<1>1. RequestsOK'
    BY EndOK DEF VoidRecord, Inv
<1>2. VouchersOK' /\ VoucherStep
    BY VouchersStay DEF VoidRecord, Inv
<1>3. PaysOK'
    BY DEF VoidRecord, Inv, PaysOK
<1>4. BooksOK'
    <2>1. req[h].v \in Vouchers /\ -req[h].amount \in Int
        BY HeldOK, BoundsAreNat DEF VoidRecord, At, Request, RequestOK, VoidPcs, Amounts
    <2> QED
        BY <2>1, RecordOK DEF VoidRecord, Inv, BooksOK
<1>5. RestOK'
    BY DEF VoidRecord, Inv, RestOK
<1> QED
    BY <1>1, <1>2, <1>3, <1>4, <1>5 DEF Inv

-----------------------------------------------------------------------------
(* The statements that fail *)

LEMMA PcIs ==
    ASSUME Inv, NEW h \in Handlers, NEW pc \in Pcs
    PROVE  /\ [req[h] EXCEPT !.pc = pc] \in Request
           /\ Goto(h, [req[h] EXCEPT !.pc = pc]) <=> Step(h, pc)
BY HeldOK DEF Request, Pcs, Step

LEMMA NextDueIs ==
    ASSUME NEW r \in Request
    PROVE  /\ NextDue(r) \in Request
           /\ NextDue(r).pc = "book" /\ NextDue(r).op = r.op /\ NextDue(r).v = r.v /\ NextDue(r).p = r.p
           /\ NextDue(r).amount = r.amount /\ NextDue(r).seen = r.seen
           /\ NextDue(r).todo = r.todo \ {r.cur}
BY DEF NextDue, Request

\* What a request becomes when a statement fails.
LEMMA FailingIs ==
    ASSUME Inv, NEW h \in Handlers, Failing(h)
    PROVE  /\ \E r \in Request : RequestOK(r) /\ Goto(h, r)
           /\ UNCHANGED <<voucher, due, books>>
           /\ faults' = faults \/ \E kind : Fault(kind)
           /\ hist' = hist \/ \E what \in Happenings : Happens(what)
<1>0. req[h] \in Request /\ RequestOK(req[h])
    BY HeldOK
<1> DEFINE Done == /\ \E r \in Request : RequestOK(r) /\ Goto(h, r)
                   /\ UNCHANGED <<voucher, due, books>>
                   /\ faults' = faults \/ \E kind : Fault(kind)
                   /\ hist' = hist \/ \E what \in Happenings : Happens(what)
<1>s. ASSUME NEW r \in Request, RequestOK(r), NEW what \in Happenings, Slip(h, r, what) PROVE Done
    BY <1>s DEF Slip
<1>r. ASSUME NEW r \in Request, RequestOK(r), NEW kind, Refused(h, r, kind) PROVE Done
    BY <1>r DEF Refused
<1>k. {"unbooked", "rebooked", "undone", "kept", "unearned", "unspent", "overbooked", "unlogged",
       "unissued", "unlinked", "unrefunded"} \subseteq Happenings
    BY DEF Happenings, ValueSlips, BookSlips
<1> SUFFICES Done
    OBVIOUS
<1> HIDE DEF Done
<1>u. CASE UnissueFails(h)
    BY <1>u, <1>k, IdleOK DEF Done, UnissueFails, End
<1>1. CASE IssueRecordFails(h) \/ UnpayFails(h) \/ VoidUpdateFails(h) \/ VoidRecordFails(h)
    BY <1>1, <1>s, <1>k, IdleOK DEF IssueRecordFails, UnpayFails, VoidUpdateFails, VoidRecordFails
<1>2. CASE IssueCashFails(h) \/ IssueLinkFails(h)
    <2>1. ASSUME NEW pc \in {"link", "issued"}, req[h].pc \in {"cash", "link"}
          PROVE  [req[h] EXCEPT !.pc = pc] \in Request /\ RequestOK([req[h] EXCEPT !.pc = pc])
        BY <1>0, <2>1 DEF Request, RequestOK, IssuePcs, RedeemPcs, VoidPcs
    <2> QED
        BY <1>2, <1>s, <1>k, <2>1 DEF IssueCashFails, IssueLinkFails, At
<1>3. CASE VoidCashFails(h) \/ VoidRefundFails(h)
    <2>1. ASSUME NEW pc \in {"void", "voided"}, req[h].pc \in VoidPcs
          PROVE  [req[h] EXCEPT !.pc = pc] \in Request /\ RequestOK([req[h] EXCEPT !.pc = pc])
        BY <1>0, <2>1 DEF Request, RequestOK, IssuePcs, RedeemPcs, VoidPcs
    <2> QED
        BY <1>3, <1>s, <1>k, <2>1 DEF VoidCashFails, VoidRefundFails, At, VoidPcs
<1>4. CASE RedeemReadFails(h) \/ RedeemUpdateFails(h) \/ RedeemRecordFails(h) \/ RedeemReloadFails(h)
    <2>1. ASSUME NEW pc \in {"unpay", "reload"}, req[h].pc \in RedeemPcs
          PROVE  [req[h] EXCEPT !.pc = pc] \in Request /\ RequestOK([req[h] EXCEPT !.pc = pc])
        BY <1>0, <2>1 DEF Request, RequestOK, IssuePcs, RedeemPcs, VoidPcs
    <2> QED
        BY <1>4, <1>s, <1>r, <1>k, <2>1
        DEF RedeemReadFails, RedeemUpdateFails, RedeemRecordFails, RedeemReloadFails, At, RedeemPcs
<1>5. CASE ExpireSelectFails(h)
    <2>1. req[h].pc = "due" /\ Refused(h, [req[h] EXCEPT !.pc = "book", !.todo = {}], "readfails")
        BY <1>5 DEF ExpireSelectFails, At
    <2>2. /\ [req[h] EXCEPT !.pc = "book", !.todo = {}] \in Request
          /\ RequestOK([req[h] EXCEPT !.pc = "book", !.todo = {}])
        BY <1>0, <2>1 DEF Request, RequestOK, IssuePcs, RedeemPcs, VoidPcs
    <2> QED
        BY <1>r, <2>1, <2>2
<1>6. CASE ExpireBookFails(h)
    <2>1. PICK v \in req[h].todo : Slip(h, [req[h] EXCEPT !.pc = "expire", !.cur = v], "unbooked")
        BY <1>6 DEF ExpireBookFails
    <2>2. v \in Vouchers /\ req[h].pc = "book"
        BY <1>0, <1>6 DEF Request, ExpireBookFails, At
    <2>3. /\ [req[h] EXCEPT !.pc = "expire", !.cur = v] \in Request
          /\ RequestOK([req[h] EXCEPT !.pc = "expire", !.cur = v])
        BY <1>0, <2>2 DEF Request, RequestOK, IssuePcs, RedeemPcs, VoidPcs
    <2> QED
        BY <1>s, <1>k, <2>1, <2>3
<1>7. CASE ExpireUpdateFails(h) \/ ExpireRecordFails(h)
    <2>1. req[h].pc \in {"expire", "expired"}
        BY <1>7 DEF ExpireUpdateFails, ExpireRecordFails, At
    <2>2. NextDue(req[h]) \in Request /\ RequestOK(NextDue(req[h]))
        BY <1>0, <2>1 DEF NextDue, Request, RequestOK, IssuePcs, RedeemPcs, VoidPcs
    <2> QED
        BY <1>7, <1>s, <1>k, <2>2 DEF ExpireUpdateFails, ExpireRecordFails
<1> QED
    BY <1>u, <1>1, <1>2, <1>3, <1>4, <1>5, <1>6, <1>7 DEF Failing

LEMMA FailingOK ==
    ASSUME Inv, NEW h \in Handlers, Failing(h)
    PROVE  Inv' /\ VoucherStep
<1>1. UNCHANGED <<voucher, due, books>>
    BY FailingIs
<1>2. RequestsOK'
    BY FailingIs, GotoOK DEF Inv
<1>3. faults' \in 0 .. MaxFaults
    BY FailingIs, FaultOK DEF Inv, RestOK
<1>4. hist' \subseteq Happenings
    BY FailingIs DEF Inv, RestOK, Happens
<1>5. VouchersOK' /\ VoucherStep
    BY <1>1, VouchersStay DEF Inv
<1>6. PaysOK' /\ BooksOK' /\ due' \subseteq Vouchers
    BY <1>1 DEF Inv, PaysOK, BooksOK, RestOK, books
<1> QED
    BY <1>2, <1>3, <1>4, <1>5, <1>6 DEF Inv, RestOK

\* A request breaks off.
LEMMA VanishOK ==
    ASSUME Inv, NEW h \in Handlers, Vanish(h)
    PROVE  Inv' /\ VoucherStep
<1>1. RequestsOK'
    BY EndOK DEF Vanish, Inv
<1>2. VouchersOK' /\ VoucherStep
    BY VouchersStay DEF Vanish, Inv
<1>3. PaysOK'
    BY DEF Vanish, Inv, PaysOK, books
<1>4. BooksOK'
    BY DEF Vanish, Inv, BooksOK, books
<1>5. RestOK'
    BY FaultOK DEF Vanish, Inv, RestOK, Happens, Happenings, ValueSlips, BookSlips
<1> QED
    BY <1>1, <1>2, <1>3, <1>4, <1>5 DEF Inv

\* A voucher falls due.
LEMMA DueOK ==
    ASSUME Inv, NEW v \in Vouchers, Due(v)
    PROVE  Inv' /\ VoucherStep
<1> QED
    BY VouchersStay DEF Due, Inv, RequestsOK, PaysOK, BooksOK, RestOK, books

-----------------------------------------------------------------------------
(* The invariant, and the theorems *)

LEMMA InitOK == Init => Inv
<1> SUFFICES ASSUME Init PROVE Inv
    OBVIOUS
<1>1. RequestsOK
    BY IdleOK DEF Init, RequestsOK
<1>2. VouchersOK
    BY ZeroOK DEF Init, VouchersOK, VoucherRecord, ActiveWhileFilled
<1>3. PaysOK
    BY ZeroOK DEF Init, PaysOK, PaymentRecord
<1>4. BooksOK /\ RestOK
    BY BoundsAreNat DEF Init, BooksOK, RestOK, Zero, Happenings
<1> QED
    BY <1>1, <1>2, <1>3, <1>4 DEF Inv

LEMMA NextOK ==
    ASSUME Inv, [Next]_vars
    PROVE  Inv' /\ VoucherStep
<1>1. ASSUME NEW h \in Handlers, Issuing(h) PROVE Inv' /\ VoucherStep
    BY <1>1, IssueOK, IssuePaymentOK, UnissueOK, IssueCashOK, IssueLinkOK, IssueRecordOK DEF Issuing
<1>2. ASSUME NEW h \in Handlers, Expiring(h) PROVE Inv' /\ VoucherStep
    BY <1>2, LookOK, ExpireSelectOK, ExpireBookOK, ExpireUpdateOK, ExpireRecordOK, ExpireDoneOK
    DEF Expiring
<1>3. ASSUME NEW h \in Handlers, Redeeming(h) PROVE Inv' /\ VoucherStep
    BY <1>3, RedeemOK, RedeemRowsOK, RedeemReadOK, RedeemUpdateOK, RedeemRecordOK,
       RedeemReloadOK, UnpayOK
    DEF Redeeming
<1>4. ASSUME NEW h \in Handlers, Voiding(h) PROVE Inv' /\ VoucherStep
    BY <1>4, VoidOK, VoidCashOK, VoidUpdateOK, VoidRefundOK, VoidRecordOK DEF Voiding
<1>5. CASE UNCHANGED vars
    BY <1>5, VouchersStay DEF vars, books, Inv, RequestsOK, PaysOK, BooksOK, RestOK
<1> QED
    BY <1>1, <1>2, <1>3, <1>4, <1>5, FailingOK, VanishOK, DueOK DEF Next

\* The invariant holds in every behaviour.
THEOREM Invariance == Spec => []Inv
<1>1. Inv /\ [Next]_vars => Inv'
    BY NextOK
<1> QED
    BY <1>1, InitOK, PTL DEF Spec

\* The tables, the books and what every request holds have their types.
THEOREM TypeCorrect == Spec => []TypeOK
BY Invariance, InvTypes, PTL

\* A voucher is active exactly while there is something on it, although the
\* balance and the status are computed from what was read before (nextStatus in
\* applyGiftVoucherRedemption, the updates of void and expiry).
THEOREM ActiveIsFilled == Spec => []ActiveWhileFilled
BY Invariance, InvTypes, PTL

\* However many redemptions, voids and expiries interleave and break off, no
\* balance ever rises.
THEOREM BalanceNeverRises == Spec => NeverRises
<1>1. Inv /\ [Next]_vars =>
          [\A v \in Vouchers : voucher[v].st # "none" => voucher'[v].balance <= voucher[v].balance]_vars
    BY NextOK DEF VoucherStep
<1> QED
    BY <1>1, Invariance, PTL DEF Spec, NeverRises

\* A voucher that was redeemed, voided or expired stays so.
THEOREM EndedStaysEnded == Spec => FinalStays
<1>1. Inv /\ [Next]_vars =>
          [\A v \in Vouchers : voucher[v].st \in Final =>
              voucher'[v].st \in {voucher[v].st, "gone"}]_vars
    BY NextOK DEF VoucherStep
<1> QED
    BY <1>1, Invariance, PTL DEF Spec, FinalStays

-----------------------------------------------------------------------------
(* What is in the hands of the requests *)

\* A redemption whose payment is there and whose balance is not yet reduced.
BeforeUpdate == {"rows", "due", "book", "expire", "expired", "read", "update", "unpay"}
Taking(r) == r.op = "redeem" /\ r.pc \in BeforeUpdate
Held(p) == \E h \in Handlers : Taking(req[h]) /\ req[h].p = p

\* The payments that were taken off the balance, and their cents.
Spent(v) == {p \in Redeems(v) : ~ Held(p)}
Used(v) == Cardinality(Cents(Spent(v)))

\* Every redemption has a payment of its own.
Hands ==
    /\ \A h \in Handlers : req[h].op = "redeem" =>
          pays[req[h].p] = [st |-> "redeem", v |-> req[h].v, amount |-> req[h].amount]
    /\ \A g, h \in Handlers : req[g].op = "redeem" /\ req[h].op = "redeem" /\ g # h =>
          req[g].p # req[h].p
    /\ \A v \in Vouchers : IsFiniteSet(Redeems(v))

\* What is to be taken off is booked before, as much as there is at least.
Reads(r) ==
    /\ r.pc \in {"book", "expire", "expired"} =>
          \A v \in r.todo : voucher[v].st # "none" /\ voucher[v].balance <= r.seen[v]
    /\ r.pc \in {"expire", "expired"} => r.cur \in r.todo
    /\ r.pc = "expire" /\ "unbooked" \notin hist => booked[r.cur] >= r.seen[r.cur]
    /\ r.pc \in {"vcash", "void"} =>
          voucher[r.v].st # "none" /\ voucher[r.v].balance <= r.amount
    /\ r.pc = "void" /\ "unspent" \notin hist => cash[r.v].expense >= r.amount

Taken(v) == voucher[v].initial - voucher[v].balance
Backed(v) ==
    /\ voucher[v].st \in {"active", "redeemed"} => Taken(v) <= Used(v)
    /\ voucher[v].st \in {"expired", "voided"} => Taken(v) <= Used(v) + booked[v] + cash[v].expense
BackedInv ==
    /\ Hands
    /\ \A h \in Handlers : Reads(req[h])
    /\ hist \cap {"unbooked", "unspent", "undone"} = {} => \A v \in Vouchers : Backed(v)

-----------------------------------------------------------------------------
(* One at a time *)

Alone == \A g, h \in Handlers : req[g] # Idle /\ req[h] # Idle => g = h

\* By how much the books are ahead of the voucher, for the request at hand.
InJournal(r, v) ==
    IF r.pc \in {"cash", "link", "issued"} /\ r.v = v THEN - r.amount
    ELSE IF r.pc = "expired" /\ r.cur = v THEN r.seen[v]
    ELSE IF r.pc \in {"redeemed", "refund", "voided"} /\ r.v = v THEN r.amount
    ELSE 0
InCash(r, v) == IF r.pc \in {"cash", "void", "refund"} /\ r.v = v THEN r.amount ELSE 0
InBooked(r, v) ==
    IF r.pc = "expire" /\ r.cur = v THEN r.seen[v]
    ELSE IF r.pc = "refund" /\ r.v = v THEN - r.amount
    ELSE 0

\* No payment sold the voucher and nothing is in its books.
Unsold(v) ==
    /\ \A p \in Payments : pays[p].v = v => pays[p].st = "deleted"
    /\ booked[v] = 0 /\ journal[v] = 0
    /\ cash[v].income = 0 /\ cash[v].expense = 0

Sale(p, v) == p \in Payments /\ pays[p].v = v /\ pays[p].st = "issue"
SoldOnce(v) ==
    \A p, q \in Payments : pays[p].v = v /\ pays[p].st \in {"issue", "refunded"}
                              /\ pays[q].v = v /\ pays[q].st \in {"issue", "refunded"} => p = q

Story(r, v) ==
    /\ Sold(v) # Refunded(v) /\ SoldOnce(v)
    /\ hist \subseteq BookSlips =>
          voucher[v].initial + InBooked(r, v) = voucher[v].balance + Used(v) + booked[v]
                                                  + (IF Refunded(v) THEN voucher[v].initial ELSE 0)
    /\ hist \subseteq ValueSlips =>
          /\ journal[v] = voucher[v].balance + InJournal(r, v)
          /\ cash[v].income - cash[v].expense + InCash(r, v) = IF Sold(v) THEN voucher[v].initial ELSE 0
    /\ voucher[v].st = "active" /\ ~ (r.pc \in {"cash", "link"} /\ r.v = v) => Sale(voucher[v].issue, v)

\* Being issued, and not sold yet.
New(r, v) == r.pc \in {"payment", "unissue"} /\ r.v = v

Tale(r, v) ==
    /\ voucher[v].st = "none" \/ New(r, v) => Unsold(v)
    /\ voucher[v].st = "gone" => ~ Sold(v) /\ journal[v] = 0 /\ cash[v].income = cash[v].expense
    /\ voucher[v].st \in {"active"} \cup Final /\ ~ New(r, v) => Story(r, v)

Local(r) ==
    /\ r.pc \in {"payment", "unissue", "cash", "link", "issued"} =>
          voucher[r.v].st = "active" /\ voucher[r.v].initial = r.amount /\ voucher[r.v].balance = r.amount
    /\ r.pc \in {"cash", "link", "issued"} => Sale(r.p, r.v)
    /\ r.pc \in {"book", "expire", "expired"} => \A v \in r.todo : voucher[v].st \in {"active", "expired"}
    /\ r.pc \in {"book", "expire"} => \A v \in r.todo : voucher[v].st = "active" /\ voucher[v].balance = r.seen[v]
    /\ r.pc = "expired" => \A v \in r.todo \ {r.cur} : voucher[v].st = "active" /\ voucher[v].balance = r.seen[v]
    /\ r.pc = "expired" => voucher[r.cur].st = "expired"
    /\ r.pc = "update" => StillRead(r)
    /\ r.pc = "redeemed" => voucher[r.v].st \in {"active", "redeemed"}
    /\ r.pc \in {"vcash", "void"} =>
          /\ voucher[r.v].st = "active" /\ voucher[r.v].balance = r.amount
          /\ voucher[r.v].initial = r.amount
    /\ r.pc \in {"vcash", "void", "refund"} => Sale(r.p, r.v)
    /\ r.pc \in {"refund", "voided"} => voucher[r.v].st = "voided" /\ voucher[r.v].initial = r.amount

\* Only the statements were passed over that ValueKept or BooksAgree do not mind.
Calm == hist \subseteq ValueSlips \cup BookSlips

SerialInv ==
    Calm =>
        /\ Alone
        /\ Quiet => \A v \in Vouchers : Tale(Idle, v)
        /\ \A h \in Handlers : req[h] # Idle => Local(req[h]) /\ \A v \in Vouchers : Tale(req[h], v)

-----------------------------------------------------------------------------
(* Counting what was redeemed *)

LEMMA ReqIs ==
    ASSUME Inv, NEW h \in Handlers, NEW r \in Request, Goto(h, r)
    PROVE  req'[h] = r /\ \A g \in Handlers : g # h => req'[g] = req[g]
BY DEF Inv, RequestsOK, Goto

\* The cents of finitely many payments are finitely many.
LEMMA CentsFinite ==
    ASSUME NEW ps, IsFiniteSet(ps)
    PROVE  IsFiniteSet(Cents(ps)) /\ Cardinality(Cents(ps)) \in Nat
<1>1. 1 \in Int /\ MaxAmount \in Int
    BY BoundsAreNat
<1> DEFINE T == 1 .. MaxAmount
<1>2. IsFiniteSet(T)
    BY <1>1, FS_Interval
<1> HIDE DEF T
<1>3. IsFiniteSet(ps \X T)
    BY <1>2, FS_Product
<1>4. Cents(ps) \in SUBSET (ps \X T)
    BY DEF Cents, T
<1>5. IsFiniteSet(Cents(ps))
    BY <1>3, <1>4, FS_Subset
<1> QED
    BY <1>5, FS_CardinalityType

LEMMA SpentFinite ==
    ASSUME Hands, NEW v \in Vouchers
    PROVE  IsFiniteSet(Spent(v)) /\ Used(v) \in Nat
<1>1. IsFiniteSet(Redeems(v))
    BY DEF Hands
<1>2. Spent(v) \in SUBSET Redeems(v)
    BY DEF Spent
<1>3. IsFiniteSet(Spent(v))
    BY <1>1, <1>2, FS_Subset
<1> QED
    BY <1>3, CentsFinite DEF Used

\* Used is what was redeemed, but for what is in hands.
LEMMA UsedIsRedeemed ==
    ASSUME Hands, NEW v \in Vouchers
    PROVE  Redeemed(v) \in Nat /\ Used(v) <= Redeemed(v)
<1>1. IsFiniteSet(Redeems(v))
    BY DEF Hands
<1>2. IsFiniteSet(Cents(Redeems(v))) /\ Redeemed(v) \in Nat
    BY <1>1, CentsFinite DEF Redeemed
<1>3. Cents(Spent(v)) \in SUBSET Cents(Redeems(v))
    BY DEF Spent, Cents
<1>4. Cardinality(Cents(Spent(v))) <= Cardinality(Cents(Redeems(v)))
    BY <1>2, <1>3, FS_Subset
<1> QED
    BY <1>2, <1>4 DEF Used, Redeemed

LEMMA UsedNext ==
    ASSUME Hands', NEW v \in Vouchers
    PROVE  IsFiniteSet(Cents(Spent(v))') /\ Used(v)' \in Nat
<1>1. IsFiniteSet(Spent(v)')
    <2>1. IsFiniteSet(Redeems(v)')
        BY DEF Hands
    <2>2. Spent(v)' \in SUBSET Redeems(v)'
        BY DEF Spent
    <2> QED
        BY <2>1, <2>2, FS_Subset
<1>2. IsFiniteSet(Cents(Spent(v))')
    <2>1. 1 \in Int /\ MaxAmount \in Int
        BY BoundsAreNat
    <2> DEFINE T == 1 .. MaxAmount
               S == Spent(v)'
    <2>2. IsFiniteSet(T)
        BY <2>1, FS_Interval
    <2>3. IsFiniteSet(S)
        BY <1>1
    <2> HIDE DEF T, S
    <2>4. IsFiniteSet(S \X T)
        BY <2>2, <2>3, FS_Product
    <2>5. Cents(Spent(v))' \in SUBSET (S \X T)
        BY DEF Cents, T, S
    <2> QED
        BY <2>4, <2>5, FS_Subset
<1> DEFINE B == Cents(Spent(v))'
<1> HIDE DEF B
<1>3. Cardinality(B) \in Nat
    BY <1>2, FS_CardinalityType DEF B
<1> QED
    BY <1>2, <1>3 DEF B, Used

\* Payments that were used stay so: nothing of it is lost.
LEMMA UsedGrows ==
    ASSUME Hands, Hands', NEW v \in Vouchers,
           \A p \in Spent(v) : p \in Spent(v)' /\ pays'[p].amount = pays[p].amount
    PROVE  Used(v) <= Used(v)'
<1>2. IsFiniteSet(Cents(Spent(v))')
    BY UsedNext
<1>3. Cents(Spent(v)) \in SUBSET (Cents(Spent(v))')
    <2>1. ASSUME NEW c \in Cents(Spent(v)) PROVE c \in Cents(Spent(v))'
        <3>1. c \in Spent(v) \X (1 .. MaxAmount) /\ c[2] <= pays[c[1]].amount
            BY DEF Cents
        <3>2. c[1] \in Spent(v)
            BY <3>1
        <3>3. c \in Spent(v)' \X (1 .. MaxAmount)
            BY <3>1, <3>2
        <3>4. c[2] <= pays'[c[1]].amount
            BY <3>1, <3>2
        <3> QED
            BY <3>3, <3>4 DEF Cents
    <2> QED
        BY <2>1
<1> DEFINE A == Cents(Spent(v))
           B == Cents(Spent(v))'
<1> HIDE DEF A, B
<1>4. Cardinality(A) <= Cardinality(B)
    BY <1>2, <1>3, FS_Subset DEF A, B
<1> QED
    BY <1>4 DEF A, B, Used

LEMMA UsedSame ==
    ASSUME NEW v \in Vouchers,
           \A p : p \in Spent(v)' <=> p \in Spent(v),
           \A p \in Spent(v) : pays'[p].amount = pays[p].amount
    PROVE  Used(v)' = Used(v)
<1>1. ASSUME NEW c PROVE c \in Cents(Spent(v))' <=> c \in Cents(Spent(v))
    <2>1. c \in Cents(Spent(v))' <=> c \in Spent(v)' \X (1 .. MaxAmount) /\ c[2] <= pays'[c[1]].amount
        BY DEF Cents
    <2>2. c \in Cents(Spent(v)) <=> c \in Spent(v) \X (1 .. MaxAmount) /\ c[2] <= pays[c[1]].amount
        BY DEF Cents
    <2>3. Spent(v)' = Spent(v)
        OBVIOUS
    <2>4. c \in Spent(v) \X (1 .. MaxAmount) => c[1] \in Spent(v)
        OBVIOUS
    <2> QED
        BY <2>1, <2>2, <2>3, <2>4
<1>2. Cents(Spent(v))' = Cents(Spent(v))
    <2> DEFINE A == Cents(Spent(v))
               B == Cents(Spent(v))'
    <2>1. \A c : c \in B <=> c \in A
        BY <1>1
    <2> HIDE DEF A, B
    <2>2. A = B
        BY <2>1
    <2> QED
        BY <2>2 DEF A, B
<1> QED
    BY <1>2 DEF Used

LEMMA BlockSize ==
    ASSUME NEW p, NEW n \in Nat
    PROVE  IsFiniteSet({p} \X (1 .. n)) /\ Cardinality({p} \X (1 .. n)) = n
<1>1. IsFiniteSet({p}) /\ Cardinality({p}) = 1
    BY FS_Singleton
<1>2. IsFiniteSet(1 .. n) /\ Cardinality(1 .. n) = n
    BY FS_Interval
<1> DEFINE P == {p}
           T == 1 .. n
<1> HIDE DEF P, T
<1>3. IsFiniteSet(P \X T) /\ Cardinality(P \X T) = 1 * n
    BY <1>1, <1>2, FS_Product DEF P, T
<1> QED
    BY <1>3 DEF P, T

\* A redemption that has reduced the balance counts from now on.
LEMMA UsedMore ==
    ASSUME Hands, NEW v \in Vouchers, NEW p, p \notin Spent(v),
           \A q : q \in Spent(v)' <=> q \in Spent(v) \/ q = p,
           \A q \in Spent(v) : pays'[q].amount = pays[q].amount,
           pays'[p].amount \in Amounts
    PROVE  Used(v)' = Used(v) + pays'[p].amount
<1> DEFINE a == pays'[p].amount
           A == Cents(Spent(v))
           B == {p} \X (1 .. a)
           C == Cents(Spent(v))'
<1>0. a \in Nat /\ a <= MaxAmount
    BY BoundsAreNat DEF Amounts
<1>1. IsFiniteSet(A)
    BY SpentFinite, CentsFinite
<1>2. IsFiniteSet(B) /\ Cardinality(B) = a
    BY <1>0, BlockSize
<1>3. ASSUME NEW c PROVE c \in C <=> c \in A \/ c \in B
    <2>1. c \in C <=> c \in Spent(v)' \X (1 .. MaxAmount) /\ c[2] <= pays'[c[1]].amount
        BY DEF Cents
    <2>2. c \in A <=> c \in Spent(v) \X (1 .. MaxAmount) /\ c[2] <= pays[c[1]].amount
        BY DEF Cents
    <2>3. c \in Spent(v)' \X (1 .. MaxAmount) <=>
              c \in Spent(v) \X (1 .. MaxAmount) \/ c \in {p} \X (1 .. MaxAmount)
        <3>1. Spent(v)' = Spent(v) \cup {p}
            OBVIOUS
        <3> QED
            BY <3>1
    <2>4. c \in Spent(v) \X (1 .. MaxAmount) => c[1] \in Spent(v)
        OBVIOUS
    <2>5. c \in {p} \X (1 .. MaxAmount) /\ c[2] <= a <=> c \in B
        BY <1>0, BoundsAreNat
    <2>6. c \in {p} \X (1 .. MaxAmount) => c[1] = p
        OBVIOUS
    <2> QED
        BY <2>1, <2>2, <2>3, <2>4, <2>5, <2>6
<1>4. \A c \in B : c \notin A
    BY DEF Cents
<1> HIDE DEF A, B, C
<1>5. C = A \cup B
    BY <1>3
<1>6. A \cap B = {}
    BY <1>4
<1>7. Cardinality(A \cap B) = 0
    BY <1>6, FS_EmptySet
<1>8. Cardinality(A) \in Nat
    BY <1>1, FS_CardinalityType
<1>9. Cardinality(A \cup B) = Cardinality(A) + Cardinality(B) - Cardinality(A \cap B)
    BY <1>1, <1>2, FS_Union
<1>10. Cardinality(C) = Cardinality(A) + a
    BY <1>0, <1>2, <1>5, <1>7, <1>8, <1>9
<1> QED
    BY <1>10 DEF A, C, Used

-----------------------------------------------------------------------------
(* What is in hands, and what only grows *)

LEMMA HeldIs ==
    ASSUME Inv, NEW h \in Handlers, NEW r \in Request, Goto(h, r), NEW p
    PROVE  /\ Held(p) <=> \/ Taking(req[h]) /\ req[h].p = p
                          \/ \E g \in Handlers : g # h /\ Taking(req[g]) /\ req[g].p = p
           /\ Held(p)' <=> \/ Taking(r) /\ r.p = p
                           \/ \E g \in Handlers : g # h /\ Taking(req[g]) /\ req[g].p = p
<1>1. req'[h] = r /\ \A g \in Handlers : g # h => req'[g] = req[g]
    BY ReqIs
<1>2. Held(p)' <=> \E g \in Handlers : Taking(req'[g]) /\ req'[g].p = p
    BY DEF Held, Taking
<1>3. ASSUME NEW g \in Handlers, g # h
      PROVE  Taking(req'[g]) /\ req'[g].p = p <=> Taking(req[g]) /\ req[g].p = p
    BY <1>1, <1>3 DEF Taking
<1>4. Taking(req'[h]) /\ req'[h].p = p <=> Taking(r) /\ r.p = p
    BY <1>1 DEF Taking
<1> QED
    BY <1>2, <1>3, <1>4 DEF Held

\* The books and the history grow, and no voucher comes back.
Grows ==
    /\ \A v \in Vouchers : booked[v] <= booked'[v] /\ cash[v].expense <= cash'[v].expense
    /\ \A v \in Vouchers : voucher[v].st # "none" =>
          voucher'[v].st # "none" /\ voucher'[v].balance <= voucher[v].balance
    /\ hist \subseteq hist'

LEMMA BookTypes ==
    ASSUME Inv, NEW v \in Vouchers
    PROVE  /\ booked[v] \in Nat /\ cash[v].expense \in Nat /\ cash[v].income \in Nat
           /\ journal[v] \in Int /\ voucher[v].initial \in Nat /\ voucher[v].balance \in Nat
<1>1. voucher[v].initial \in Amounts /\ voucher[v].balance \in Amounts
    BY DEF Inv, VouchersOK, VoucherRecord
<1> QED
    BY <1>1, BoundsAreNat DEF Inv, BooksOK, Amounts

LEMMA BooksGrow ==
    ASSUME Inv, [Next]_vars
    PROVE  \A v \in Vouchers : booked[v] <= booked'[v] /\ cash[v].expense <= cash'[v].expense
<1>s. ASSUME booked' = booked, cash' = cash
      PROVE  \A v \in Vouchers : booked[v] <= booked'[v] /\ cash[v].expense <= cash'[v].expense
    BY <1>s, BookTypes
<1>1. ASSUME NEW h \in Handlers, IssueCash(h) PROVE booked' = booked /\ \A v \in Vouchers : cash'[v].expense = cash[v].expense
    BY <1>1 DEF IssueCash, Inv, BooksOK
<1>2. ASSUME NEW h \in Handlers, VoidCash(h)
      PROVE  \A v \in Vouchers : booked[v] <= booked'[v] /\ cash[v].expense <= cash'[v].expense
    <2>1. req[h].amount \in Nat
        BY HeldOK
    <2>2. ASSUME NEW v \in Vouchers
          PROVE  cash'[v].expense \in {cash[v].expense, cash[v].expense + req[h].amount}
        BY <1>2, <2>1 DEF VoidCash, Inv, BooksOK
    <2>3. booked' = booked
        BY <1>2 DEF VoidCash
    <2> QED
        BY <2>1, <2>2, <2>3, BookTypes
<1>3. ASSUME NEW h \in Handlers, ExpireBook(h)
      PROVE  \A v \in Vouchers : booked[v] <= booked'[v] /\ cash[v].expense <= cash'[v].expense
    <2>1. PICK w \in req[h].todo : booked' = [booked EXCEPT ![w] = @ + req[h].seen[w]]
        BY <1>3 DEF ExpireBook
    <2>2. w \in Vouchers /\ req[h].seen[w] \in Nat
        BY HeldOK, BoundsAreNat DEF Request, Amounts
    <2>3. \A v \in Vouchers : booked'[v] \in {booked[v], booked[v] + req[h].seen[w]}
        BY <2>1, <2>2 DEF Inv, BooksOK
    <2>4. cash' = cash
        BY <1>3 DEF ExpireBook
    <2> QED
        BY <2>2, <2>3, <2>4, BookTypes
<1>4. ASSUME NEW h \in Handlers, Issuing(h)
      PROVE  \A v \in Vouchers : booked[v] <= booked'[v] /\ cash[v].expense <= cash'[v].expense
    <2>1. CASE IssueCash(h)
        BY <1>1, <2>1, BookTypes
    <2>2. CASE ~ IssueCash(h)
        <3>1. booked' = booked /\ cash' = cash
            BY <1>4, <2>2 DEF Issuing, Issue, IssuePayment, Unissue, IssueLink, IssueRecord, books
        <3> QED
            BY <3>1, <1>s
    <2> QED
        BY <2>1, <2>2
<1>5. ASSUME NEW h \in Handlers, Expiring(h)
      PROVE  \A v \in Vouchers : booked[v] <= booked'[v] /\ cash[v].expense <= cash'[v].expense
    <2>2. CASE ~ ExpireBook(h)
        <3>1. booked' = booked /\ cash' = cash
            BY <1>5, <2>2 DEF Expiring, Look, ExpireSelect, ExpireUpdate, ExpireRecord, ExpireDone, books
        <3> QED
            BY <3>1, <1>s
    <2> QED
        BY <1>3, <2>2
<1>6. ASSUME NEW h \in Handlers, Redeeming(h) PROVE booked' = booked /\ cash' = cash
    BY <1>6 DEF Redeeming, Redeem, RedeemRows, RedeemRead, RedeemUpdate, RedeemRecord, RedeemReload, Unpay, books
<1>7. ASSUME NEW h \in Handlers, Voiding(h)
      PROVE  \A v \in Vouchers : booked[v] <= booked'[v] /\ cash[v].expense <= cash'[v].expense
    <2>2. CASE ~ VoidCash(h)
        <3>1. booked' = booked /\ cash' = cash
            BY <1>7, <2>2 DEF Voiding, Void, VoidUpdate, VoidRefund, VoidRecord, books
        <3> QED
            BY <3>1, <1>s
    <2> QED
        BY <1>2, <2>2
<1>8. ASSUME (\E h \in Handlers : Failing(h) \/ Vanish(h)) \/ (\E v \in Vouchers : Due(v)) \/ UNCHANGED vars
      PROVE  booked' = booked /\ cash' = cash
    BY <1>8, FailingIs DEF Vanish, Due, vars, books
<1> QED
    BY <1>s, <1>4, <1>5, <1>6, <1>7, <1>8 DEF Next

\* What has a status keeps one.
LEMMA StatusStays ==
    ASSUME Inv, [Next]_vars, NEW v \in Vouchers, voucher[v].st # "none"
    PROVE  voucher'[v].st # "none"
<1>s. ASSUME voucher' = voucher PROVE voucher'[v].st # "none"
    BY <1>s
<1>t. ASSUME NEW w, NEW st, NEW b, Set(w, st, b), st # "none" PROVE voucher'[v].st # "none"
    BY <1>t DEF Set, Inv, VouchersOK, VoucherRecord
<1>1. ASSUME NEW h \in Handlers, Issuing(h) PROVE voucher'[v].st # "none"
    <2>1. ASSUME NEW w \in Vouchers, NEW a \in Amounts \ {0}, Issue(h, w, a) PROVE voucher'[v].st # "none"
        BY <2>1 DEF Issue, Inv, VouchersOK, VoucherRecord
    <2>2. CASE IssueLink(h)
        BY <2>2 DEF IssueLink, Inv, VouchersOK, VoucherRecord
    <2>3. CASE Unissue(h)
        BY <2>3, <1>t DEF Unissue
    <2>4. CASE IssuePayment(h) \/ IssueCash(h) \/ IssueRecord(h)
        BY <2>4, <1>s DEF IssuePayment, IssueCash, IssueRecord
    <2> QED
        BY <1>1, <2>1, <2>2, <2>3, <2>4 DEF Issuing
<1>2. ASSUME NEW h \in Handlers, Expiring(h) PROVE voucher'[v].st # "none"
    <2>1. CASE ExpireUpdate(h)
        BY <2>1, <1>s, <1>t DEF ExpireUpdate
    <2> QED
        BY <1>2, <2>1, <1>s DEF Expiring, Look, ExpireSelect, ExpireBook, ExpireRecord, ExpireDone
<1>3. ASSUME NEW h \in Handlers, Redeeming(h) PROVE voucher'[v].st # "none"
    <2>1. CASE RedeemUpdate(h)
        <3>1. PICK b : voucher' = voucher \/ Set(req[h].v, StatusFor(b), b)
            BY <2>1 DEF RedeemUpdate
        <3>2. StatusFor(b) # "none"
            BY DEF StatusFor
        <3> QED
            BY <3>1, <3>2, <1>s, <1>t
    <2> QED
        BY <1>3, <2>1, <1>s DEF Redeeming, Redeem, RedeemRows, RedeemRead, RedeemRecord, RedeemReload, Unpay
<1>4. ASSUME NEW h \in Handlers, Voiding(h) PROVE voucher'[v].st # "none"
    <2>1. CASE VoidUpdate(h)
        BY <2>1, <1>s, <1>t DEF VoidUpdate
    <2> QED
        BY <1>4, <2>1, <1>s DEF Voiding, Void, VoidCash, VoidRefund, VoidRecord
<1>5. ASSUME (\E h \in Handlers : Failing(h) \/ Vanish(h)) \/ (\E w \in Vouchers : Due(w)) \/ UNCHANGED vars
      PROVE  voucher' = voucher
    BY <1>5, FailingIs DEF Vanish, Due, vars
<1> QED
    BY <1>s, <1>1, <1>2, <1>3, <1>4, <1>5 DEF Next

LEMMA HistGrows ==
    ASSUME Inv, [Next]_vars
    PROVE  hist \subseteq hist'
<1>1. ASSUME NEW h \in Handlers, NEW r, Begin(h, r) PROVE hist \subseteq hist'
    BY <1>1 DEF Begin, Happens
<1>2. ASSUME NEW h \in Handlers, Issuing(h) PROVE hist \subseteq hist'
    BY <1>1, <1>2 DEF Issuing, Issue, IssuePayment, Unissue, IssueCash, IssueLink, IssueRecord
<1>3. ASSUME NEW h \in Handlers, Expiring(h) PROVE hist \subseteq hist'
    BY <1>1, <1>3 DEF Expiring, Look, ExpireSelect, ExpireBook, ExpireUpdate, ExpireRecord, ExpireDone, Happens
<1>4. ASSUME NEW h \in Handlers, Redeeming(h) PROVE hist \subseteq hist'
    BY <1>1, <1>4 DEF Redeeming, Redeem, RedeemRows, RedeemRead, RedeemUpdate, RedeemRecord, RedeemReload,
       Unpay, Happens
<1>5. ASSUME NEW h \in Handlers, Voiding(h) PROVE hist \subseteq hist'
    BY <1>1, <1>5 DEF Voiding, Void, VoidCash, VoidUpdate, VoidRefund, VoidRecord
<1>6. ASSUME NEW h \in Handlers, Failing(h) PROVE hist \subseteq hist'
    BY <1>6, FailingIs DEF Happens
<1> QED
    BY <1>2, <1>3, <1>4, <1>5, <1>6 DEF Next, Vanish, Due, vars, Happens

LEMMA GrowsNext ==
    ASSUME Inv, [Next]_vars
    PROVE  Grows
BY BooksGrow, StatusStays, HistGrows, NextOK DEF Grows, VoucherStep

\* What a request relies on, another's step leaves.
LEMMA ReadsStay ==
    ASSUME Inv, Inv', Grows, NEW r \in Request, RequestOK(r), Reads(r)
    PROVE  Reads(r)'
<1>0. r.todo \subseteq Vouchers /\ \A v \in Vouchers : r.seen[v] \in Nat
    BY BoundsAreNat DEF Request, Amounts
<1>1. r.amount \in Nat
    BY BoundsAreNat DEF Request, Amounts
<1>b. \A v \in Vouchers : voucher[v].balance \in Nat /\ booked[v] \in Nat /\ cash[v].expense \in Nat
    BY BookTypes
<1>c. \A v \in Vouchers : voucher'[v].balance \in Nat /\ booked'[v] \in Nat /\ cash'[v].expense \in Nat
    BY BookTypes DEF Inv, VouchersOK, VoucherRecord, BooksOK, Amounts
<1>2. ASSUME r.pc \in {"book", "expire", "expired"}, NEW v \in r.todo
      PROVE  voucher'[v].st # "none" /\ voucher'[v].balance <= r.seen[v]
    <2>1. voucher[v].st # "none" /\ voucher[v].balance <= r.seen[v] /\ v \in Vouchers
        BY <1>0, <1>2 DEF Reads
    <2>2. voucher'[v].st # "none" /\ voucher'[v].balance <= voucher[v].balance
        BY <2>1 DEF Grows
    <2> QED
        BY <1>0, <1>b, <1>c, <2>1, <2>2
<1>3. ASSUME r.pc = "expire", "unbooked" \notin hist' PROVE booked'[r.cur] >= r.seen[r.cur]
    <2>1. r.cur \in Vouchers
        BY <1>3 DEF RequestOK
    <2>2. booked[r.cur] >= r.seen[r.cur] /\ booked[r.cur] <= booked'[r.cur]
        BY <1>3, <2>1 DEF Reads, Grows
    <2> QED
        BY <1>0, <1>b, <1>c, <2>1, <2>2
<1>4. ASSUME r.pc \in {"vcash", "void"} PROVE voucher'[r.v].st # "none" /\ voucher'[r.v].balance <= r.amount
    <2>1. r.v \in Vouchers
        BY <1>4 DEF RequestOK, VoidPcs
    <2>2. voucher[r.v].st # "none" /\ voucher[r.v].balance <= r.amount
        BY <1>4 DEF Reads
    <2>3. voucher'[r.v].st # "none" /\ voucher'[r.v].balance <= voucher[r.v].balance
        BY <2>1, <2>2 DEF Grows
    <2> QED
        BY <1>1, <1>b, <1>c, <2>1, <2>2, <2>3
<1>5. ASSUME r.pc = "void", "unspent" \notin hist' PROVE cash'[r.v].expense >= r.amount
    <2>1. r.v \in Vouchers
        BY <1>5 DEF RequestOK, VoidPcs
    <2>2. cash[r.v].expense >= r.amount /\ cash[r.v].expense <= cash'[r.v].expense
        BY <1>5, <2>1 DEF Reads, Grows
    <2> QED
        BY <1>1, <1>b, <1>c, <2>1, <2>2
<1>6. r.pc \in {"expire", "expired"} => r.cur \in r.todo
    BY DEF Reads
<1> QED
    BY <1>2, <1>3, <1>4, <1>5, <1>6 DEF Reads

-----------------------------------------------------------------------------
(* The balance is backed: most of the statements *)

Ignored == hist \cap {"unbooked", "unspent", "undone"} # {}

SameRedemption(r, q) ==
    r.op = "redeem" => q.op = "redeem" /\ r.p = q.p /\ r.v = q.v /\ r.amount = q.amount

\* What a statement that redeems nothing does to a voucher.
Kept(v) ==
    \/ /\ voucher'[v].st = voucher[v].st
       /\ voucher'[v].initial = voucher[v].initial /\ voucher'[v].balance = voucher[v].balance
    \/ voucher'[v].st = "gone"
    \/ voucher'[v].balance = voucher'[v].initial
    \/ /\ voucher[v].st = "active" /\ voucher'[v].st \in {"expired", "voided"}
       /\ voucher'[v].initial = voucher[v].initial /\ voucher'[v].balance = 0
       /\ voucher[v].balance <= booked[v] + cash[v].expense

OtherPays ==
    \A p \in Payments : pays'[p] = pays[p] \/ (pays[p].st # "redeem" /\ pays'[p].st # "redeem")

LEMMA HandsStay ==
    ASSUME Inv, Hands, NEW h \in Handlers, NEW r \in Request, Goto(h, r),
           SameRedemption(r, req[h]), OtherPays
    PROVE  Hands'
<1>1. req'[h] = r /\ \A g \in Handlers : g # h => req'[g] = req[g]
    BY ReqIs
<1>2. ASSUME NEW g \in Handlers, req'[g].op = "redeem"
      PROVE  /\ req[g].op = "redeem" /\ req'[g].p = req[g].p
             /\ req'[g].v = req[g].v /\ req'[g].amount = req[g].amount
    BY <1>1, <1>2 DEF SameRedemption
<1>3. ASSUME NEW g \in Handlers, req'[g].op = "redeem"
      PROVE  pays'[req'[g].p] = [st |-> "redeem", v |-> req'[g].v, amount |-> req'[g].amount]
    <2>1. req[g].op = "redeem" /\ req[g].p \in Payments
        BY <1>2, <1>3, HeldOK DEF RequestOK
    <2>2. pays[req[g].p] = [st |-> "redeem", v |-> req[g].v, amount |-> req[g].amount]
        BY <2>1 DEF Hands
    <2>3. pays[req[g].p].st = "redeem"
        BY <2>2
    <2>4. pays'[req[g].p] = pays[req[g].p]
        BY <2>1, <2>3 DEF OtherPays
    <2> QED
        BY <1>2, <1>3, <2>2, <2>4
<1>4. ASSUME NEW f \in Handlers, NEW g \in Handlers, req'[f].op = "redeem", req'[g].op = "redeem", f # g
      PROVE  req'[f].p # req'[g].p
    BY <1>2, <1>4 DEF Hands
<1>5. ASSUME NEW v \in Vouchers PROVE Redeems(v)' = Redeems(v)
    <2>1. \A p \in Payments : pays'[p].v = v /\ pays'[p].st = "redeem" <=> pays[p].v = v /\ pays[p].st = "redeem"
        BY DEF OtherPays
    <2> QED
        BY <2>1 DEF Redeems
<1>6. \A v \in Vouchers : IsFiniteSet(Redeems(v)')
    BY <1>5 DEF Hands
<1> QED
    BY <1>3, <1>4, <1>6 DEF Hands

LEMMA SpentIs ==
    ASSUME NEW v, NEW p
    PROVE  /\ p \in Spent(v) <=> p \in Payments /\ pays[p].v = v /\ pays[p].st = "redeem" /\ ~ Held(p)
           /\ p \in Spent(v)' <=> p \in Payments /\ pays'[p].v = v /\ pays'[p].st = "redeem" /\ ~ Held(p)'
BY DEF Spent, Redeems

LEMMA UsedStays ==
    ASSUME Inv, Hands, NEW h \in Handlers, NEW r \in Request, Goto(h, r),
           SameRedemption(r, req[h]), OtherPays, Taking(r) => Taking(req[h]), NEW v \in Vouchers
    PROVE  Used(v) <= Used(v)' /\ Used(v) \in Nat /\ Used(v)' \in Nat
<1>1. Hands'
    BY HandsStay
<1>2. ASSUME NEW p \in Spent(v) PROVE p \in Spent(v)' /\ pays'[p].amount = pays[p].amount
    <2>1. p \in Payments /\ pays[p].v = v /\ pays[p].st = "redeem" /\ ~ Held(p)
        BY SpentIs
    <2>2. pays'[p] = pays[p]
        BY <2>1 DEF OtherPays
    <2>3. Taking(r) => r.p = req[h].p
        BY DEF Taking, SameRedemption
    <2>4. ~ Held(p)'
        BY <2>1, <2>3, HeldIs
    <2> QED
        BY <2>1, <2>2, <2>4, SpentIs
<1>3. Used(v) <= Used(v)'
    BY <1>1, <1>2, UsedGrows
<1>4. Used(v) \in Nat
    BY SpentFinite
<1>5. Used(v)' \in Nat
    BY <1>1, UsedNext
<1> QED
    BY <1>3, <1>4, <1>5

LEMMA BackedStays ==
    ASSUME Inv, Inv', Grows, Hands, NEW v \in Vouchers, Backed(v), Kept(v),
           Used(v) \in Nat, Used(v)' \in Nat, Used(v) <= Used(v)'
    PROVE  Backed(v)'
<1>1. voucher[v].initial \in Nat /\ voucher[v].balance \in Nat /\ booked[v] \in Nat /\ cash[v].expense \in Nat
    BY BookTypes
<1>2. booked'[v] \in Nat /\ cash'[v].expense \in Nat
    BY DEF Inv, BooksOK
<1>3. voucher'[v].initial \in Nat /\ voucher'[v].balance \in Nat
    BY BoundsAreNat DEF Inv, VouchersOK, VoucherRecord, Amounts
<1>4. booked[v] <= booked'[v] /\ cash[v].expense <= cash'[v].expense
    BY DEF Grows
<1>5. CASE /\ voucher'[v].st = voucher[v].st
           /\ voucher'[v].initial = voucher[v].initial /\ voucher'[v].balance = voucher[v].balance
    <2>1. Taken(v)' = Taken(v) /\ Taken(v) \in Int
        BY <1>1, <1>5 DEF Taken
    <2> HIDE DEF Taken
    <2> QED
        BY <1>1, <1>2, <1>4, <1>5, <2>1 DEF Backed
<1>6. CASE voucher'[v].st = "gone"
    BY <1>6 DEF Backed
<1>7. CASE voucher'[v].balance = voucher'[v].initial
    BY <1>2, <1>3, <1>7 DEF Backed, Taken
<1>8. CASE /\ voucher[v].st = "active" /\ voucher'[v].st \in {"expired", "voided"}
           /\ voucher'[v].initial = voucher[v].initial /\ voucher'[v].balance = 0
           /\ voucher[v].balance <= booked[v] + cash[v].expense
    <2>1. voucher[v].initial - voucher[v].balance <= Used(v)
        BY <1>8 DEF Backed, Taken
    <2>2. Taken(v)' = voucher[v].initial
        BY <1>1, <1>8 DEF Taken
    <2>3. voucher[v].initial <= Used(v)' + booked'[v] + cash'[v].expense
        BY <1>1, <1>2, <1>4, <1>8, <2>1
    <2> QED
        BY <1>8, <2>2, <2>3 DEF Backed
<1> QED
    BY <1>5, <1>6, <1>7, <1>8 DEF Kept

\* The requests rely on what they did.
LEMMA ReadsKept ==
    ASSUME Inv, Inv', Grows, BackedInv, NEW h \in Handlers, NEW r \in Request, Goto(h, r), Reads(r)'
    PROVE  \A g \in Handlers : Reads(req[g])'
<1>1. req'[h] = r /\ \A g \in Handlers : g # h => req'[g] = req[g]
    BY ReqIs
<1>2. ASSUME NEW g \in Handlers PROVE Reads(req[g])'
    <2>1. CASE g = h
        BY <1>1, <2>1 DEF Reads
    <2>2. CASE g # h
        <3>1. PICK q \in Request : q = req[g]
            BY HeldOK
        <3>2. RequestOK(q)
            BY <3>1, HeldOK
        <3>3. Reads(q)
            BY <3>1 DEF BackedInv
        <3>4. Reads(q)'
            BY <3>2, <3>3, ReadsStay
        <3>5. req'[g] = q
            BY <1>1, <2>2, <3>1
        <3> QED
            BY <3>4, <3>5 DEF Reads
    <2> QED
        BY <2>1, <2>2
<1> QED
    BY <1>2

\* A statement that takes no balance and no payment of a redemption away.
LEMMA Backs ==
    ASSUME Inv, Inv', Grows, BackedInv, NEW h \in Handlers, NEW r \in Request, Goto(h, r),
           SameRedemption(r, req[h]), OtherPays, Reads(r)',
           ~ Ignored' => (Taking(r) => Taking(req[h])) /\ \A v \in Vouchers : Kept(v)
    PROVE  BackedInv'
<1>1. Hands /\ Hands'
    BY HandsStay DEF BackedInv
<1>2. \A g \in Handlers : Reads(req[g])'
    BY ReadsKept
<1>3. ASSUME ~ Ignored', NEW v \in Vouchers PROVE Backed(v)'
    <2>1. ~ Ignored
        BY <1>3 DEF Ignored, Grows
    <2>2. Backed(v)
        BY <2>1 DEF BackedInv, Ignored
    <2>3. Used(v) <= Used(v)' /\ Used(v) \in Nat /\ Used(v)' \in Nat
        BY <1>1, <1>3, UsedStays
    <2> QED
        BY <1>1, <1>3, <2>2, <2>3, BackedStays
<1> QED
    BY <1>1, <1>2, <1>3 DEF BackedInv, Ignored

LEMMA AllKept ==
    ASSUME UNCHANGED voucher
    PROVE  \A v \in Vouchers : Kept(v)
BY DEF Kept

LEMMA PaysKept ==
    ASSUME UNCHANGED pays
    PROVE  OtherPays
BY DEF OtherPays

\* A request that goes on and relies on nothing new.
RelyPcs == {"book", "expire", "expired", "vcash", "void"}

LEMMA NoReads ==
    ASSUME NEW r, r.pc \notin RelyPcs
    PROVE  Reads(r)'
BY DEF Reads, RelyPcs

LEMMA NoReadsIdle == Idle.pc \notin RelyPcs /\ ~ Taking(Idle) /\ Idle.op = "none"
BY DEF Idle, RelyPcs, Taking, BeforeUpdate

LEMMA StepIs ==
    ASSUME Inv, NEW h \in Handlers, NEW pc \in Pcs, Step(h, pc)
    PROVE  \E r \in Request :
              /\ Goto(h, r)
              /\ r.pc = pc /\ r.op = req[h].op /\ r.v = req[h].v /\ r.p = req[h].p
              /\ r.amount = req[h].amount /\ r.seen = req[h].seen /\ r.todo = req[h].todo
              /\ r.cur = req[h].cur
<1> DEFINE r == [req[h] EXCEPT !.pc = pc]
<1>1. Goto(h, r)
    BY DEF Step
<1>2. r \in Request
    BY HeldOK DEF Request, Pcs
<1>3. /\ r.pc = pc /\ r.op = req[h].op /\ r.v = req[h].v /\ r.p = req[h].p
      /\ r.amount = req[h].amount /\ r.seen = req[h].seen /\ r.todo = req[h].todo
      /\ r.cur = req[h].cur
    BY HeldOK DEF Request
<1> HIDE DEF r
<1> QED
    BY <1>1, <1>2, <1>3

LEMMA EndBacks ==
    ASSUME Inv, Inv', Grows, BackedInv, NEW h \in Handlers, End(h), OtherPays,
           ~ Ignored' => \A v \in Vouchers : Kept(v)
    PROVE  BackedInv'
<1>1. PICK r \in Request : r = Idle
    BY IdleOK
<1>2. Goto(h, r) /\ SameRedemption(r, req[h]) /\ ~ Taking(r) /\ Reads(r)'
    BY <1>1, NoReadsIdle, NoReads DEF End, SameRedemption
<1> QED
    BY <1>2, Backs

LEMMA StepBacks ==
    ASSUME Inv, Inv', Grows, BackedInv, NEW h \in Handlers, NEW pc \in Pcs \ RelyPcs, Step(h, pc),
           OtherPays,
           ~ Ignored' => /\ pc \in BeforeUpdate /\ req[h].op = "redeem" => req[h].pc \in BeforeUpdate
                         /\ \A v \in Vouchers : Kept(v)
    PROVE  BackedInv'
<1>1. PICK r \in Request :
              /\ Goto(h, r)
              /\ r.pc = pc /\ r.op = req[h].op /\ r.v = req[h].v /\ r.p = req[h].p
              /\ r.amount = req[h].amount
    BY StepIs
<1>2. SameRedemption(r, req[h]) /\ Reads(r)'
    BY <1>1, NoReads DEF SameRedemption
<1>3. ~ Ignored' => (Taking(r) => Taking(req[h])) /\ \A v \in Vouchers : Kept(v)
    BY <1>1 DEF Taking
<1> QED
    BY <1>1, <1>2, <1>3, Backs

-----------------------------------------------------------------------------
(* The steps of an issue *)

LEMMA IssueBacks ==
    ASSUME Inv, Inv', Grows, BackedInv, NEW h \in Handlers, NEW v \in Vouchers,
           NEW a \in Amounts \ {0}, Issue(h, v, a)
    PROVE  BackedInv'
<1>0. "issue" \in Ops
    BY DEF Issue, Begin, Idle
<1>1. PICK r \in Request : r = [Idle EXCEPT !.op = "issue", !.pc = "payment", !.v = v, !.amount = a]
    BY <1>0, IdleOK DEF Request
<1>2. r.op = "issue" /\ r.pc = "payment"
    BY <1>1 DEF Idle
<1>3. Goto(h, r)
    BY <1>1 DEF Issue, Begin
<1>4. SameRedemption(r, req[h]) /\ ~ Taking(r)
    BY <1>2 DEF SameRedemption, Taking
<1>5. Reads(r)'
    BY <1>2, NoReads DEF RelyPcs
<1>6. OtherPays
    BY PaysKept DEF Issue, books
<1>7. ASSUME NEW w \in Vouchers PROVE Kept(w)
    <2>1. voucher' = [voucher EXCEPT ![v] = [st |-> "active", initial |-> a, balance |-> a, issue |-> None]]
        BY DEF Issue
    <2>2. CASE w = v
        <3>1. voucher'[w].balance = a /\ voucher'[w].initial = a
            BY <2>1, <2>2 DEF Inv, VouchersOK
        <3> QED
            BY <3>1 DEF Kept
    <2>3. CASE w # v
        <3>1. voucher'[w] = voucher[w]
            BY <2>1, <2>3 DEF Inv, VouchersOK
        <3> QED
            BY <3>1 DEF Kept
    <2> QED
        BY <2>2, <2>3
<1> QED
    BY <1>3, <1>4, <1>5, <1>6, <1>7, Backs

LEMMA IssuePaymentBacks ==
    ASSUME Inv, Inv', Grows, BackedInv, NEW h \in Handlers, IssuePayment(h)
    PROVE  BackedInv'
<1>0. req[h].op = "issue"
    BY HeldOK DEF IssuePayment, At, RequestOK, IssuePcs
<1>k. \A v \in Vouchers : Kept(v)
    BY AllKept DEF IssuePayment
<1>1. CASE \E p \in Payments :
              /\ Insert(p, "issue", req[h].v, req[h].amount)
              /\ Goto(h, [req[h] EXCEPT !.pc = "cash", !.p = p])
    <2>1. PICK p \in Payments :
              /\ Insert(p, "issue", req[h].v, req[h].amount)
              /\ Goto(h, [req[h] EXCEPT !.pc = "cash", !.p = p])
        BY <1>1
    <2>2. PICK r \in Request : r = [req[h] EXCEPT !.pc = "cash", !.p = p]
        BY HeldOK DEF Request
    <2>3. r.op = "issue" /\ r.pc = "cash"
        BY <1>0, <2>2, HeldOK DEF Request
    <2>4. Goto(h, r)
        BY <2>1, <2>2
    <2>5. SameRedemption(r, req[h]) /\ ~ Taking(r)
        BY <2>3 DEF SameRedemption, Taking
    <2>6. Reads(r)'
        BY <2>3, NoReads DEF RelyPcs
    <2>7. OtherPays
        BY <2>1 DEF Insert, OtherPays, Inv, PaysOK
    <2> QED
        BY <1>k, <2>4, <2>5, <2>6, <2>7, Backs
<1>2. CASE Step(h, "unissue") /\ UNCHANGED pays
    <2>1. "unissue" \in Pcs \ RelyPcs
        BY DEF Pcs, RelyPcs
    <2> QED
        BY <1>0, <1>2, <1>k, <2>1, PaysKept, StepBacks
<1> QED
    BY <1>1, <1>2 DEF IssuePayment

LEMMA SetIs ==
    ASSUME Inv, NEW w \in Vouchers, NEW st, NEW b, Set(w, st, b), NEW v \in Vouchers
    PROVE  /\ v # w => voucher'[v] = voucher[v]
           /\ v = w => /\ voucher'[v].st = st /\ voucher'[v].balance = b
                       /\ voucher'[v].initial = voucher[v].initial
                       /\ voucher'[v].issue = voucher[v].issue
BY DEF Set, Inv, VouchersOK, VoucherRecord

LEMMA UnissueBacks ==
    ASSUME Inv, Inv', Grows, BackedInv, NEW h \in Handlers, Unissue(h)
    PROVE  BackedInv'
<1>1. req[h].v \in Vouchers
    BY HeldOK DEF Unissue, At, RequestOK, IssuePcs
<1>2. ASSUME NEW v \in Vouchers PROVE Kept(v)
    BY <1>1, SetIs DEF Unissue, Kept
<1> QED
    BY <1>2, PaysKept, EndBacks DEF Unissue

LEMMA IssueCashBacks ==
    ASSUME Inv, Inv', Grows, BackedInv, NEW h \in Handlers, IssueCash(h)
    PROVE  BackedInv'
<1>1. "link" \in Pcs \ RelyPcs /\ "link" \notin BeforeUpdate
    BY DEF Pcs, RelyPcs, BeforeUpdate
<1> QED
    BY <1>1, AllKept, PaysKept, StepBacks DEF IssueCash

LEMMA IssueLinkBacks ==
    ASSUME Inv, Inv', Grows, BackedInv, NEW h \in Handlers, IssueLink(h)
    PROVE  BackedInv'
<1>1. "issued" \in Pcs \ RelyPcs /\ "issued" \notin BeforeUpdate
    BY DEF Pcs, RelyPcs, BeforeUpdate
<1>2. ASSUME NEW v \in Vouchers PROVE Kept(v)
    BY DEF IssueLink, Kept, Inv, VouchersOK, VoucherRecord
<1>3. OtherPays
    BY PaysKept DEF IssueLink, books
<1> QED
    BY <1>1, <1>2, <1>3, StepBacks DEF IssueLink

LEMMA IssueRecordBacks ==
    ASSUME Inv, Inv', Grows, BackedInv, NEW h \in Handlers, IssueRecord(h)
    PROVE  BackedInv'
BY AllKept, PaysKept, EndBacks DEF IssueRecord

-----------------------------------------------------------------------------
(* The steps of an expiry *)

LEMMA LookBacks ==
    ASSUME Inv, Inv', Grows, BackedInv, NEW h \in Handlers, Look(h)
    PROVE  BackedInv'
<1>0. "look" \in Ops
    BY DEF Look, Begin, Idle
<1>1. PICK r \in Request : r = [Idle EXCEPT !.op = "look", !.pc = "due"]
    BY <1>0, IdleOK DEF Request
<1>2. r.op = "look" /\ r.pc = "due"
    BY <1>1 DEF Idle
<1>3. Goto(h, r)
    BY <1>1 DEF Look, Begin
<1>4. SameRedemption(r, req[h]) /\ ~ Taking(r)
    BY <1>2 DEF SameRedemption, Taking
<1>5. Reads(r)'
    BY <1>2, NoReads DEF RelyPcs
<1>6. OtherPays
    BY PaysKept DEF Look, books
<1>7. \A v \in Vouchers : Kept(v)
    BY AllKept DEF Look
<1> QED
    BY <1>3, <1>4, <1>5, <1>6, <1>7, Backs

LEMMA ExpireSelectBacks ==
    ASSUME Inv, Inv', Grows, BackedInv, NEW h \in Handlers, ExpireSelect(h)
    PROVE  BackedInv'
<1> DEFINE S == [v \in Vouchers |-> voucher[v].balance]
           T == {v \in due : voucher[v].st = "active" /\ voucher[v].balance > 0}
<1>0. S \in [Vouchers -> Amounts] /\ T \in SUBSET Vouchers
    BY BalanceOK DEF Inv, RestOK
<1>1. PICK r \in Request : r = [req[h] EXCEPT !.pc = "book", !.seen = S, !.todo = T]
    BY <1>0, HeldOK DEF Request
<1>2. Goto(h, r)
    BY <1>1 DEF ExpireSelect
<1>3. r.pc = "book" /\ r.op = req[h].op /\ r.v = req[h].v /\ r.p = req[h].p
      /\ r.amount = req[h].amount /\ r.seen = S /\ r.todo = T
    BY <1>1, HeldOK DEF Request
<1>4. SameRedemption(r, req[h]) /\ (Taking(r) => Taking(req[h]))
    BY <1>3 DEF SameRedemption, Taking, BeforeUpdate, ExpireSelect, At
<1>5. Reads(r)'
    <2>1. voucher' = voucher
        BY DEF ExpireSelect
    <2>2. ASSUME NEW v \in r.todo PROVE voucher'[v].st # "none" /\ voucher'[v].balance <= r.seen[v]
        <3>1. v \in Vouchers /\ voucher[v].st = "active" /\ r.seen[v] = voucher[v].balance
            BY <1>0, <1>3
        <3>2. voucher[v].balance \in Nat
            BY <3>1, BalanceOK
        <3> QED
            BY <2>1, <3>1, <3>2
    <2> QED
        BY <1>3, <2>2 DEF Reads
<1>6. OtherPays
    BY PaysKept DEF ExpireSelect, books
<1>7. \A v \in Vouchers : Kept(v)
    BY AllKept DEF ExpireSelect
<1> QED
    BY <1>2, <1>4, <1>5, <1>6, <1>7, Backs

LEMMA ExpireBookBacks ==
    ASSUME Inv, Inv', Grows, BackedInv, NEW h \in Handlers, ExpireBook(h)
    PROVE  BackedInv'
<1>0. PICK v \in req[h].todo :
          /\ booked' = [booked EXCEPT ![v] = @ + req[h].seen[v]]
          /\ Goto(h, [req[h] EXCEPT !.pc = "expire", !.cur = v])
    BY DEF ExpireBook
<1>a. v \in Vouchers /\ req[h].seen[v] \in Nat /\ booked[v] \in Nat
    BY HeldOK, BoundsAreNat, BookTypes DEF Request, Amounts
<1>1. PICK r \in Request : r = [req[h] EXCEPT !.pc = "expire", !.cur = v]
    BY <1>a, HeldOK DEF Request
<1>2. Goto(h, r)
    BY <1>0, <1>1
<1>3. r.pc = "expire" /\ r.op = req[h].op /\ r.v = req[h].v /\ r.p = req[h].p
      /\ r.amount = req[h].amount /\ r.seen = req[h].seen /\ r.todo = req[h].todo /\ r.cur = v
    BY <1>1, HeldOK DEF Request
<1>4. SameRedemption(r, req[h]) /\ (Taking(r) => Taking(req[h]))
    BY <1>3 DEF SameRedemption, Taking, BeforeUpdate, ExpireBook, At
<1>5. Reads(r)'
    <2>1. voucher' = voucher
        BY DEF ExpireBook
    <2>2. req[h].pc = "book" /\ Reads(req[h])
        BY DEF ExpireBook, At, BackedInv
    <2>3. \A w \in r.todo : voucher'[w].st # "none" /\ voucher'[w].balance <= r.seen[w]
        BY <1>3, <2>1, <2>2 DEF Reads
    <2>4. booked'[v] = booked[v] + req[h].seen[v]
        BY <1>0, <1>a DEF Inv, BooksOK
    <2>5. booked'[r.cur] >= r.seen[r.cur]
        BY <1>a, <1>3, <2>4
    <2> QED
        BY <1>3, <2>3, <2>5 DEF Reads
<1>6. OtherPays
    BY PaysKept DEF ExpireBook
<1>7. \A w \in Vouchers : Kept(w)
    BY AllKept DEF ExpireBook
<1> QED
    BY <1>2, <1>4, <1>5, <1>6, <1>7, Backs

LEMMA ExpireUpdateBacks ==
    ASSUME Inv, Inv', Grows, BackedInv, NEW h \in Handlers, ExpireUpdate(h)
    PROVE  BackedInv'
<1>0. req[h].pc = "expire" /\ Reads(req[h]) /\ req[h].cur \in Vouchers
    BY HeldOK DEF ExpireUpdate, At, BackedInv, RequestOK
<1>1. "expired" \in Pcs
    BY DEF Pcs
<1>2. PICK r \in Request :
          /\ Goto(h, r)
          /\ r.pc = "expired" /\ r.op = req[h].op /\ r.v = req[h].v /\ r.p = req[h].p
          /\ r.amount = req[h].amount /\ r.seen = req[h].seen /\ r.todo = req[h].todo
          /\ r.cur = req[h].cur
    BY <1>1, StepIs DEF ExpireUpdate
<1>4. SameRedemption(r, req[h]) /\ (Taking(r) => Taking(req[h]))
    BY <1>0, <1>2 DEF SameRedemption, Taking, BeforeUpdate
<1>a. \A v \in Vouchers : voucher[v].balance \in Nat /\ booked[v] \in Nat /\ cash[v].expense \in Nat
                            /\ req[h].seen[v] \in Nat
    BY BookTypes, HeldOK, BoundsAreNat DEF Request, Amounts
<1>5. Reads(r)'
    <2>1. ASSUME NEW v \in r.todo PROVE voucher'[v].st # "none" /\ voucher'[v].balance <= r.seen[v]
        <3>1. v \in Vouchers /\ voucher[v].st # "none" /\ voucher[v].balance <= req[h].seen[v]
            BY <1>0, <1>2 DEF Reads, Request
        <3>2. voucher'[v].st # "none" /\ voucher'[v].balance <= voucher[v].balance
            BY <3>1 DEF Grows
        <3>3. voucher'[v].balance \in Nat
            BY <3>1, BoundsAreNat DEF Inv, VouchersOK, VoucherRecord, Amounts
        <3> QED
            BY <1>2, <1>a, <3>1, <3>2, <3>3
    <2>2. r.cur \in r.todo
        BY <1>0, <1>2 DEF Reads
    <2> QED
        BY <1>2, <2>1, <2>2 DEF Reads
<1>6. OtherPays
    BY PaysKept DEF ExpireUpdate, books
<1>7. ASSUME ~ Ignored', NEW v \in Vouchers PROVE Kept(v)
    <2>1. CASE voucher[req[h].cur].st = "active" /\ Set(req[h].cur, "expired", 0)
        <3>1. "unbooked" \notin hist
            BY <1>7 DEF Ignored, Grows
        <3>2. booked[req[h].cur] >= req[h].seen[req[h].cur]
            BY <1>0, <3>1 DEF Reads
        <3>3. voucher[req[h].cur].balance <= req[h].seen[req[h].cur]
            BY <1>0 DEF Reads
        <3>4. voucher[req[h].cur].balance <= booked[req[h].cur] + cash[req[h].cur].expense
            BY <1>0, <1>a, <3>2, <3>3
        <3> QED
            BY <1>0, <2>1, <3>4, SetIs DEF Kept
    <2>2. CASE UNCHANGED voucher
        BY <2>2, AllKept
    <2> QED
        BY <2>1, <2>2 DEF ExpireUpdate
<1> QED
    BY <1>2, <1>4, <1>5, <1>6, <1>7, Backs

LEMMA ExpireRecordBacks ==
    ASSUME Inv, Inv', Grows, BackedInv, NEW h \in Handlers, ExpireRecord(h)
    PROVE  BackedInv'
<1>1. PICK r \in Request : r = NextDue(req[h])
    BY HeldOK, NextDueIs
<1>2. Goto(h, r)
    BY <1>1 DEF ExpireRecord
<1>3. r.pc = "book" /\ r.op = req[h].op /\ r.v = req[h].v /\ r.p = req[h].p
      /\ r.amount = req[h].amount /\ r.seen = req[h].seen /\ r.todo = req[h].todo \ {req[h].cur}
    BY <1>1, HeldOK, NextDueIs
<1>4. SameRedemption(r, req[h]) /\ (Taking(r) => Taking(req[h]))
    BY <1>3 DEF SameRedemption, Taking, BeforeUpdate, ExpireRecord, At
<1>5. Reads(r)'
    <2>1. voucher' = voucher
        BY DEF ExpireRecord
    <2>2. req[h].pc = "expired" /\ Reads(req[h])
        BY DEF ExpireRecord, At, BackedInv
    <2>3. \A w \in r.todo : voucher'[w].st # "none" /\ voucher'[w].balance <= r.seen[w]
        BY <1>3, <2>1, <2>2 DEF Reads
    <2> QED
        BY <1>3, <2>3 DEF Reads
<1>6. OtherPays
    BY PaysKept DEF ExpireRecord
<1>7. \A v \in Vouchers : Kept(v)
    BY AllKept DEF ExpireRecord
<1> QED
    BY <1>2, <1>4, <1>5, <1>6, <1>7, Backs

LEMMA ExpireDoneBacks ==
    ASSUME Inv, Inv', Grows, BackedInv, NEW h \in Handlers, ExpireDone(h)
    PROVE  BackedInv'
<1>1. OtherPays /\ \A v \in Vouchers : Kept(v)
    BY PaysKept, AllKept DEF ExpireDone, books
<1>2. CASE End(h)
    BY <1>1, <1>2, EndBacks
<1>3. CASE Step(h, "read")
    <2>1. "read" \in Pcs \ RelyPcs /\ req[h].pc \in BeforeUpdate
        BY DEF Pcs, RelyPcs, BeforeUpdate, ExpireDone, At
    <2> QED
        BY <1>1, <1>3, <2>1, StepBacks
<1> QED
    BY <1>2, <1>3 DEF ExpireDone

-----------------------------------------------------------------------------
(* The steps of a redemption *)

\* The statements whose effect on what is in hands is particular.
LEMMA BacksUsed ==
    ASSUME Inv, Inv', Grows, BackedInv, NEW h \in Handlers, NEW r \in Request, Goto(h, r),
           Hands', Reads(r)',
           \A v \in Vouchers : Backed(v) => Backed(v)'
    PROVE  BackedInv'
<1>1. \A g \in Handlers : Reads(req[g])'
    BY ReadsKept
<1>2. ~ Ignored' => ~ Ignored
    BY DEF Ignored, Grows
<1> QED
    BY <1>1, <1>2 DEF BackedInv, Ignored

\* A payment that is in hands at once uses nothing yet.
LEMMA RedeemUses ==
    ASSUME Inv, NEW h \in Handlers, NEW v \in Vouchers, NEW a \in Amounts \ {0}, Redeem(h, v, a)
    PROVE  \A w \in Vouchers : Used(w)' = Used(w)
<1>p. PICK p \in Payments :
          /\ Insert(p, "redeem", v, a)
          /\ Begin(h, [Idle EXCEPT !.op = "redeem", !.pc = "rows", !.v = v, !.p = p, !.amount = a])
    BY DEF Redeem
<1>0. "redeem" \in Ops /\ req[h] = Idle
    BY <1>p DEF Begin, Idle
<1>1. PICK r \in Request :
          r = [Idle EXCEPT !.op = "redeem", !.pc = "rows", !.v = v, !.p = p, !.amount = a]
    BY <1>0, IdleOK DEF Request
<1>2. r.op = "redeem" /\ r.pc = "rows" /\ r.v = v /\ r.p = p /\ r.amount = a
    BY <1>1 DEF Idle
<1>3. Goto(h, r)
    BY <1>p, <1>1 DEF Begin
<1>5. pays[p].st = "none"
    BY <1>p DEF Insert
<1>6. pays'[p] = [st |-> "redeem", v |-> v, amount |-> a] /\ \A q \in Payments : q # p => pays'[q] = pays[q]
    BY <1>p DEF Insert, Inv, PaysOK
<1>7. ~ Taking(req[h])
    BY <1>0, NoReadsIdle
<1>10. ASSUME NEW w \in Vouchers PROVE Used(w)' = Used(w)
    <2>1. ASSUME NEW q PROVE q \in Spent(w)' <=> q \in Spent(w)
        <3>1. CASE q = p
            <4>1. Held(p)'
                BY <1>2, <1>3, HeldIs DEF Taking, BeforeUpdate
            <4> QED
                BY <1>5, <3>1, <4>1, SpentIs
        <3>2. CASE q # p
            <4>1. Held(q)' <=> Held(q)
                BY <1>2, <1>3, <1>7, <3>2, HeldIs
            <4> QED
                BY <1>6, <3>2, <4>1, SpentIs
        <3> QED
            BY <3>1, <3>2
    <2>2. ASSUME NEW q \in Spent(w) PROVE pays'[q].amount = pays[q].amount
        BY <1>5, <1>6, SpentIs
    <2> QED
        BY <2>1, <2>2, UsedSame
<1> QED
    BY <1>10

LEMMA RedeemBacks ==
    ASSUME Inv, Inv', Grows, BackedInv, NEW h \in Handlers, NEW v \in Vouchers,
           NEW a \in Amounts \ {0}, Redeem(h, v, a)
    PROVE  BackedInv'
<1>p. PICK p \in Payments :
          /\ Insert(p, "redeem", v, a)
          /\ Begin(h, [Idle EXCEPT !.op = "redeem", !.pc = "rows", !.v = v, !.p = p, !.amount = a])
    BY DEF Redeem
<1>0. "redeem" \in Ops /\ req[h] = Idle
    BY <1>p DEF Begin, Idle
<1>1. PICK r \in Request :
          r = [Idle EXCEPT !.op = "redeem", !.pc = "rows", !.v = v, !.p = p, !.amount = a]
    BY <1>0, IdleOK DEF Request
<1>2. r.op = "redeem" /\ r.pc = "rows" /\ r.v = v /\ r.p = p /\ r.amount = a
    BY <1>1 DEF Idle
<1>3. Goto(h, r)
    BY <1>p, <1>1 DEF Begin
<1>4. req'[h] = r /\ \A g \in Handlers : g # h => req'[g] = req[g]
    BY <1>3, ReqIs
<1>5. pays[p].st = "none"
    BY <1>p DEF Insert
<1>6. pays'[p] = [st |-> "redeem", v |-> v, amount |-> a] /\ \A q \in Payments : q # p => pays'[q] = pays[q]
    BY <1>p DEF Insert, Inv, PaysOK
<1>h. Hands
    BY DEF BackedInv
<1>8. ASSUME NEW g \in Handlers, g # h, req[g].op = "redeem"
      PROVE  req[g].p # p /\ req[g].p \in Payments
             /\ pays[req[g].p] = [st |-> "redeem", v |-> req[g].v, amount |-> req[g].amount]
    <2>1. req[g].p \in Payments
        BY <1>8, HeldOK DEF RequestOK
    <2>2. pays[req[g].p] = [st |-> "redeem", v |-> req[g].v, amount |-> req[g].amount]
        BY <1>8, <1>h DEF Hands
    <2>3. pays[req[g].p].st = "redeem"
        BY <2>2
    <2> QED
        BY <1>5, <2>1, <2>2, <2>3
<1>9. Hands'
    <2>1. ASSUME NEW g \in Handlers, req'[g].op = "redeem"
          PROVE  pays'[req'[g].p] = [st |-> "redeem", v |-> req'[g].v, amount |-> req'[g].amount]
        <3>1. CASE g = h
            BY <1>2, <1>4, <1>6, <3>1
        <3>2. CASE g # h
            BY <1>4, <1>6, <1>8, <2>1, <3>2
        <3> QED
            BY <3>1, <3>2
    <2>2. ASSUME NEW f \in Handlers, NEW g \in Handlers, req'[f].op = "redeem", req'[g].op = "redeem", f # g
          PROVE  req'[f].p # req'[g].p
        <3>1. CASE f = h
            BY <1>2, <1>4, <1>8, <2>2, <3>1
        <3>2. CASE g = h
            BY <1>2, <1>4, <1>8, <2>2, <3>2
        <3>3. CASE f # h /\ g # h
            BY <1>4, <1>h, <2>2, <3>3 DEF Hands
        <3> QED
            BY <3>1, <3>2, <3>3
    <2>3. ASSUME NEW w \in Vouchers PROVE IsFiniteSet(Redeems(w)')
        <3> DEFINE S == Redeems(w)
                   T == Redeems(w)'
        <3>1. IsFiniteSet(S)
            BY <1>h DEF Hands
        <3>2. T \in SUBSET (S \cup {p})
            BY <1>6 DEF Redeems
        <3> HIDE DEF S, T
        <3>3. IsFiniteSet(S \cup {p})
            BY <3>1, FS_AddElement
        <3>4. IsFiniteSet(T)
            BY <3>2, <3>3, FS_Subset
        <3> QED
            BY <3>4 DEF T
    <2> QED
        BY <2>1, <2>2, <2>3 DEF Hands
<1>10. \A w \in Vouchers : Used(w)' = Used(w)
    BY RedeemUses
<1>11. Reads(r)'
    BY <1>2, NoReads DEF RelyPcs
<1>12. ASSUME NEW w \in Vouchers, Backed(w) PROVE Backed(w)'
    <2>1. Kept(w)
        BY AllKept DEF Redeem
    <2>2. Used(w) \in Nat
        BY <1>h, SpentFinite
    <2> QED
        BY <1>h, <1>10, <1>12, <2>1, <2>2, BackedStays
<1> QED
    BY <1>3, <1>9, <1>11, <1>12, BacksUsed

LEMMA RedeemRowsBacks ==
    ASSUME Inv, Inv', Grows, BackedInv, NEW h \in Handlers, RedeemRows(h)
    PROVE  BackedInv'
<1>1. OtherPays /\ \A v \in Vouchers : Kept(v)
    BY PaysKept, AllKept DEF RedeemRows, books
<1>2. "due" \in Pcs \ RelyPcs /\ "unpay" \in Pcs \ RelyPcs /\ req[h].pc \in BeforeUpdate
    BY DEF Pcs, RelyPcs, BeforeUpdate, RedeemRows, At
<1> QED
    BY <1>1, <1>2, StepBacks DEF RedeemRows

LEMMA RedeemReadBacks ==
    ASSUME Inv, Inv', Grows, BackedInv, NEW h \in Handlers, RedeemRead(h)
    PROVE  BackedInv'
<1>1. OtherPays /\ \A v \in Vouchers : Kept(v)
    BY PaysKept, AllKept DEF RedeemRead, books
<1>2. "unpay" \in Pcs \ RelyPcs /\ req[h].pc \in BeforeUpdate
    BY DEF Pcs, RelyPcs, BeforeUpdate, RedeemRead, At
<1>3. CASE Step(h, "unpay")
    BY <1>1, <1>2, <1>3, StepBacks
<1>4. CASE Goto(h, [req[h] EXCEPT !.pc = "update", !.seen[req[h].v] = voucher[req[h].v].balance])
    <2>1. req[h].v \in Vouchers
        BY HeldOK DEF RedeemRead, At, RequestOK, RedeemPcs
    <2>2. voucher[req[h].v].balance \in Amounts
        BY <2>1, BalanceOK
    <2> DEFINE s == [req[h].seen EXCEPT ![req[h].v] = voucher[req[h].v].balance]
    <2>3. s \in [Vouchers -> Amounts]
        BY <2>1, <2>2, HeldOK DEF Request
    <2>4. PICK r \in Request : r = [req[h] EXCEPT !.pc = "update", !.seen = s]
        BY <2>3, HeldOK DEF Request
    <2>5. Goto(h, r)
        BY <1>4, <2>4, HeldOK DEF Request
    <2>6. r.pc = "update" /\ r.op = req[h].op /\ r.v = req[h].v /\ r.p = req[h].p /\ r.amount = req[h].amount
        BY <2>4, HeldOK DEF Request
    <2>7. SameRedemption(r, req[h]) /\ (Taking(r) => Taking(req[h]))
        BY <1>2, <2>6 DEF SameRedemption, Taking
    <2>8. Reads(r)'
        BY <2>6, NoReads DEF RelyPcs
    <2> QED
        BY <1>1, <2>5, <2>7, <2>8, Backs
<1> QED
    BY <1>3, <1>4 DEF RedeemRead

\* What is reduced is used from now on.
LEMMA RedeemUpdateUses ==
    ASSUME Inv, Hands, NEW h \in Handlers, RedeemUpdate(h), NEW w \in Vouchers
    PROVE  /\ w = req[h].v => Used(w)' = Used(w) + req[h].amount
           /\ w # req[h].v => Used(w)' = Used(w)
<1>0. req[h].pc = "update" /\ req[h].op = "redeem" /\ req[h].v \in Vouchers /\ req[h].p \in Payments
      /\ req[h].amount \in Nat
    BY HeldOK DEF RedeemUpdate, At, RequestOK, RedeemPcs
<1>1. "redeemed" \in Pcs /\ "redeemed" \notin BeforeUpdate /\ "update" \in BeforeUpdate
    BY DEF Pcs, BeforeUpdate
<1>2. PICK r \in Request :
          /\ Goto(h, r)
          /\ r.pc = "redeemed" /\ r.op = req[h].op /\ r.v = req[h].v /\ r.p = req[h].p
          /\ r.amount = req[h].amount
    BY <1>1, StepIs DEF RedeemUpdate
<1>3. ~ Taking(r) /\ Taking(req[h])
    BY <1>0, <1>1, <1>2 DEF Taking
<1>p. pays' = pays
    BY DEF RedeemUpdate, books
<1>c. PICK p \in Payments, v \in Vouchers : p = req[h].p /\ v = req[h].v
    BY <1>0
<1>4. pays[p] = [st |-> "redeem", v |-> v, amount |-> req[h].amount]
    BY <1>0, <1>c DEF Hands
<1>5. pays[p].st = "redeem" /\ pays[p].v = v /\ pays[p].amount = req[h].amount
    BY <1>4
<1>6. Held(p) /\ ~ Held(p)'
    <2>1. ASSUME NEW g \in Handlers, g # h, Taking(req[g]) PROVE req[g].p # p
        BY <1>0, <1>c, <2>1 DEF Hands, Taking
    <2> QED
        BY <1>2, <1>3, <1>c, <2>1, HeldIs
<1>7. ASSUME NEW q, q # p PROVE Held(q)' <=> Held(q)
    BY <1>2, <1>3, <1>c, <1>7, HeldIs
<1>8. ASSUME w = v PROVE Used(w)' = Used(w) + req[h].amount
    <2>1. p \notin Spent(v)
        BY <1>6, SpentIs
    <2>2. ASSUME NEW q PROVE q \in Spent(v)' <=> q \in Spent(v) \/ q = p
        <3>1. CASE q = p
            BY <1>0, <1>5, <1>6, <1>p, <3>1, SpentIs
        <3>2. CASE q # p
            BY <1>7, <1>p, <3>2, SpentIs
        <3> QED
            BY <3>1, <3>2
    <2>3. pays'[p].amount \in Amounts /\ pays'[p].amount = req[h].amount
        BY <1>0, <1>5, <1>p, HeldOK DEF Request
    <2>4. \A q \in Spent(v) : pays'[q].amount = pays[q].amount
        BY <1>p
    <2>5. Used(v)' = Used(v) + pays'[p].amount
        BY <1>0, <2>1, <2>2, <2>3, <2>4, UsedMore
    <2> QED
        BY <1>8, <2>3, <2>5
<1>9. ASSUME w # v PROVE Used(w)' = Used(w)
    <2>1. ASSUME NEW q PROVE q \in Spent(w)' <=> q \in Spent(w)
        <3>1. CASE q = p
            BY <1>5, <1>9, <1>p, <3>1, SpentIs
        <3>2. CASE q # p
            BY <1>7, <1>p, <3>2, SpentIs
        <3> QED
            BY <3>1, <3>2
    <2>2. \A q \in Spent(w) : pays'[q].amount = pays[q].amount
        BY <1>p
    <2> QED
        BY <2>1, <2>2, UsedSame
<1> QED
    BY <1>8, <1>9, <1>c

LEMMA RedeemUpdateBacks ==
    ASSUME Inv, Inv', Grows, BackedInv, NEW h \in Handlers, RedeemUpdate(h)
    PROVE  BackedInv'
<1>0. req[h].pc = "update" /\ req[h].op = "redeem" /\ req[h].v \in Vouchers /\ req[h].p \in Payments
      /\ req[h].amount \in Nat
    BY HeldOK DEF RedeemUpdate, At, RequestOK, RedeemPcs
<1>1. "redeemed" \in Pcs \ RelyPcs /\ "redeemed" \notin BeforeUpdate /\ "update" \in BeforeUpdate
    BY DEF Pcs, RelyPcs, BeforeUpdate
<1>o. OtherPays
    BY PaysKept DEF RedeemUpdate, books
<1>2. CASE UNCHANGED voucher
    BY <1>1, <1>o, <1>2, AllKept, StepBacks DEF RedeemUpdate
<1>3. CASE StillRead(req[h])
             /\ Set(req[h].v, StatusFor(req[h].seen[req[h].v] - req[h].amount),
                    req[h].seen[req[h].v] - req[h].amount)
    <2>1. PICK r \in Request :
              /\ Goto(h, r)
              /\ r.pc = "redeemed" /\ r.op = req[h].op /\ r.v = req[h].v /\ r.p = req[h].p
              /\ r.amount = req[h].amount
        BY <1>1, StepIs DEF RedeemUpdate
    <2>2. SameRedemption(r, req[h]) /\ ~ Taking(r) /\ Taking(req[h]) /\ Reads(r)'
        BY <1>0, <1>1, <2>1, NoReads DEF SameRedemption, Taking
    <2>h. Hands
        BY DEF BackedInv
    <2>3. Hands'
        BY <1>o, <2>1, <2>2, <2>h, HandsStay
    <2>c. PICK v \in Vouchers : v = req[h].v
        BY <1>0
    <2>9. Used(v)' = Used(v) + req[h].amount
        BY <2>c, <2>h, RedeemUpdateUses
    <2>10. ASSUME NEW w \in Vouchers, Backed(w) PROVE Backed(w)'
        <3>1. CASE w = v
            <4>1. voucher[v].st = "active" /\ voucher[v].balance = req[h].seen[v]
                BY <1>3, <2>c DEF StillRead
            <4>2. /\ voucher'[v].balance = voucher[v].balance - req[h].amount
                  /\ voucher'[v].initial = voucher[v].initial
                  /\ voucher'[v].st = StatusFor(req[h].seen[v] - req[h].amount)
                BY <1>0, <1>3, <2>c, <4>1, SetIs
            <4>3. voucher'[v].st \in {"active", "redeemed"}
                BY <4>2 DEF StatusFor
            <4>4. Taken(v) <= Used(v)
                BY <2>10, <3>1, <4>1 DEF Backed
            <4>5. voucher[v].initial \in Nat /\ voucher[v].balance \in Nat /\ Used(v) \in Nat
                BY <1>0, <2>h, BookTypes, SpentFinite
            <4>6. Taken(v)' = Taken(v) + req[h].amount /\ Taken(v) \in Int
                BY <1>0, <4>2, <4>5 DEF Taken
            <4>7. Taken(v)' <= Used(v)'
                BY <1>0, <2>9, <4>4, <4>5, <4>6
            <4> QED
                BY <3>1, <4>3, <4>7 DEF Backed
        <3>2. CASE w # v
            <4>3. Used(w)' = Used(w) /\ Used(w) \in Nat
                BY <2>c, <2>h, <3>2, RedeemUpdateUses, SpentFinite
            <4>4. Kept(w)
                BY <1>0, <1>3, <2>c, <3>2, SetIs DEF Kept
            <4> QED
                BY <2>h, <2>10, <4>3, <4>4, BackedStays
        <3> QED
            BY <3>1, <3>2
    <2> QED
        BY <2>1, <2>2, <2>3, <2>10, BacksUsed
<1> QED
    BY <1>2, <1>3 DEF RedeemUpdate

LEMMA RedeemRecordBacks ==
    ASSUME Inv, Inv', Grows, BackedInv, NEW h \in Handlers, RedeemRecord(h)
    PROVE  BackedInv'
<1>1. "reload" \in Pcs \ RelyPcs /\ "reload" \notin BeforeUpdate
    BY DEF Pcs, RelyPcs, BeforeUpdate
<1> QED
    BY <1>1, AllKept, PaysKept, StepBacks DEF RedeemRecord

LEMMA RedeemReloadBacks ==
    ASSUME Inv, Inv', Grows, BackedInv, NEW h \in Handlers, RedeemReload(h)
    PROVE  BackedInv'
<1>1. OtherPays /\ \A v \in Vouchers : Kept(v)
    BY PaysKept, AllKept DEF RedeemReload, books
<1> QED
    BY <1>1, EndBacks DEF RedeemReload

\* A payment that is deleted was in hands.
LEMMA UnpayUses ==
    ASSUME Inv, NEW h \in Handlers, Unpay(h)
    PROVE  \A w \in Vouchers : Used(w)' = Used(w)
<1>0. req[h].pc = "unpay" /\ req[h].op = "redeem" /\ req[h].p \in Payments
    BY HeldOK DEF Unpay, At, RequestOK, RedeemPcs
<1>1. PICK r \in Request : r = Idle
    BY IdleOK
<1>2. Goto(h, r) /\ ~ Taking(r)
    BY <1>1, NoReadsIdle DEF Unpay, End
<1>3. Taking(req[h])
    BY <1>0 DEF Taking, BeforeUpdate
<1> DEFINE p == req[h].p
<1>5. pays'[p].st = "deleted" /\ \A q \in Payments : q # p => pays'[q] = pays[q]
    BY <1>0 DEF Unpay, Inv, PaysOK, PaymentRecord
<1>8. ASSUME NEW w \in Vouchers PROVE Used(w)' = Used(w)
    <2>1. ASSUME NEW q PROVE q \in Spent(w)' <=> q \in Spent(w)
        <3>1. CASE q = p
            <4>1. Held(p)
                BY <1>2, <1>3, HeldIs
            <4> QED
                BY <1>5, <3>1, <4>1, SpentIs
        <3>2. CASE q # p
            <4>1. Held(q)' <=> Held(q)
                BY <1>2, <3>2, HeldIs
            <4> QED
                BY <1>5, <3>2, <4>1, SpentIs
        <3> QED
            BY <3>1, <3>2
    <2>2. ASSUME NEW q \in Spent(w) PROVE pays'[q].amount = pays[q].amount
        BY DEF Unpay, Inv, PaysOK, PaymentRecord, Spent, Redeems
    <2> QED
        BY <2>1, <2>2, UsedSame
<1> QED
    BY <1>8

LEMMA UnpayBacks ==
    ASSUME Inv, Inv', Grows, BackedInv, NEW h \in Handlers, Unpay(h)
    PROVE  BackedInv'
<1>0. req[h].pc = "unpay" /\ req[h].op = "redeem" /\ req[h].p \in Payments
    BY HeldOK DEF Unpay, At, RequestOK, RedeemPcs
<1>1. PICK r \in Request : r = Idle
    BY IdleOK
<1>2. Goto(h, r) /\ ~ Taking(r) /\ Reads(r)' /\ r.op = "none"
    BY <1>1, NoReadsIdle, NoReads DEF Unpay, End
<1>4. req'[h] = r /\ \A g \in Handlers : g # h => req'[g] = req[g]
    BY <1>2, ReqIs
<1>h. Hands
    BY DEF BackedInv
<1> DEFINE p == req[h].p
<1>5. pays'[p].st = "deleted" /\ \A q \in Payments : q # p => pays'[q] = pays[q]
    BY <1>0 DEF Unpay, Inv, PaysOK, PaymentRecord
<1>6. ASSUME NEW g \in Handlers, g # h, req[g].op = "redeem" PROVE req[g].p # p /\ req[g].p \in Payments
    BY <1>0, <1>6, <1>h, HeldOK DEF Hands, RequestOK
<1>7. Hands'
    <2>1. ASSUME NEW g \in Handlers, req'[g].op = "redeem" PROVE g # h /\ req'[g] = req[g]
        BY <1>2, <1>4, <2>1
    <2>2. ASSUME NEW g \in Handlers, req'[g].op = "redeem"
          PROVE  pays'[req'[g].p] = [st |-> "redeem", v |-> req'[g].v, amount |-> req'[g].amount]
        <3>1. g # h /\ req'[g] = req[g] /\ req[g].op = "redeem"
            BY <2>1, <2>2
        <3>2. pays[req[g].p] = [st |-> "redeem", v |-> req[g].v, amount |-> req[g].amount]
            BY <1>h, <3>1 DEF Hands
        <3> QED
            BY <1>5, <1>6, <3>1, <3>2
    <2>3. ASSUME NEW f \in Handlers, NEW g \in Handlers, req'[f].op = "redeem", req'[g].op = "redeem", f # g
          PROVE  req'[f].p # req'[g].p
        BY <1>h, <2>1, <2>3 DEF Hands
    <2>4. ASSUME NEW w \in Vouchers PROVE IsFiniteSet(Redeems(w)')
        <3> DEFINE S == Redeems(w)
                   T == Redeems(w)'
        <3>1. IsFiniteSet(S)
            BY <1>h DEF Hands
        <3>2. T \in SUBSET S
            BY <1>5 DEF Redeems
        <3> HIDE DEF S, T
        <3>4. IsFiniteSet(T)
            BY <3>1, <3>2, FS_Subset
        <3> QED
            BY <3>4 DEF T
    <2> QED
        BY <2>2, <2>3, <2>4 DEF Hands
<1>8. \A w \in Vouchers : Used(w)' = Used(w)
    BY UnpayUses
<1>9. ASSUME NEW w \in Vouchers, Backed(w) PROVE Backed(w)'
    <2>1. Kept(w)
        BY AllKept DEF Unpay
    <2>2. Used(w) \in Nat
        BY <1>h, SpentFinite
    <2> QED
        BY <1>h, <1>8, <1>9, <2>1, <2>2, BackedStays
<1> QED
    BY <1>2, <1>7, <1>9, BacksUsed

-----------------------------------------------------------------------------
(* The steps of a void, and the invariant *)

LEMMA VoidBacks ==
    ASSUME Inv, Inv', Grows, BackedInv, NEW h \in Handlers, NEW v \in Vouchers, Void(h, v)
    PROVE  BackedInv'
<1>0. "void" \in Ops
    BY DEF Void, Begin, Idle
<1>a. voucher[v].issue \in Payments \cup {None} /\ voucher[v].balance \in Amounts /\ voucher[v].balance \in Nat
    BY BalanceOK DEF Inv, VouchersOK, VoucherRecord
<1>1. PICK r \in Request : r = [Idle EXCEPT !.op = "void", !.pc = "vcash", !.v = v, !.p = voucher[v].issue,
                                             !.amount = voucher[v].balance]
    BY <1>0, <1>a, IdleOK DEF Request
<1>2. r.op = "void" /\ r.pc = "vcash" /\ r.v = v /\ r.amount = voucher[v].balance
    BY <1>1 DEF Idle
<1>3. Goto(h, r)
    BY <1>1 DEF Void, Begin
<1>4. SameRedemption(r, req[h]) /\ ~ Taking(r)
    BY <1>2 DEF SameRedemption, Taking
<1>5. Reads(r)'
    <2>1. voucher' = voucher /\ voucher[v].st = "active"
        BY DEF Void, Untouched
    <2> QED
        BY <1>2, <1>a, <2>1 DEF Reads
<1>6. OtherPays
    BY PaysKept DEF Void, books
<1>7. \A w \in Vouchers : Kept(w)
    BY AllKept DEF Void
<1> QED
    BY <1>3, <1>4, <1>5, <1>6, <1>7, Backs

LEMMA VoidCashBacks ==
    ASSUME Inv, Inv', Grows, BackedInv, NEW h \in Handlers, VoidCash(h)
    PROVE  BackedInv'
<1>0. req[h].pc = "vcash" /\ req[h].op = "void" /\ req[h].v \in Vouchers /\ req[h].amount \in Nat /\ Reads(req[h])
    BY HeldOK DEF VoidCash, At, RequestOK, VoidPcs, BackedInv
<1>1. "void" \in Pcs
    BY DEF Pcs
<1>2. PICK r \in Request :
          /\ Goto(h, r)
          /\ r.pc = "void" /\ r.op = req[h].op /\ r.v = req[h].v /\ r.p = req[h].p
          /\ r.amount = req[h].amount
    BY <1>1, StepIs DEF VoidCash
<1>4. SameRedemption(r, req[h]) /\ ~ Taking(r)
    BY <1>0, <1>2 DEF SameRedemption, Taking
<1>5. Reads(r)'
    <2>1. voucher' = voucher
        BY DEF VoidCash
    <2>2. cash'[r.v].expense = cash[r.v].expense + r.amount
        BY <1>0, <1>2 DEF VoidCash, Inv, BooksOK
    <2>3. cash[r.v].expense \in Nat
        BY <1>0, <1>2, BookTypes
    <2>4. cash'[r.v].expense >= r.amount
        BY <1>0, <1>2, <2>2, <2>3
    <2>5. voucher[r.v].st # "none" /\ voucher[r.v].balance <= r.amount
        BY <1>0, <1>2 DEF Reads
    <2> QED
        BY <1>2, <2>1, <2>4, <2>5 DEF Reads
<1>6. OtherPays
    BY PaysKept DEF VoidCash
<1>7. \A v \in Vouchers : Kept(v)
    BY AllKept DEF VoidCash
<1> QED
    BY <1>2, <1>4, <1>5, <1>6, <1>7, Backs

LEMMA VoidUpdateBacks ==
    ASSUME Inv, Inv', Grows, BackedInv, NEW h \in Handlers, VoidUpdate(h)
    PROVE  BackedInv'
<1>0. req[h].pc = "void" /\ req[h].op = "void" /\ req[h].v \in Vouchers /\ req[h].amount \in Nat /\ Reads(req[h])
    BY HeldOK DEF VoidUpdate, At, RequestOK, VoidPcs, BackedInv
<1>1. "refund" \in Pcs \ RelyPcs /\ "refund" \notin BeforeUpdate
    BY DEF Pcs, RelyPcs, BeforeUpdate
<1>6. OtherPays
    BY PaysKept DEF VoidUpdate, books
<1>7. ASSUME ~ Ignored', NEW v \in Vouchers PROVE Kept(v)
    <2>1. CASE voucher[req[h].v].st = "active" /\ Set(req[h].v, "voided", 0)
        <3>0. "unspent" \notin hist
            BY <1>7 DEF Ignored, Grows
        <3>1. cash[req[h].v].expense >= req[h].amount /\ voucher[req[h].v].balance <= req[h].amount
            BY <1>0, <3>0 DEF Reads
        <3>2. voucher[req[h].v].balance <= booked[req[h].v] + cash[req[h].v].expense
            BY <1>0, <3>1, BookTypes
        <3> QED
            BY <1>0, <2>1, <3>2, SetIs DEF Kept
    <2>2. CASE UNCHANGED voucher
        BY <2>2, AllKept
    <2> QED
        BY <2>1, <2>2 DEF VoidUpdate
<1> QED
    BY <1>1, <1>6, <1>7, StepBacks DEF VoidUpdate

LEMMA VoidRefundBacks ==
    ASSUME Inv, Inv', Grows, BackedInv, NEW h \in Handlers, VoidRefund(h)
    PROVE  BackedInv'
<1>1. "voided" \in Pcs \ RelyPcs /\ "voided" \notin BeforeUpdate
    BY DEF Pcs, RelyPcs, BeforeUpdate
<1>2. OtherPays
    BY DEF VoidRefund, Refundable, OtherPays, Inv, PaysOK, PaymentRecord
<1>3. \A v \in Vouchers : Kept(v)
    BY AllKept DEF VoidRefund
<1> QED
    BY <1>1, <1>2, <1>3, StepBacks DEF VoidRefund

LEMMA VoidRecordBacks ==
    ASSUME Inv, Inv', Grows, BackedInv, NEW h \in Handlers, VoidRecord(h)
    PROVE  BackedInv'
BY AllKept, PaysKept, EndBacks DEF VoidRecord

\* A statement fails: only what the request relies on has to be looked at.
LEMMA FailsBacks ==
    ASSUME Inv, Inv', Grows, BackedInv, NEW h \in Handlers, Failing(h), NEW r \in Request, Goto(h, r),
           SameRedemption(r, req[h]), Reads(r)', ~ Ignored' => (Taking(r) => Taking(req[h]))
    PROVE  BackedInv'
<1>1. OtherPays /\ \A v \in Vouchers : Kept(v)
    BY FailingIs, PaysKept, AllKept DEF books
<1> QED
    BY <1>1, Backs

LEMMA FailingBacks ==
    ASSUME Inv, Inv', Grows, BackedInv, NEW h \in Handlers, Failing(h)
    PROVE  BackedInv'
<1>0. req[h] \in Request /\ RequestOK(req[h]) /\ Reads(req[h]) /\ voucher' = voucher /\ cash' = cash
    BY HeldOK, FailingIs DEF BackedInv, books
<1>1. ASSUME Goto(h, Idle) PROVE BackedInv'
    <2>1. PICK r \in Request : r = Idle
        BY IdleOK
    <2>2. SameRedemption(r, req[h]) /\ ~ Taking(r) /\ Reads(r)'
        BY <2>1, NoReadsIdle, NoReads DEF SameRedemption
    <2> QED
        BY <1>1, <2>1, <2>2, FailsBacks
<1>2. ASSUME NEW pc \in Pcs \ RelyPcs, Goto(h, [req[h] EXCEPT !.pc = pc]),
             ~ Ignored' /\ pc \in BeforeUpdate => req[h].pc \in BeforeUpdate
      PROVE  BackedInv'
    <2>1. PICK r \in Request : r = [req[h] EXCEPT !.pc = pc]
        BY PcIs
    <2>2. r.pc = pc /\ r.op = req[h].op /\ r.v = req[h].v /\ r.p = req[h].p /\ r.amount = req[h].amount
        BY <1>0, <2>1 DEF Request
    <2>3. SameRedemption(r, req[h]) /\ Reads(r)'
        BY <1>2, <2>2, NoReads DEF SameRedemption
    <2>4. ~ Ignored' => (Taking(r) => Taking(req[h]))
        BY <1>2, <2>2 DEF Taking
    <2> QED
        BY <1>2, <2>1, <2>3, <2>4, FailsBacks
<1>3. CASE UnissueFails(h) \/ IssueRecordFails(h) \/ UnpayFails(h) \/ VoidUpdateFails(h) \/ VoidRecordFails(h)
    BY <1>1, <1>3 DEF UnissueFails, IssueRecordFails, UnpayFails, VoidUpdateFails, VoidRecordFails, Slip, End
<1>4. CASE IssueCashFails(h) \/ IssueLinkFails(h) \/ RedeemRecordFails(h) \/ VoidRefundFails(h)
    <2>1. \A pc \in {"link", "issued", "reload", "voided"} : pc \in Pcs \ RelyPcs /\ pc \notin BeforeUpdate
        BY DEF Pcs, RelyPcs, BeforeUpdate
    <2> QED
        BY <1>2, <1>4, <2>1 DEF IssueCashFails, IssueLinkFails, RedeemRecordFails, VoidRefundFails, Slip
<1>5. CASE RedeemReadFails(h) \/ RedeemUpdateFails(h)
    <2>1. "unpay" \in Pcs \ RelyPcs /\ req[h].pc \in BeforeUpdate
        BY <1>5 DEF Pcs, RelyPcs, BeforeUpdate, RedeemReadFails, RedeemUpdateFails, At
    <2> QED
        BY <1>2, <1>5, <2>1 DEF RedeemReadFails, RedeemUpdateFails, Refused
<1>6. CASE RedeemReloadFails(h)
    <2>1. "unpay" \in Pcs \ RelyPcs
        BY DEF Pcs, RelyPcs
    <2>2. Slip(h, [req[h] EXCEPT !.pc = "unpay"], "undone")
        BY <1>6 DEF RedeemReloadFails
    <2>3. Ignored' /\ Goto(h, [req[h] EXCEPT !.pc = "unpay"])
        BY <2>2 DEF Slip, Happens, Ignored
    <2> QED
        BY <1>2, <2>1, <2>3
<1>7. CASE VoidCashFails(h)
    <2>1. req[h].pc = "vcash" /\ Slip(h, [req[h] EXCEPT !.pc = "void"], "unspent")
        BY <1>7 DEF VoidCashFails, At
    <2>2. "void" \in Pcs
        BY DEF Pcs
    <2>3. PICK r \in Request : r = [req[h] EXCEPT !.pc = "void"]
        BY <2>2, PcIs
    <2>4. r.pc = "void" /\ r.op = req[h].op /\ r.v = req[h].v /\ r.p = req[h].p /\ r.amount = req[h].amount
        BY <1>0, <2>3 DEF Request
    <2>5. SameRedemption(r, req[h]) /\ ~ Taking(r)
        BY <2>4 DEF SameRedemption, Taking, BeforeUpdate
    <2>6. "unspent" \in hist'
        BY <2>1 DEF Slip, Happens
    <2>7. voucher[r.v].st # "none" /\ voucher[r.v].balance <= r.amount
        BY <1>0, <2>1, <2>4 DEF Reads
    <2>8. Reads(r)'
        BY <1>0, <2>4, <2>6, <2>7 DEF Reads
    <2> QED
        BY <2>1, <2>3, <2>5, <2>8, FailsBacks DEF Slip
<1>8. CASE ExpireSelectFails(h)
    <2>1. req[h].pc = "due" /\ Goto(h, [req[h] EXCEPT !.pc = "book", !.todo = {}])
        BY <1>8 DEF ExpireSelectFails, Refused, At
    <2>2. PICK r \in Request : r = [req[h] EXCEPT !.pc = "book", !.todo = {}]
        BY <1>0 DEF Request
    <2>3. r.pc = "book" /\ r.op = req[h].op /\ r.v = req[h].v /\ r.p = req[h].p /\ r.amount = req[h].amount
          /\ r.todo = {}
        BY <1>0, <2>2 DEF Request
    <2>4. SameRedemption(r, req[h]) /\ (Taking(r) => Taking(req[h]))
        BY <2>1, <2>3 DEF SameRedemption, Taking, BeforeUpdate
    <2>5. Reads(r)'
        BY <2>3 DEF Reads
    <2> QED
        BY <2>1, <2>2, <2>4, <2>5, FailsBacks
<1>9. CASE ExpireBookFails(h)
    <2>1. PICK v \in req[h].todo : Slip(h, [req[h] EXCEPT !.pc = "expire", !.cur = v], "unbooked")
        BY <1>9 DEF ExpireBookFails
    <2>2. v \in Vouchers /\ req[h].pc = "book"
        BY <1>0, <1>9 DEF Request, ExpireBookFails, At
    <2>3. PICK r \in Request : r = [req[h] EXCEPT !.pc = "expire", !.cur = v]
        BY <1>0, <2>2 DEF Request
    <2>4. r.pc = "expire" /\ r.op = req[h].op /\ r.v = req[h].v /\ r.p = req[h].p /\ r.amount = req[h].amount
          /\ r.seen = req[h].seen /\ r.todo = req[h].todo /\ r.cur = v
        BY <1>0, <2>3 DEF Request
    <2>5. SameRedemption(r, req[h]) /\ (Taking(r) => Taking(req[h]))
        BY <2>2, <2>4 DEF SameRedemption, Taking, BeforeUpdate
    <2>6. "unbooked" \in hist'
        BY <2>1 DEF Slip, Happens
    <2>7. \A w \in r.todo : voucher[w].st # "none" /\ voucher[w].balance <= r.seen[w]
        BY <1>0, <2>2, <2>4 DEF Reads
    <2>8. Reads(r)'
        BY <1>0, <2>4, <2>6, <2>7 DEF Reads
    <2> QED
        BY <2>1, <2>3, <2>5, <2>8, FailsBacks DEF Slip
<1>10. CASE ExpireUpdateFails(h) \/ ExpireRecordFails(h)
    <2>1. req[h].pc \in {"expire", "expired"} /\ Goto(h, NextDue(req[h]))
        BY <1>10 DEF ExpireUpdateFails, ExpireRecordFails, At, Slip
    <2>2. PICK r \in Request : r = NextDue(req[h])
        BY <1>0, NextDueIs
    <2>3. r.pc = "book" /\ r.op = req[h].op /\ r.v = req[h].v /\ r.p = req[h].p
          /\ r.amount = req[h].amount /\ r.seen = req[h].seen /\ r.todo = req[h].todo \ {req[h].cur}
        BY <1>0, <2>2, NextDueIs
    <2>4. SameRedemption(r, req[h]) /\ (Taking(r) => Taking(req[h]))
        BY <2>1, <2>3 DEF SameRedemption, Taking, BeforeUpdate
    <2>5. \A w \in r.todo : voucher[w].st # "none" /\ voucher[w].balance <= r.seen[w]
        BY <1>0, <2>1, <2>3 DEF Reads
    <2>6. Reads(r)'
        BY <1>0, <2>3, <2>5 DEF Reads
    <2> QED
        BY <2>1, <2>2, <2>4, <2>6, FailsBacks
<1> QED
    BY <1>3, <1>4, <1>5, <1>6, <1>7, <1>8, <1>9, <1>10 DEF Failing

LEMMA VanishBacks ==
    ASSUME Inv, Inv', Grows, BackedInv, NEW h \in Handlers, Vanish(h)
    PROVE  BackedInv'
<1>1. OtherPays /\ \A v \in Vouchers : Kept(v)
    BY PaysKept, AllKept DEF Vanish, books
<1> QED
    BY <1>1, EndBacks DEF Vanish

LEMMA SameBacks ==
    ASSUME BackedInv, UNCHANGED <<voucher, books, req, hist>>
    PROVE  BackedInv'
BY DEF BackedInv, Hands, Reads, Backed, Taken, Used, Spent, Held, Taking, Redeems, Cents, books

LEMMA BackedInit == Init => BackedInv
<1> SUFFICES ASSUME Init PROVE BackedInv
    OBVIOUS
<1>1. \A h \in Handlers : req[h] = Idle
    BY DEF Init
<1>2. Idle.op = "none" /\ Idle.pc = "idle"
    BY DEF Idle
<1>3. \A v \in Vouchers : Redeems(v) = {}
    BY DEF Init, Redeems
<1>4. \A v \in Vouchers : IsFiniteSet(Redeems(v))
    BY <1>3, FS_EmptySet
<1>5. Hands
    BY <1>1, <1>2, <1>4 DEF Hands
<1>6. \A h \in Handlers : Reads(req[h])
    BY <1>1, <1>2 DEF Reads
<1>7. \A v \in Vouchers : voucher[v].st = "none"
    BY DEF Init
<1>8. \A v \in Vouchers : Backed(v)
    BY <1>7 DEF Backed
<1> QED
    BY <1>5, <1>6, <1>8 DEF BackedInv

LEMMA BackedNext ==
    ASSUME Inv, BackedInv, [Next]_vars
    PROVE  BackedInv'
<1>0. Inv' /\ Grows
    BY NextOK, GrowsNext
<1>1. ASSUME NEW h \in Handlers, Issuing(h) PROVE BackedInv'
    BY <1>0, <1>1, IssueBacks, IssuePaymentBacks, UnissueBacks, IssueCashBacks, IssueLinkBacks,
       IssueRecordBacks
    DEF Issuing
<1>2. ASSUME NEW h \in Handlers, Expiring(h) PROVE BackedInv'
    BY <1>0, <1>2, LookBacks, ExpireSelectBacks, ExpireBookBacks, ExpireUpdateBacks,
       ExpireRecordBacks, ExpireDoneBacks
    DEF Expiring
<1>3. ASSUME NEW h \in Handlers, Redeeming(h) PROVE BackedInv'
    BY <1>0, <1>3, RedeemBacks, RedeemRowsBacks, RedeemReadBacks, RedeemUpdateBacks,
       RedeemRecordBacks, RedeemReloadBacks, UnpayBacks
    DEF Redeeming
<1>4. ASSUME NEW h \in Handlers, Voiding(h) PROVE BackedInv'
    BY <1>0, <1>4, VoidBacks, VoidCashBacks, VoidUpdateBacks, VoidRefundBacks, VoidRecordBacks
    DEF Voiding
<1>5. ASSUME NEW v \in Vouchers, Due(v) PROVE BackedInv'
    BY <1>5, SameBacks DEF Due
<1>6. CASE UNCHANGED vars
    BY <1>6, SameBacks DEF vars, books
<1>7. ASSUME NEW h \in Handlers, Vanish(h) PROVE BackedInv'
    BY <1>0, <1>7, VanishBacks
<1>8. ASSUME NEW h \in Handlers, Failing(h) PROVE BackedInv'
    BY <1>0, <1>8, FailingBacks
<1> QED
    BY <1>1, <1>2, <1>3, <1>4, <1>5, <1>6, <1>7, <1>8 DEF Next

\* At every point of every request, what is gone from a voucher is backed by a
\* payment that no request still has in hand, or by a booking made before.
THEOREM AlwaysBacked == Spec => []BackedInv
<1>1. Inv /\ BackedInv /\ [Next]_vars => BackedInv'
    BY BackedNext
<1> QED
    BY <1>1, BackedInit, Invariance, PTL DEF Spec

LEMMA BackedKeeps == Inv /\ BackedInv => NothingVanishes
<1> SUFFICES ASSUME Inv, BackedInv, hist \cap {"unbooked", "unspent", "undone"} = {},
                    NEW v \in Vouchers, voucher[v].st \in {"active"} \cup Final
             PROVE  voucher[v].initial - voucher[v].balance <= Redeemed(v) + booked[v] + cash[v].expense
    BY DEF NothingVanishes
<1>1. Used(v) <= Redeemed(v) /\ Redeemed(v) \in Nat
    BY UsedIsRedeemed DEF BackedInv
<1>2. Used(v) \in Nat
    BY SpentFinite DEF BackedInv
<1>3. booked[v] \in Nat /\ cash[v].expense \in Nat /\ voucher[v].initial \in Nat /\ voucher[v].balance \in Nat
    BY BookTypes
<1>4. Backed(v)
    BY DEF BackedInv
<1>5. Taken(v) <= Used(v) \/ Taken(v) <= Used(v) + booked[v] + cash[v].expense
    BY <1>4 DEF Backed, Final
<1>6. Taken(v) = voucher[v].initial - voucher[v].balance /\ Taken(v) \in Int
    BY <1>3 DEF Taken
<1> QED
    BY <1>1, <1>2, <1>3, <1>5, <1>6

\* However redemptions, voids and expiries interleave, wherever they break off
\* and at whatever statements they fail, what is gone from a voucher was paid
\* with, booked as expired or paid out (the conditions of the updates, the
\* bookings that come before them), unless one of the three errors was passed
\* over that NothingVanishes names.
THEOREM NothingIsLost == Spec => []NothingVanishes
BY AlwaysBacked, Invariance, BackedKeeps, PTL

-----------------------------------------------------------------------------
(* One at a time: what a statement leaves *)

\* The voucher a request has in hand, where its books are not yet in step.
Concerns(r, v) ==
    \/ r.pc \in {"payment", "unissue", "cash", "link", "issued", "redeemed", "void", "refund", "voided"}
         /\ r.v = v
    \/ r.pc \in {"expire", "expired"} /\ r.cur = v

SalesSame(v) ==
    \A p \in Payments, st \in {"issue", "refunded"} :
        pays'[p].v = v /\ pays'[p].st = st <=> pays[p].v = v /\ pays[p].st = st

BooksSame(v) == booked'[v] = booked[v] /\ journal'[v] = journal[v] /\ cash'[v] = cash[v]

Filled(v) == voucher[v].st \in {"active"} \cup Final

LEMMA SalesStay ==
    ASSUME NEW v, SalesSame(v)
    PROVE  /\ Sold(v)' = Sold(v)
           /\ Refunded(v)' = Refunded(v)
           /\ SoldOnce(v)' <=> SoldOnce(v)
           /\ \A p : Sale(p, v)' <=> Sale(p, v)
<1>1. Sold(v)' = Sold(v)
    BY DEF SalesSame, Sold
<1>2. Refunded(v)' = Refunded(v)
    BY DEF SalesSame, Refunded
<1>3. \A p \in Payments : pays'[p].v = v /\ pays'[p].st \in {"issue", "refunded"}
                            <=> pays[p].v = v /\ pays[p].st \in {"issue", "refunded"}
    BY DEF SalesSame
<1>4. SoldOnce(v)' <=> SoldOnce(v)
    BY <1>3 DEF SoldOnce
<1>5. \A p : Sale(p, v)' <=> Sale(p, v)
    BY DEF SalesSame, Sale
<1> QED
    BY <1>1, <1>2, <1>4, <1>5

\* A voucher that is not in hand.
LEMMA Unconcerned ==
    ASSUME NEW r, NEW v, ~ Concerns(r, v)
    PROVE  /\ ~ New(r, v) /\ ~ (r.pc \in {"cash", "link"} /\ r.v = v)
           /\ InJournal(r, v) = 0 /\ InCash(r, v) = 0 /\ InBooked(r, v) = 0
BY DEF Concerns, New, InJournal, InCash, InBooked

LEMMA TaleStays ==
    ASSUME Grows, NEW q, NEW r, NEW v \in Vouchers, Tale(q, v), ~ Concerns(q, v), ~ Concerns(r, v),
           voucher'[v] = voucher[v], BooksSame(v), SalesSame(v), Used(v)' = Used(v),
           Unsold(v) /\ voucher[v].st = "none" => Unsold(v)'
    PROVE  Tale(r, v)'
<1>1. /\ ~ New(q, v) /\ ~ (q.pc \in {"cash", "link"} /\ q.v = v)
      /\ InJournal(q, v) = 0 /\ InCash(q, v) = 0 /\ InBooked(q, v) = 0
    BY Unconcerned
<1>2. /\ ~ New(r, v) /\ ~ (r.pc \in {"cash", "link"} /\ r.v = v)
      /\ InJournal(r, v) = 0 /\ InCash(r, v) = 0 /\ InBooked(r, v) = 0
    BY Unconcerned
<1>3. /\ Sold(v)' = Sold(v)
      /\ Refunded(v)' = Refunded(v)
      /\ SoldOnce(v)' <=> SoldOnce(v)
      /\ \A p : Sale(p, v)' <=> Sale(p, v)
    BY SalesStay
<1>4. voucher[v].st = "none" => Unsold(v)'
    BY DEF Tale
<1>5. voucher[v].st = "gone" => ~ Sold(v)' /\ journal'[v] = 0 /\ cash'[v].income = cash'[v].expense
    BY <1>3 DEF Tale, BooksSame
<1>6. ASSUME Filled(v) PROVE Story(r, v)'
    <2>1. Story(q, v)
        BY <1>1, <1>6 DEF Tale, Filled
    <2>2. voucher'[v].st = "active" =>
              /\ voucher'[v].issue \in Payments
              /\ pays'[voucher'[v].issue].v = v /\ pays'[voucher'[v].issue].st = "issue"
        BY <1>1, <2>1 DEF Story, Sale, SalesSame
    <2>3. Sold(v)' # Refunded(v)' /\ SoldOnce(v)'
        BY <1>3, <2>1 DEF Story
    <2>4. hist' \subseteq BookSlips =>
              voucher'[v].initial + InBooked(r, v) = voucher'[v].balance + Used(v)' + booked'[v]
                 + (IF Refunded(v)' THEN voucher'[v].initial ELSE 0)
        BY <1>1, <1>2, <1>3, <2>1 DEF Story, BooksSame, Grows
    <2>5. hist' \subseteq ValueSlips =>
              /\ journal'[v] = voucher'[v].balance + InJournal(r, v)
              /\ cash'[v].income - cash'[v].expense + InCash(r, v)
                    = IF Sold(v)' THEN voucher'[v].initial ELSE 0
        BY <1>1, <1>2, <1>3, <2>1 DEF Story, BooksSame, Grows
    <2> QED
        BY <2>2, <2>3, <2>4, <2>5 DEF Story, Sale
<1> QED
    BY <1>2, <1>4, <1>5, <1>6 DEF Tale, Filled

LEMMA Carry ==
    ASSUME NEW a \in Int, NEW b \in Int, NEW c \in Int, NEW d \in Int, NEW e \in Int, NEW f \in Int,
           a - b - c = d - e - f, d = e + f
    PROVE  a = b + c
OBVIOUS

LEMMA Balance ==
    ASSUME NEW i \in Int, NEW a \in Int, NEW a1 \in Int, NEW b \in Int, NEW b1 \in Int,
           NEW u \in Int, NEW u1 \in Int, NEW k \in Int, NEW k1 \in Int, NEW t \in Int,
           i + a = b + u + k + t, b1 + u1 + k1 - a1 = b + u + k - a
    PROVE  i + a1 = b1 + u1 + k1 + t
OBVIOUS

\* The voucher in hand: what is taken from one of its books is put in another.
LEMMA TaleMoves ==
    ASSUME Grows, NEW q, NEW r, NEW v \in Vouchers, Inv, Inv', Tale(q, v), ~ New(q, v), ~ New(r, v),
           Filled(v), Filled(v)', Used(v) \in Nat, Used(v)' \in Nat,
           SalesSame(v), voucher'[v].initial = voucher[v].initial,
           InBooked(q, v) \in Int, InBooked(r, v) \in Int, InJournal(q, v) \in Int,
           InJournal(r, v) \in Int, InCash(q, v) \in Int, InCash(r, v) \in Int,
           hist' \subseteq BookSlips =>
               voucher'[v].balance + Used(v)' + booked'[v] - InBooked(r, v)
                   = voucher[v].balance + Used(v) + booked[v] - InBooked(q, v),
           hist' \subseteq ValueSlips =>
               journal'[v] - voucher'[v].balance - InJournal(r, v)
                   = journal[v] - voucher[v].balance - InJournal(q, v),
           hist' \subseteq ValueSlips =>
               cash'[v].income - cash'[v].expense + InCash(r, v)
                   = cash[v].income - cash[v].expense + InCash(q, v),
           voucher'[v].st = "active" /\ ~ (r.pc \in {"cash", "link"} /\ r.v = v)
               => Sale(voucher'[v].issue, v)
    PROVE  Tale(r, v)'
<1>0. /\ booked[v] \in Nat /\ cash[v].expense \in Nat /\ cash[v].income \in Nat
      /\ journal[v] \in Int /\ voucher[v].initial \in Nat /\ voucher[v].balance \in Nat
    BY BookTypes
<1>1. /\ booked'[v] \in Nat /\ cash'[v].expense \in Nat /\ cash'[v].income \in Nat
      /\ journal'[v] \in Int /\ voucher'[v].initial \in Nat /\ voucher'[v].balance \in Nat
    BY BoundsAreNat DEF Inv, BooksOK, VouchersOK, VoucherRecord, Amounts
<1>2. Story(q, v)
    BY DEF Tale, Filled
<1>3. /\ Sold(v)' = Sold(v)
      /\ Refunded(v)' = Refunded(v)
      /\ SoldOnce(v)' <=> SoldOnce(v)
      /\ \A p : Sale(p, v)' <=> Sale(p, v)
    BY SalesStay
<1>4. Sold(v)' # Refunded(v)' /\ SoldOnce(v)'
    BY <1>2, <1>3 DEF Story
<1>5. ASSUME hist' \subseteq BookSlips
      PROVE  voucher'[v].initial + InBooked(r, v) = voucher'[v].balance + Used(v)' + booked'[v]
                 + (IF Refunded(v)' THEN voucher'[v].initial ELSE 0)
    <2>1. voucher[v].initial + InBooked(q, v) =
              voucher[v].balance + Used(v) + booked[v] + (IF Refunded(v) THEN voucher[v].initial ELSE 0)
        BY <1>2, <1>5 DEF Story, Grows
    <2>2. voucher'[v].balance + Used(v)' + booked'[v] - InBooked(r, v)
              = voucher[v].balance + Used(v) + booked[v] - InBooked(q, v)
        BY <1>5
    <2>3. PICK t \in Int : t = IF Refunded(v) THEN voucher[v].initial ELSE 0
        BY <1>0
    <2>4. t = IF Refunded(v)' THEN voucher'[v].initial ELSE 0
        BY <1>3, <2>3
    <2>5. voucher[v].initial + InBooked(q, v) = voucher[v].balance + Used(v) + booked[v] + t
        BY <2>1, <2>3
    <2>6. voucher[v].initial + InBooked(r, v) = voucher'[v].balance + Used(v)' + booked'[v] + t
        <3>1. /\ voucher[v].initial \in Int /\ voucher[v].balance \in Int /\ voucher'[v].balance \in Int
              /\ booked[v] \in Int /\ booked'[v] \in Int /\ Used(v) \in Int /\ Used(v)' \in Int
            BY <1>0, <1>1
        <3>2. PICK i \in Int, a \in Int, a1 \in Int, b \in Int, b1 \in Int, u \in Int, u1 \in Int,
                   k \in Int, k1 \in Int :
                  /\ i = voucher[v].initial /\ a = InBooked(q, v) /\ a1 = InBooked(r, v)
                  /\ b = voucher[v].balance /\ b1 = voucher'[v].balance
                  /\ u = Used(v) /\ u1 = Used(v)' /\ k = booked[v] /\ k1 = booked'[v]
            BY <3>1
        <3>3. i + a = b + u + k + t /\ b1 + u1 + k1 - a1 = b + u + k - a
            BY <2>2, <2>5, <3>2
        <3>4. i + a1 = b1 + u1 + k1 + t
            BY <3>3, Balance
        <3> QED
            BY <3>2, <3>4
    <2> QED
        BY <2>4, <2>6
<1>6. ASSUME hist' \subseteq ValueSlips
      PROVE  journal'[v] = voucher'[v].balance + InJournal(r, v)
    <2>1. journal[v] = voucher[v].balance + InJournal(q, v)
        BY <1>2, <1>6 DEF Story, Grows
    <2>2. /\ journal'[v] \in Int /\ voucher'[v].balance \in Int /\ InJournal(r, v) \in Int
          /\ journal[v] \in Int /\ voucher[v].balance \in Int /\ InJournal(q, v) \in Int
        BY <1>0, <1>1
    <2>3. journal[v] - voucher[v].balance - InJournal(q, v) = 0
        BY <2>1, <2>2
    <2>4. PICK a \in Int, b \in Int, c \in Int :
              a = journal'[v] /\ b = voucher'[v].balance /\ c = InJournal(r, v)
        BY <2>2
    <2>5. a - b - c = 0
        BY <1>6, <2>3, <2>4
    <2>6. a = b + c
        BY <2>5
    <2> QED
        BY <2>4, <2>6
<1>7. ASSUME hist' \subseteq ValueSlips
      PROVE  cash'[v].income - cash'[v].expense + InCash(r, v) = IF Sold(v)' THEN voucher'[v].initial ELSE 0
    <2>1. cash[v].income - cash[v].expense + InCash(q, v) = IF Sold(v) THEN voucher[v].initial ELSE 0
        BY <1>2, <1>7 DEF Story, Grows
    <2> QED
        BY <1>0, <1>1, <1>3, <1>7, <2>1
<1>8. voucher'[v].st = "active" /\ ~ (r.pc \in {"cash", "link"} /\ r.v = v)
               => /\ voucher'[v].issue \in Payments
                  /\ pays'[voucher'[v].issue].v = v /\ pays'[voucher'[v].issue].st = "issue"
    BY DEF Sale, SalesSame
<1>9. Story(r, v)'
    BY <1>4, <1>5, <1>6, <1>7, <1>8 DEF Story, Sale
<1>10. voucher'[v].st \notin {"none", "gone"}
    BY DEF Filled, Final
<1> QED
    BY <1>9, <1>10 DEF Tale, New

LEMMA IdleLocal == ~ \E v : Concerns(Idle, v)
BY DEF Concerns, Idle

\* The request that takes a step is the only one.
LEMMA SerialKept ==
    ASSUME Inv, Grows, SerialInv, NEW h \in Handlers, NEW r \in Request, Goto(h, r),
           req[h] # Idle \/ Quiet,
           Calm' => /\ r # Idle => Local(r)'
                    /\ \A v \in Vouchers : Tale(r, v)'
    PROVE  SerialInv'
<1> SUFFICES ASSUME Calm'
             PROVE  /\ Alone'
                    /\ Quiet' => \A v \in Vouchers : Tale(Idle, v)'
                    /\ \A g \in Handlers : req'[g] # Idle =>
                          Local(req[g])' /\ \A v \in Vouchers : Tale(req[g], v)'
    BY DEF SerialInv, Idle, Tale, Story, New, InJournal, InCash, InBooked
<1>1. Calm
    BY DEF Grows, Calm
<1>2. req'[h] = r /\ \A g \in Handlers : g # h => req'[g] = req[g]
    BY ReqIs
<1>3. \A g \in Handlers : g # h => req'[g] = Idle
    BY <1>1, <1>2 DEF SerialInv, Alone, Quiet
<1>4. Alone'
    BY <1>3 DEF Alone, Idle
<1>5. ASSUME Quiet', NEW v \in Vouchers PROVE Tale(Idle, v)'
    <2>1. PICK i \in Request : i = Idle
        BY IdleOK
    <2>2. i' = Idle
        BY <2>1 DEF Idle
    <2>3. r = i
        BY <1>2, <1>5, <2>1 DEF Quiet, Idle
    <2>4. Tale(i, v)'
        BY <2>3
    <2> QED
        BY <2>1, <2>4
<1>6. ASSUME NEW g \in Handlers, req'[g] # Idle
      PROVE  Local(req[g])' /\ \A v \in Vouchers : Tale(req[g], v)'
    <2>1. g = h /\ r # Idle /\ req'[g] = r
        BY <1>2, <1>3, <1>6
    <2>2. Local(r)' /\ \A v \in Vouchers : Tale(r, v)'
        BY <2>1
    <2>3. Local(req[g])'
        BY <2>1, <2>2 DEF Local, StillRead
    <2>4. ASSUME NEW v \in Vouchers PROVE Tale(req[g], v)'
        BY <2>1, <2>2 DEF Tale, Story, New, InJournal, InCash, InBooked
    <2> QED
        BY <2>3, <2>4
<1> QED
    BY <1>4, <1>5, <1>6

\* What the request that runs knows.
LEMMA SerialNow ==
    ASSUME SerialInv, Calm, NEW h \in Handlers, req[h] # Idle
    PROVE  Local(req[h]) /\ \A v \in Vouchers : Tale(req[h], v)
BY DEF SerialInv

LEMMA SerialBegins ==
    ASSUME Inv, SerialInv, Grows, NEW h \in Handlers, NEW r, Begin(h, r), Calm'
    PROVE  Quiet /\ \A v \in Vouchers : Tale(Idle, v)
<1>1. Calm
    BY DEF Grows, Calm
<1>2. Quiet
    BY DEF Begin, Happens, Calm, ValueSlips, BookSlips
<1> QED
    BY <1>1, <1>2 DEF SerialInv

LEMMA UsedKept ==
    ASSUME Inv, NEW h \in Handlers, NEW r \in Request, Goto(h, r),
           Taking(r) <=> Taking(req[h]), Taking(r) => r.p = req[h].p, OtherPays, NEW v \in Vouchers
    PROVE  Used(v)' = Used(v)
<1>1. ASSUME NEW p PROVE Held(p)' <=> Held(p)
    BY HeldIs
<1>2. ASSUME NEW p PROVE p \in Spent(v)' <=> p \in Spent(v)
    BY <1>1, SpentIs DEF OtherPays
<1>3. ASSUME NEW p \in Spent(v) PROVE pays'[p].amount = pays[p].amount
    BY SpentIs DEF OtherPays
<1> QED
    BY <1>2, <1>3, UsedSame

\* The other vouchers.
ElseSame(c) ==
    \A w \in Vouchers : w # c =>
        /\ voucher'[w] = voucher[w] /\ BooksSame(w) /\ SalesSame(w) /\ Used(w)' = Used(w)
        /\ Unsold(w) /\ voucher[w].st = "none" => Unsold(w)'

LEMMA ElseStays ==
    ASSUME NEW c, \A w \in Vouchers : w # c => voucher'[w] = voucher[w] /\ BooksSame(w),
           UNCHANGED pays, \A w \in Vouchers : w # c => Used(w)' = Used(w)
    PROVE  ElseSame(c) /\ \A w : SalesSame(w)
<1>1. \A w : SalesSame(w)
    BY DEF SalesSame
<1>2. ASSUME NEW w \in Vouchers, w # c, Unsold(w) PROVE Unsold(w)'
    <2>1. BooksSame(w)
        BY <1>2
    <2> QED
        BY <1>2, <2>1 DEF Unsold, BooksSame
<1> QED
    BY <1>1, <1>2 DEF ElseSame

LEMMA SerialOne ==
    ASSUME Inv, SerialInv, Grows, NEW h \in Handlers, NEW r \in Request, Goto(h, r),
           NEW c, req[h] # Idle \/ Quiet,
           \A w \in Vouchers : w # c => ~ Concerns(req[h], w) /\ ~ Concerns(r, w),
           Calm' => /\ ElseSame(c)
                    /\ r # Idle => Local(r)'
                    /\ c \in Vouchers => Tale(r, c)'
    PROVE  SerialInv'
<1>1. ASSUME Calm', NEW w \in Vouchers, w # c PROVE Tale(r, w)'
    <2>1. Calm
        BY <1>1 DEF Grows, Calm
    <2>2. PICK q \in Request : q = req[h]
        BY HeldOK
    <2>3. Tale(q, w)
        <3>1. CASE req[h] # Idle
            BY <2>1, <2>2, <3>1, SerialNow
        <3>2. CASE req[h] = Idle
            <4>1. Quiet
                BY <3>2
            <4>2. Tale(Idle, w)
                BY <2>1, <4>1 DEF SerialInv
            <4> QED
                BY <2>2, <3>2, <4>2
        <3> QED
            BY <3>1, <3>2
    <2>4. ~ Concerns(q, w) /\ ~ Concerns(r, w)
        BY <1>1, <2>2
    <2>5. voucher'[w] = voucher[w] /\ BooksSame(w) /\ SalesSame(w) /\ Used(w)' = Used(w)
          /\ (Unsold(w) /\ voucher[w].st = "none" => Unsold(w)')
        BY <1>1 DEF ElseSame
    <2> QED
        BY <2>3, <2>4, <2>5, TaleStays
<1>2. Calm' => (r # Idle => Local(r)') /\ \A v \in Vouchers : Tale(r, v)'
    BY <1>1
<1> QED
    BY <1>2, SerialKept

\* No voucher is in hand before or after.
LEMMA SerialNone ==
    ASSUME Inv, SerialInv, Grows, NEW h \in Handlers, NEW r \in Request, Goto(h, r),
           req[h] # Idle \/ Quiet,
           \A w \in Vouchers : ~ Concerns(req[h], w) /\ ~ Concerns(r, w),
           Taking(r) <=> Taking(req[h]), Taking(r) => r.p = req[h].p,
           UNCHANGED <<voucher, books>>,
           Calm' /\ r # Idle => Local(r)'
    PROVE  SerialInv'
<1>1. UNCHANGED pays /\ OtherPays
    BY PaysKept DEF books
<1>2. \A w \in Vouchers : Used(w)' = Used(w)
    BY <1>1, UsedKept
<1>3. \A w \in Vouchers : BooksSame(w)
    BY DEF BooksSame, books
<1>4. PICK c : c \notin Vouchers
    <2>1. None \notin Vouchers
        BY NoneIsNoId
    <2> QED
        BY <2>1
<1>5. ElseSame(c)
    BY <1>1, <1>2, <1>3, ElseStays
<1> QED
    BY <1>4, <1>5, SerialOne

\* A statement at which no voucher is in hand ...
FreePcs == {"idle", "rows", "due", "book", "read", "update", "reload", "unpay", "vcash"}

LEMMA FreeIs ==
    ASSUME NEW r, r.pc \in FreePcs, NEW v
    PROVE  ~ Concerns(r, v)
BY DEF FreePcs, Concerns

\* ... and one at which it is the voucher of the request.
OwnPcs == {"payment", "unissue", "cash", "link", "issued", "redeemed", "void", "refund", "voided"}

LEMMA OwnIs ==
    ASSUME NEW r, r.pc \in OwnPcs \cup FreePcs, NEW v, v # r.v
    PROVE  ~ Concerns(r, v)
BY DEF OwnPcs, FreePcs, Concerns

LEMMA IdleFree == Idle.pc \in FreePcs /\ Idle.pc = "idle"
BY DEF Idle, FreePcs

\* Local, at a statement at which nothing is known.
UnknownPcs == {"idle", "rows", "due", "read", "reload", "unpay"}

LEMMA NoLocal ==
    ASSUME NEW r, r.pc \in UnknownPcs
    PROVE  Local(r)'
BY DEF UnknownPcs, Local

LEMMA NotIdle ==
    ASSUME NEW r, r.pc # "idle"
    PROVE  r # Idle
BY DEF Idle

-----------------------------------------------------------------------------
(* One at a time: the steps of an issue *)

LEMMA NowIs ==
    ASSUME SerialInv, Grows, Calm', NEW h \in Handlers, req[h].pc # "idle"
    PROVE  Calm /\ req[h] # Idle /\ Local(req[h]) /\ \A v \in Vouchers : Tale(req[h], v)
<1>1. Calm
    BY DEF Grows, Calm
<1>2. req[h] # Idle
    BY NotIdle
<1> QED
    BY <1>1, <1>2, SerialNow

LEMMA UnsoldStays ==
    ASSUME NEW v, UNCHANGED pays, BooksSame(v), Unsold(v)
    PROVE  Unsold(v)'
BY DEF Unsold, BooksSame

LEMMA UnsoldIs ==
    ASSUME NEW v, Unsold(v)
    PROVE  /\ ~ Sold(v) /\ ~ Refunded(v) /\ Redeems(v) = {}
           /\ booked[v] = 0 /\ journal[v] = 0 /\ cash[v].income = 0 /\ cash[v].expense = 0
BY DEF Unsold, Sold, Refunded, Redeems

LEMMA IssueSerial ==
    ASSUME Inv, Inv', Hands, Hands', Grows, SerialInv, Calm', NEW h \in Handlers,
           NEW v \in Vouchers, NEW a \in Amounts \ {0}, Issue(h, v, a)
    PROVE  SerialInv'
<1>0. "issue" \in Ops
    BY DEF Issue, Begin, Idle
<1>1. PICK r \in Request : r = [Idle EXCEPT !.op = "issue", !.pc = "payment", !.v = v, !.amount = a]
    BY <1>0, IdleOK DEF Request
<1>2. r.op = "issue" /\ r.pc = "payment" /\ r.v = v /\ r.amount = a
    BY <1>1 DEF Idle
<1>3. Begin(h, r)
    BY <1>1 DEF Issue
<1>4. Goto(h, r) /\ req[h] = Idle
    BY <1>3 DEF Begin
<1>5. Quiet /\ \A w \in Vouchers : Tale(Idle, w)
    BY <1>3, SerialBegins
<1>6. \A w \in Vouchers : w # v => ~ Concerns(req[h], w) /\ ~ Concerns(r, w)
    BY <1>2, <1>4, IdleFree, FreeIs, OwnIs DEF OwnPcs
<1>7. pays' = pays /\ OtherPays /\ \A w : BooksSame(w)
    BY PaysKept DEF Issue, books, BooksSame
<1>8. ~ Taking(r) /\ ~ Taking(req[h])
    BY <1>2, <1>4, NoReadsIdle DEF Taking
<1>9. \A w \in Vouchers : Used(w)' = Used(w)
    BY <1>4, <1>7, <1>8, UsedKept
<1>10. voucher' = [voucher EXCEPT ![v] = [st |-> "active", initial |-> a, balance |-> a, issue |-> None]]
       /\ voucher[v].st = "none"
    BY DEF Issue
<1>11. voucher'[v] = [st |-> "active", initial |-> a, balance |-> a, issue |-> None]
       /\ \A w \in Vouchers : w # v => voucher'[w] = voucher[w]
    BY <1>10 DEF Inv, VouchersOK
<1>12. ElseSame(v)
    BY <1>7, <1>9, <1>11, ElseStays
<1>13. Local(r)'
    BY <1>2, <1>11 DEF Local
<1>14. Tale(r, v)'
    <2>1. Unsold(v)
        BY <1>5, <1>10 DEF Tale
    <2>2. Unsold(v)'
        BY <1>7, <2>1, UnsoldStays
    <2>3. New(r, v)
        BY <1>2 DEF New
    <2>4. voucher'[v].st = "active"
        BY <1>11
    <2> QED
        BY <2>2, <2>3, <2>4 DEF Tale
<1> QED
    BY <1>4, <1>5, <1>6, <1>12, <1>13, <1>14, SerialOne

LEMMA IssuePaymentSerial ==
    ASSUME Inv, Inv', Hands, Hands', Grows, SerialInv, Calm', NEW h \in Handlers, IssuePayment(h)
    PROVE  SerialInv'
<1>0. req[h].op = "issue" /\ req[h].pc = "payment" /\ req[h].v \in Vouchers
    BY HeldOK DEF IssuePayment, At, RequestOK, IssuePcs
<1>1. req[h] # Idle /\ Local(req[h]) /\ \A v \in Vouchers : Tale(req[h], v)
    BY <1>0, NowIs
<1>c. PICK c \in Vouchers : c = req[h].v
    BY <1>0
<1>2. voucher[c].st = "active" /\ voucher[c].initial = req[h].amount /\ voucher[c].balance = req[h].amount
    BY <1>0, <1>1, <1>c DEF Local
<1>3. Unsold(c)
    BY <1>0, <1>1, <1>c DEF Tale, New
<1>4. voucher' = voucher /\ booked' = booked /\ journal' = journal /\ cash' = cash
    BY DEF IssuePayment
<1>5. \A w : BooksSame(w)
    BY <1>4 DEF BooksSame
<1>6. CASE \E p \in Payments :
              /\ Insert(p, "issue", req[h].v, req[h].amount)
              /\ Goto(h, [req[h] EXCEPT !.pc = "cash", !.p = p])
    <2>1. PICK p \in Payments :
              /\ Insert(p, "issue", req[h].v, req[h].amount)
              /\ Goto(h, [req[h] EXCEPT !.pc = "cash", !.p = p])
        BY <1>6
    <2>2. PICK r \in Request : r = [req[h] EXCEPT !.pc = "cash", !.p = p]
        BY HeldOK DEF Request
    <2>3. r.op = "issue" /\ r.pc = "cash" /\ r.v = c /\ r.amount = req[h].amount /\ r.p = p
        BY <1>0, <1>c, <2>2, HeldOK DEF Request
    <2>4. Goto(h, r)
        BY <2>1, <2>2
    <2>5. \A w \in Vouchers : w # c => ~ Concerns(req[h], w) /\ ~ Concerns(r, w)
        BY <1>0, <1>c, <2>3, OwnIs DEF OwnPcs
    <2>6. pays[p].st = "none" /\ pays'[p] = [st |-> "issue", v |-> c, amount |-> req[h].amount]
          /\ \A q \in Payments : q # p => pays'[q] = pays[q]
        BY <1>c, <2>1 DEF Insert, Inv, PaysOK
    <2>7. OtherPays
        BY <2>6 DEF OtherPays
    <2>8. ~ Taking(r) /\ ~ Taking(req[h])
        BY <1>0, <2>3 DEF Taking
    <2>9. \A w \in Vouchers : Used(w)' = Used(w)
        BY <2>4, <2>7, <2>8, UsedKept
    <2>10. ASSUME NEW w \in Vouchers, w # c PROVE SalesSame(w) /\ (Unsold(w) => Unsold(w)')
        <3>1. \A q \in Payments : pays'[q] = pays[q] \/ (pays[q].st = "none" /\ pays'[q].v = c)
            BY <2>6
        <3>2. SalesSame(w)
            BY <2>10, <3>1 DEF SalesSame
        <3>3. Unsold(w) => Unsold(w)'
            BY <1>4, <2>10, <3>1 DEF Unsold
        <3> QED
            BY <3>2, <3>3
    <2>11. ElseSame(c)
        BY <1>4, <1>5, <2>9, <2>10 DEF ElseSame
    <2>12. Sale(p, c)'
        BY <2>6 DEF Sale
    <2>13. Local(r)'
        BY <1>2, <1>4, <2>3, <2>12 DEF Local, Sale
    <2>14. Tale(r, c)'
        <3>1. Sold(c)'
            BY <2>6 DEF Sold
        <3>2. ASSUME NEW q \in Payments, pays'[q].v = c, pays'[q].st # "deleted" PROVE q = p
            BY <1>3, <2>6, <3>2 DEF Unsold
        <3>3. ~ Refunded(c)' /\ SoldOnce(c)' /\ Sold(c)' # Refunded(c)'
            <4>1. ~ Refunded(c)'
                BY <2>6, <3>2 DEF Refunded
            <4>2. SoldOnce(c)'
                BY <3>2 DEF SoldOnce
            <4>3. Sold(c)' = TRUE /\ Refunded(c)' = FALSE
                BY <3>1, <4>1 DEF Sold, Refunded
            <4> QED
                BY <4>1, <4>2, <4>3
        <3>4. Used(c)' = 0
            <4>1. Redeems(c) = {}
                BY <1>3, UnsoldIs
            <4>2. Cents(Spent(c)) = {}
                BY <4>1 DEF Spent, Cents
            <4>3. Used(c) = 0
                BY <4>2, FS_EmptySet DEF Used
            <4> QED
                BY <2>9, <4>3
        <3>5. booked[c] = 0 /\ journal[c] = 0 /\ cash[c].income = 0 /\ cash[c].expense = 0
            BY <1>3, UnsoldIs
        <3>6. InJournal(r, c) = - r.amount /\ InCash(r, c) = r.amount /\ InBooked(r, c) = 0
              /\ ~ New(r, c)
            BY <2>3 DEF InJournal, InCash, InBooked, New
        <3>7. req[h].amount \in Nat
            BY HeldOK
        <3>8. voucher[c].initial + InBooked(r, c) = voucher[c].balance + Used(c)' + booked[c]
                  + (IF Refunded(c)' THEN voucher[c].initial ELSE 0)
            BY <1>2, <3>3, <3>4, <3>5, <3>6, <3>7
        <3>9. journal[c] = voucher[c].balance + InJournal(r, c)
            BY <1>2, <2>3, <3>5, <3>6, <3>7
        <3>10. cash[c].income - cash[c].expense + InCash(r, c) = IF Sold(c)' THEN voucher[c].initial ELSE 0
            BY <1>2, <2>3, <3>1, <3>5, <3>6, <3>7
        <3>11. Story(r, c)'
            BY <1>4, <2>3, <3>3, <3>8, <3>9, <3>10 DEF Story
        <3> QED
            BY <1>2, <1>4, <3>6, <3>11 DEF Tale
    <2> QED
        BY <1>1, <2>4, <2>5, <2>11, <2>13, <2>14, SerialOne
<1>7. CASE Step(h, "unissue") /\ UNCHANGED pays
    <2>1. "unissue" \in Pcs
        BY DEF Pcs
    <2>2. PICK r \in Request :
              /\ Goto(h, r)
              /\ r.pc = "unissue" /\ r.op = req[h].op /\ r.v = req[h].v /\ r.p = req[h].p
              /\ r.amount = req[h].amount
        BY <1>7, <2>1, StepIs
    <2>3. \A w \in Vouchers : w # c => ~ Concerns(req[h], w) /\ ~ Concerns(r, w)
        BY <1>0, <1>c, <2>2, OwnIs DEF OwnPcs
    <2>4. ~ Taking(r) /\ ~ Taking(req[h])
        BY <1>0, <2>2 DEF Taking
    <2>5. \A w \in Vouchers : Used(w)' = Used(w)
        BY <1>7, <2>2, <2>4, PaysKept, UsedKept
    <2>6. ElseSame(c)
        BY <1>4, <1>5, <1>7, <2>5, ElseStays
    <2>7. Local(r)'
        BY <1>2, <1>4, <1>c, <2>2 DEF Local
    <2>8. Unsold(c)'
        BY <1>3, <1>5, <1>7, UnsoldStays
    <2>9. Tale(r, c)'
        BY <1>2, <1>4, <1>c, <2>2, <2>8 DEF Tale, New
    <2> QED
        BY <1>1, <2>2, <2>3, <2>6, <2>7, <2>9, SerialOne
<1> QED
    BY <1>6, <1>7 DEF IssuePayment

LEMMA UnissueSerial ==
    ASSUME Inv, Inv', Hands, Hands', Grows, SerialInv, Calm', NEW h \in Handlers, Unissue(h)
    PROVE  SerialInv'
<1>0. req[h].op = "issue" /\ req[h].pc = "unissue" /\ req[h].v \in Vouchers
    BY HeldOK DEF Unissue, At, RequestOK, IssuePcs
<1>1. req[h] # Idle /\ Local(req[h]) /\ \A v \in Vouchers : Tale(req[h], v)
    BY <1>0, NowIs
<1>c. PICK c \in Vouchers, r \in Request : c = req[h].v /\ r = Idle
    BY <1>0, IdleOK
<1>2. Goto(h, r) /\ r.pc = "idle" /\ ~ Taking(r) /\ ~ Taking(req[h])
    BY <1>0, <1>c, NoReadsIdle, IdleFree DEF Unissue, End, Taking
<1>3. Unsold(c)
    BY <1>0, <1>1, <1>c DEF Tale, New
<1>4. \A w \in Vouchers : w # c => ~ Concerns(req[h], w) /\ ~ Concerns(r, w)
    BY <1>0, <1>2, <1>c, IdleFree, FreeIs, OwnIs DEF OwnPcs
<1>5. pays' = pays /\ cash' = cash /\ booked' = booked
    BY DEF Unissue
<1>6. journal'[c] = 0 /\ \A w \in Vouchers : w # c => journal'[w] = journal[w]
    BY <1>c DEF Unissue, Inv, BooksOK
<1>7. voucher'[c].st = "gone" /\ \A w \in Vouchers : w # c => voucher'[w] = voucher[w]
    BY <1>c, SetIs DEF Unissue
<1>8. \A w \in Vouchers : Used(w)' = Used(w)
    BY <1>2, <1>5, PaysKept, UsedKept
<1>9. ElseSame(c)
    BY <1>5, <1>6, <1>7, <1>8, ElseStays DEF BooksSame
<1>10. Tale(r, c)'
    <2>1. ~ Sold(c)' /\ cash'[c].income = cash'[c].expense
        BY <1>3, <1>5, UnsoldIs DEF Sold
    <2>2. ~ New(r, c)
        BY <1>2 DEF New
    <2> QED
        BY <1>6, <1>7, <2>1, <2>2 DEF Tale, Final
<1> QED
    BY <1>1, <1>2, <1>4, <1>9, <1>10, <1>c, SerialOne

\* The numbers of the vouchers in hand.
LEMMA InNothing ==
    ASSUME NEW r, NEW v, r.pc \in FreePcs
    PROVE  /\ InJournal(r, v) = 0 /\ InCash(r, v) = 0 /\ InBooked(r, v) = 0
           /\ ~ New(r, v) /\ ~ (r.pc \in {"cash", "link"} /\ r.v = v)
BY FreeIs, Unconcerned

LEMMA UsedTypes ==
    ASSUME Hands, Hands', NEW v \in Vouchers
    PROVE  Used(v) \in Nat /\ Used(v)' \in Nat
BY SpentFinite, UsedNext

LEMMA IssueCashSerial ==
    ASSUME Inv, Inv', Hands, Hands', Grows, SerialInv, Calm', NEW h \in Handlers, IssueCash(h)
    PROVE  SerialInv'
<1>0. req[h].op = "issue" /\ req[h].pc = "cash" /\ req[h].v \in Vouchers /\ req[h].amount \in Nat
    BY HeldOK DEF IssueCash, At, RequestOK, IssuePcs
<1>1. req[h] # Idle /\ Local(req[h]) /\ \A v \in Vouchers : Tale(req[h], v)
    BY <1>0, NowIs
<1>c. PICK c \in Vouchers, q \in Request : c = req[h].v /\ q = req[h]
    BY <1>0, HeldOK
<1>2. "link" \in Pcs
    BY DEF Pcs
<1>3. PICK r \in Request :
          /\ Goto(h, r)
          /\ r.pc = "link" /\ r.op = q.op /\ r.v = q.v /\ r.p = q.p /\ r.amount = q.amount
    BY <1>c, <1>2, StepIs DEF IssueCash
<1>4. \A w \in Vouchers : w # c => ~ Concerns(req[h], w) /\ ~ Concerns(r, w)
    BY <1>0, <1>c, <1>3, OwnIs DEF OwnPcs
<1>5. voucher' = voucher /\ pays' = pays /\ booked' = booked /\ journal' = journal
    BY DEF IssueCash
<1>6. /\ cash'[c].income = cash[c].income + q.amount /\ cash'[c].expense = cash[c].expense
      /\ \A w \in Vouchers : w # c => cash'[w] = cash[w]
    BY <1>0, <1>c DEF IssueCash, Inv, BooksOK
<1>7. \A w \in Vouchers : Used(w)' = Used(w)
    <2>1. ~ Taking(r) /\ ~ Taking(req[h])
        BY <1>0, <1>c, <1>3 DEF Taking
    <2> QED
        BY <1>3, <1>5, <2>1, PaysKept, UsedKept
<1>8. ElseSame(c) /\ SalesSame(c)
    BY <1>5, <1>6, <1>7, ElseStays DEF BooksSame
<1>9. voucher[c].st = "active" /\ voucher[c].initial = q.amount /\ voucher[c].balance = q.amount /\ Sale(q.p, c)
    BY <1>0, <1>1, <1>c DEF Local
<1>10. Sale(r.p, c)'
    BY <1>3, <1>5, <1>9 DEF Sale
<1>11. Local(r)'
    BY <1>3, <1>5, <1>9, <1>10, <1>c DEF Local
<1>12. /\ InJournal(q, c) = - q.amount /\ InJournal(r, c) = - q.amount
       /\ InCash(q, c) = q.amount /\ InCash(r, c) = 0 /\ InBooked(q, c) = 0 /\ InBooked(r, c) = 0
       /\ ~ New(q, c) /\ ~ New(r, c)
    BY <1>0, <1>3, <1>c DEF InJournal, InCash, InBooked, New
<1>13. Tale(r, c)'
    <2>1. q.amount \in Nat /\ Tale(q, c)
        BY <1>0, <1>1, <1>c
    <2>2. Filled(c) /\ Filled(c)'
        BY <1>5, <1>9 DEF Filled
    <2>3. cash[c].income \in Nat /\ cash[c].expense \in Nat
        BY BookTypes
    <2>4. cash'[c].income - cash'[c].expense + InCash(r, c) = cash[c].income - cash[c].expense + InCash(q, c)
        BY <1>6, <1>12, <2>1, <2>3
    <2>5. r.pc \in {"cash", "link"} /\ r.v = c
        BY <1>3, <1>c
    <2>6. Used(c) \in Nat /\ Used(c)' \in Nat
        BY UsedTypes
    <2>7. /\ InBooked(q, c) \in Int /\ InBooked(r, c) \in Int /\ InJournal(q, c) \in Int
          /\ InJournal(r, c) \in Int /\ InCash(q, c) \in Int /\ InCash(r, c) \in Int
        BY <1>12, <2>1
    <2> QED
        BY <1>5, <1>7, <1>8, <1>12, <2>1, <2>2, <2>4, <2>5, <2>6, <2>7, TaleMoves
<1> QED
    BY <1>1, <1>3, <1>4, <1>8, <1>11, <1>13, SerialOne

LEMMA IssueLinkSerial ==
    ASSUME Inv, Inv', Hands, Hands', Grows, SerialInv, Calm', NEW h \in Handlers, IssueLink(h)
    PROVE  SerialInv'
<1>0. req[h].op = "issue" /\ req[h].pc = "link" /\ req[h].v \in Vouchers /\ req[h].amount \in Nat
      /\ req[h].p \in Payments
    BY HeldOK DEF IssueLink, At, RequestOK, IssuePcs
<1>1. req[h] # Idle /\ Local(req[h]) /\ \A v \in Vouchers : Tale(req[h], v)
    BY <1>0, NowIs
<1>c. PICK c \in Vouchers, q \in Request : c = req[h].v /\ q = req[h]
    BY <1>0, HeldOK
<1>2. "issued" \in Pcs
    BY DEF Pcs
<1>3. PICK r \in Request :
          /\ Goto(h, r)
          /\ r.pc = "issued" /\ r.op = q.op /\ r.v = q.v /\ r.p = q.p /\ r.amount = q.amount
    BY <1>c, <1>2, StepIs DEF IssueLink
<1>4. \A w \in Vouchers : w # c => ~ Concerns(req[h], w) /\ ~ Concerns(r, w)
    BY <1>0, <1>c, <1>3, OwnIs DEF OwnPcs
<1>5. pays' = pays /\ booked' = booked /\ journal' = journal /\ cash' = cash
    BY DEF IssueLink, books
<1>6. /\ voucher'[c].st = voucher[c].st /\ voucher'[c].balance = voucher[c].balance
      /\ voucher'[c].initial = voucher[c].initial /\ voucher'[c].issue = q.p
      /\ \A w \in Vouchers : w # c => voucher'[w] = voucher[w]
    BY <1>0, <1>c DEF IssueLink, Inv, VouchersOK, VoucherRecord
<1>7. \A w \in Vouchers : Used(w)' = Used(w)
    <2>1. ~ Taking(r) /\ ~ Taking(req[h])
        BY <1>0, <1>c, <1>3 DEF Taking
    <2> QED
        BY <1>3, <1>5, <2>1, PaysKept, UsedKept
<1>8. ElseSame(c) /\ SalesSame(c)
    BY <1>5, <1>6, <1>7, ElseStays DEF BooksSame
<1>9. voucher[c].st = "active" /\ voucher[c].initial = q.amount /\ voucher[c].balance = q.amount /\ Sale(q.p, c)
    BY <1>0, <1>1, <1>c DEF Local
<1>10. Sale(r.p, c)'
    BY <1>3, <1>5, <1>9 DEF Sale
<1>11. Local(r)'
    BY <1>3, <1>6, <1>9, <1>10, <1>c DEF Local
<1>12. /\ InJournal(q, c) = - q.amount /\ InJournal(r, c) = - q.amount
       /\ InCash(q, c) = 0 /\ InCash(r, c) = 0 /\ InBooked(q, c) = 0 /\ InBooked(r, c) = 0
       /\ ~ New(q, c) /\ ~ New(r, c)
    BY <1>0, <1>3, <1>c DEF InJournal, InCash, InBooked, New
<1>13. Tale(r, c)'
    <2>1. q.amount \in Nat /\ Tale(q, c)
        BY <1>0, <1>1, <1>c
    <2>2. Filled(c) /\ Filled(c)'
        BY <1>6, <1>9 DEF Filled
    <2>4. cash'[c].income - cash'[c].expense + InCash(r, c) = cash[c].income - cash[c].expense + InCash(q, c)
        BY <1>5, <1>12
    <2>5. Sale(voucher'[c].issue, c)
        BY <1>6, <1>9
    <2>6. Used(c) \in Nat /\ Used(c)' \in Nat
        BY UsedTypes
    <2>7. /\ InBooked(q, c) \in Int /\ InBooked(r, c) \in Int /\ InJournal(q, c) \in Int
          /\ InJournal(r, c) \in Int /\ InCash(q, c) \in Int /\ InCash(r, c) \in Int
        BY <1>12, <2>1
    <2>8. /\ voucher'[c].balance + Used(c)' + booked'[c] - InBooked(r, c)
                 = voucher[c].balance + Used(c) + booked[c] - InBooked(q, c)
          /\ journal'[c] - voucher'[c].balance - InJournal(r, c)
                 = journal[c] - voucher[c].balance - InJournal(q, c)
        BY <1>5, <1>6, <1>7, <1>12
    <2> QED
        BY <1>6, <1>8, <1>12, <2>1, <2>2, <2>4, <2>5, <2>6, <2>7, <2>8, TaleMoves
<1> QED
    BY <1>1, <1>3, <1>4, <1>8, <1>11, <1>13, SerialOne

LEMMA IssueRecordSerial ==
    ASSUME Inv, Inv', Hands, Hands', Grows, SerialInv, Calm', NEW h \in Handlers, IssueRecord(h)
    PROVE  SerialInv'
<1>0. req[h].op = "issue" /\ req[h].pc = "issued" /\ req[h].v \in Vouchers /\ req[h].amount \in Nat
    BY HeldOK DEF IssueRecord, At, RequestOK, IssuePcs
<1>1. req[h] # Idle /\ Local(req[h]) /\ \A v \in Vouchers : Tale(req[h], v)
    BY <1>0, NowIs
<1>c. PICK c \in Vouchers, q \in Request, r \in Request : c = req[h].v /\ q = req[h] /\ r = Idle
    BY <1>0, HeldOK, IdleOK
<1>3. Goto(h, r) /\ r.pc = "idle" /\ r.pc \in FreePcs /\ ~ Taking(r)
    BY <1>c, NoReadsIdle, IdleFree DEF IssueRecord, End
<1>4. \A w \in Vouchers : w # c => ~ Concerns(req[h], w) /\ ~ Concerns(r, w)
    BY <1>0, <1>c, <1>3, OwnIs, FreeIs DEF OwnPcs
<1>5. voucher' = voucher /\ pays' = pays /\ booked' = booked /\ cash' = cash
    BY DEF IssueRecord
<1>6. journal'[c] = journal[c] + q.amount /\ \A w \in Vouchers : w # c => journal'[w] = journal[w]
    <2>1. voucher[c].st = "active"
        BY <1>0, <1>1, <1>c DEF Local
    <2>2. journal' = [journal EXCEPT ![c] = @ + q.amount]
        BY <1>c, <2>1 DEF IssueRecord, Record
    <2> QED
        BY <1>0, <1>c, <2>2 DEF Inv, BooksOK
<1>7. \A w \in Vouchers : Used(w)' = Used(w)
    <2>1. ~ Taking(req[h])
        BY <1>0 DEF Taking
    <2> QED
        BY <1>3, <1>5, <2>1, PaysKept, UsedKept
<1>8. ElseSame(c) /\ SalesSame(c)
    BY <1>5, <1>6, <1>7, ElseStays DEF BooksSame
<1>9. voucher[c].st = "active"
    BY <1>0, <1>1, <1>c DEF Local
<1>12. /\ InJournal(q, c) = - q.amount /\ InCash(q, c) = 0 /\ InBooked(q, c) = 0 /\ ~ New(q, c)
       /\ InJournal(r, c) = 0 /\ InCash(r, c) = 0 /\ InBooked(r, c) = 0 /\ ~ New(r, c)
    BY <1>0, <1>3, <1>c, InNothing DEF InJournal, InCash, InBooked, New
<1>13. Tale(r, c)'
    <2>1. q.amount \in Nat /\ Tale(q, c)
        BY <1>0, <1>1, <1>c
    <2>2. Filled(c) /\ Filled(c)'
        BY <1>5, <1>9 DEF Filled
    <2>3. journal[c] \in Int /\ voucher[c].balance \in Nat
        BY BookTypes
    <2>4. /\ cash'[c].income - cash'[c].expense + InCash(r, c) = cash[c].income - cash[c].expense + InCash(q, c)
          /\ voucher'[c].balance + Used(c)' + booked'[c] - InBooked(r, c)
                 = voucher[c].balance + Used(c) + booked[c] - InBooked(q, c)
        BY <1>5, <1>7, <1>12
    <2>8. journal'[c] - voucher'[c].balance - InJournal(r, c)
                 = journal[c] - voucher[c].balance - InJournal(q, c)
        BY <1>5, <1>6, <1>12, <2>1, <2>3
    <2>5. Sale(voucher'[c].issue, c)
        <3>1. Story(q, c) /\ q.pc = "issued"
            BY <1>0, <1>9, <1>12, <1>c, <2>1 DEF Tale
        <3> QED
            BY <1>5, <1>9, <3>1 DEF Story
    <2>6. Used(c) \in Nat /\ Used(c)' \in Nat
        BY UsedTypes
    <2>7. /\ InBooked(q, c) \in Int /\ InBooked(r, c) \in Int /\ InJournal(q, c) \in Int
          /\ InJournal(r, c) \in Int /\ InCash(q, c) \in Int /\ InCash(r, c) \in Int
        BY <1>12, <2>1
    <2> QED
        BY <1>5, <1>8, <1>12, <2>1, <2>2, <2>4, <2>5, <2>6, <2>7, <2>8, TaleMoves
<1> QED
    BY <1>1, <1>3, <1>4, <1>8, <1>13, <1>c, SerialOne

-----------------------------------------------------------------------------
(* One at a time: the steps of an expiry *)

LEMMA ExpiryIs ==
    ASSUME NEW r, r.pc \in {"expire", "expired"} \cup FreePcs, NEW v, v # r.cur
    PROVE  ~ Concerns(r, v)
BY DEF FreePcs, Concerns

LEMMA LookSerial ==
    ASSUME Inv, Inv', Hands, Hands', Grows, SerialInv, Calm', NEW h \in Handlers, Look(h)
    PROVE  SerialInv'
<1>0. "look" \in Ops
    BY DEF Look, Begin, Idle
<1>1. PICK r \in Request : r = [Idle EXCEPT !.op = "look", !.pc = "due"]
    BY <1>0, IdleOK DEF Request
<1>2. r.op = "look" /\ r.pc = "due"
    BY <1>1 DEF Idle
<1>3. Begin(h, r)
    BY <1>1 DEF Look
<1>4. Goto(h, r) /\ req[h] = Idle
    BY <1>3 DEF Begin
<1>5. Quiet
    BY <1>3, SerialBegins
<1>6. \A w \in Vouchers : ~ Concerns(req[h], w) /\ ~ Concerns(r, w)
    BY <1>2, <1>4, IdleFree, FreeIs DEF FreePcs
<1>7. ~ Taking(r) /\ ~ Taking(req[h])
    BY <1>2, <1>4, NoReadsIdle DEF Taking
<1>8. UNCHANGED <<voucher, books>>
    BY DEF Look
<1>9. Local(r)'
    BY <1>2, NoLocal DEF UnknownPcs
<1> QED
    BY <1>4, <1>5, <1>6, <1>7, <1>8, <1>9, SerialNone

LEMMA ExpireSelectSerial ==
    ASSUME Inv, Inv', Hands, Hands', Grows, SerialInv, Calm', NEW h \in Handlers, ExpireSelect(h)
    PROVE  SerialInv'
<1>0. req[h].pc = "due"
    BY DEF ExpireSelect, At
<1>1. req[h] # Idle
    BY <1>0, NowIs
<1> DEFINE S == [v \in Vouchers |-> voucher[v].balance]
           T == {v \in due : voucher[v].st = "active" /\ voucher[v].balance > 0}
<1>2. S \in [Vouchers -> Amounts] /\ T \in SUBSET Vouchers
    BY BalanceOK DEF Inv, RestOK
<1>3. PICK r \in Request : r = [req[h] EXCEPT !.pc = "book", !.seen = S, !.todo = T]
    BY <1>2, HeldOK DEF Request
<1>4. Goto(h, r)
    BY <1>3 DEF ExpireSelect
<1>5. r.pc = "book" /\ r.op = req[h].op /\ r.p = req[h].p /\ r.seen = S /\ r.todo = T
    BY <1>3, HeldOK DEF Request
<1>6. \A w \in Vouchers : ~ Concerns(req[h], w) /\ ~ Concerns(r, w)
    BY <1>0, <1>5, FreeIs DEF FreePcs
<1>7. (Taking(r) <=> Taking(req[h])) /\ (Taking(r) => r.p = req[h].p)
    BY <1>0, <1>5 DEF Taking, BeforeUpdate
<1>8. UNCHANGED <<voucher, books>>
    BY DEF ExpireSelect
<1>9. Local(r)'
    <2>1. \A v \in r.todo : v \in Vouchers /\ voucher[v].st = "active" /\ voucher[v].balance = r.seen[v]
        BY <1>2, <1>5
    <2> QED
        BY <1>5, <1>8, <2>1 DEF Local
<1> QED
    BY <1>1, <1>4, <1>6, <1>7, <1>8, <1>9, SerialNone

LEMMA ExpireBookSerial ==
    ASSUME Inv, Inv', Hands, Hands', Grows, SerialInv, Calm', NEW h \in Handlers, ExpireBook(h)
    PROVE  SerialInv'
<1>0. req[h].pc = "book"
    BY DEF ExpireBook, At
<1>1. req[h] # Idle /\ Local(req[h]) /\ \A v \in Vouchers : Tale(req[h], v)
    BY <1>0, NowIs
<1>2. PICK c \in req[h].todo :
          /\ booked' = [booked EXCEPT ![c] = @ + req[h].seen[c]]
          /\ Goto(h, [req[h] EXCEPT !.pc = "expire", !.cur = c])
    BY DEF ExpireBook
<1>3. c \in Vouchers /\ req[h].seen[c] \in Nat
    BY HeldOK, BoundsAreNat DEF Request, Amounts
<1>4. PICK r \in Request, q \in Request : r = [req[h] EXCEPT !.pc = "expire", !.cur = c] /\ q = req[h]
    BY <1>3, HeldOK DEF Request
<1>5. Goto(h, r)
    BY <1>2, <1>4
<1>6. r.pc = "expire" /\ r.op = q.op /\ r.p = q.p /\ r.seen = q.seen /\ r.todo = q.todo /\ r.cur = c
    BY <1>4 DEF Request
<1>7. \A w \in Vouchers : w # c => ~ Concerns(req[h], w) /\ ~ Concerns(r, w)
    BY <1>0, <1>6, FreeIs, ExpiryIs DEF FreePcs
<1>8. voucher' = voucher /\ pays' = pays /\ journal' = journal /\ cash' = cash
    BY DEF ExpireBook
<1>9. booked' = [booked EXCEPT ![c] = @ + req[h].seen[c]]
    BY <1>2
<1>10. booked'[c] = booked[c] + q.seen[c] /\ \A w \in Vouchers : w # c => booked'[w] = booked[w]
    BY <1>3, <1>4, <1>9 DEF Inv, BooksOK
<1>11. \A w \in Vouchers : Used(w)' = Used(w)
    <2>1. (Taking(r) <=> Taking(req[h])) /\ (Taking(r) => r.p = req[h].p)
        BY <1>0, <1>4, <1>6 DEF Taking, BeforeUpdate
    <2> QED
        BY <1>5, <1>8, <2>1, PaysKept, UsedKept
<1>12. ElseSame(c) /\ SalesSame(c)
    BY <1>8, <1>10, <1>11, ElseStays DEF BooksSame
<1>13. \A v \in q.todo : voucher[v].st = "active" /\ voucher[v].balance = q.seen[v]
    BY <1>0, <1>1, <1>4 DEF Local
<1>14. Local(r)'
    BY <1>6, <1>8, <1>13 DEF Local
<1>15. /\ InJournal(q, c) = 0 /\ InCash(q, c) = 0 /\ InBooked(q, c) = 0 /\ ~ New(q, c)
       /\ InJournal(r, c) = 0 /\ InCash(r, c) = 0 /\ InBooked(r, c) = q.seen[c] /\ ~ New(r, c)
    BY <1>0, <1>4, <1>6, InNothing DEF InJournal, InCash, InBooked, New, FreePcs
<1>16. Tale(r, c)'
    <2>1. q.seen[c] \in Nat /\ Tale(q, c) /\ c \in q.todo
        BY <1>1, <1>3, <1>4
    <2>2. Filled(c) /\ Filled(c)' /\ voucher[c].st = "active"
        BY <1>8, <1>13, <2>1 DEF Filled
    <2>3. booked[c] \in Nat /\ voucher[c].balance \in Nat
        BY <1>3, BookTypes
    <2>6. Used(c) \in Nat /\ Used(c)' \in Nat
        BY <1>3, UsedTypes
    <2>4. /\ cash'[c].income - cash'[c].expense + InCash(r, c) = cash[c].income - cash[c].expense + InCash(q, c)
          /\ journal'[c] - voucher'[c].balance - InJournal(r, c)
                 = journal[c] - voucher[c].balance - InJournal(q, c)
        BY <1>8, <1>15
    <2>8. voucher'[c].balance + Used(c)' + booked'[c] - InBooked(r, c)
                 = voucher[c].balance + Used(c) + booked[c] - InBooked(q, c)
        BY <1>8, <1>10, <1>11, <1>3, <1>15, <2>1, <2>3, <2>6
    <2>5. Sale(voucher'[c].issue, c)
        <3>1. Story(q, c) /\ q.pc = "book"
            BY <1>0, <1>4, <1>15, <2>1, <2>2 DEF Tale
        <3> QED
            BY <1>8, <2>2, <3>1 DEF Story
    <2>7. /\ InBooked(q, c) \in Int /\ InBooked(r, c) \in Int /\ InJournal(q, c) \in Int
          /\ InJournal(r, c) \in Int /\ InCash(q, c) \in Int /\ InCash(r, c) \in Int
        BY <1>15, <2>1
    <2> QED
        BY <1>3, <1>8, <1>12, <1>15, <2>1, <2>2, <2>4, <2>5, <2>6, <2>7, <2>8, TaleMoves
<1> QED
    BY <1>1, <1>5, <1>7, <1>12, <1>14, <1>16, SerialOne

LEMMA ExpireUpdateSerial ==
    ASSUME Inv, Inv', Hands, Hands', Grows, SerialInv, BackedInv, Calm', NEW h \in Handlers,
           ExpireUpdate(h)
    PROVE  SerialInv'
<1>0. req[h].pc = "expire" /\ req[h].cur \in Vouchers /\ req[h].cur \in req[h].todo
    BY HeldOK DEF ExpireUpdate, At, RequestOK, BackedInv, Reads
<1>1. req[h] # Idle /\ Local(req[h]) /\ \A v \in Vouchers : Tale(req[h], v)
    BY <1>0, NowIs
<1>c. PICK c \in Vouchers, q \in Request : c = req[h].cur /\ q = req[h]
    BY <1>0, HeldOK
<1>2. "expired" \in Pcs
    BY DEF Pcs
<1>3. PICK r \in Request :
          /\ Goto(h, r)
          /\ r.pc = "expired" /\ r.op = q.op /\ r.v = q.v /\ r.p = q.p /\ r.seen = q.seen
          /\ r.todo = q.todo /\ r.cur = c
    BY <1>c, <1>2, StepIs DEF ExpireUpdate
<1>4. \A w \in Vouchers : w # c => ~ Concerns(req[h], w) /\ ~ Concerns(r, w)
    BY <1>0, <1>c, <1>3, ExpiryIs
<1>5. pays' = pays /\ booked' = booked /\ journal' = journal /\ cash' = cash
    BY DEF ExpireUpdate, books
<1>a. \A v \in q.todo : voucher[v].st = "active" /\ voucher[v].balance = q.seen[v]
    BY <1>0, <1>1, <1>c DEF Local
<1>b. voucher[c].st = "active" /\ voucher[c].balance = q.seen[c]
    BY <1>0, <1>a, <1>c
<1>6. /\ voucher'[c].st = "expired" /\ voucher'[c].balance = 0
      /\ voucher'[c].initial = voucher[c].initial
      /\ \A w \in Vouchers : w # c => voucher'[w] = voucher[w]
    <2>1. Set(c, "expired", 0)
        BY <1>b, <1>c DEF ExpireUpdate
    <2> QED
        BY <2>1, SetIs
<1>7. \A w \in Vouchers : Used(w)' = Used(w)
    <2>1. (Taking(r) <=> Taking(req[h])) /\ (Taking(r) => r.p = req[h].p)
        BY <1>0, <1>c, <1>3 DEF Taking, BeforeUpdate
    <2> QED
        BY <1>3, <1>5, <2>1, PaysKept, UsedKept
<1>8. ElseSame(c) /\ SalesSame(c)
    BY <1>5, <1>6, <1>7, ElseStays DEF BooksSame
<1>9. Local(r)'
    <2>1. \A v \in r.todo : v \in Vouchers
        BY DEF Request
    <2>2. \A v \in r.todo : v # r.cur => voucher'[v].st = "active" /\ voucher'[v].balance = r.seen[v]
        BY <1>a, <1>3, <1>6, <2>1
    <2>3. voucher'[r.cur].st = "expired"
        BY <1>3, <1>6
    <2>4. \A v \in r.todo : voucher'[v].st \in {"active", "expired"}
        BY <2>2, <2>3
    <2> QED
        BY <1>3, <2>2, <2>3, <2>4 DEF Local
<1>10. /\ InJournal(q, c) = 0 /\ InCash(q, c) = 0 /\ InBooked(q, c) = q.seen[c] /\ ~ New(q, c)
       /\ InJournal(r, c) = q.seen[c] /\ InCash(r, c) = 0 /\ InBooked(r, c) = 0 /\ ~ New(r, c)
    BY <1>0, <1>c, <1>3 DEF InJournal, InCash, InBooked, New
<1>11. Tale(r, c)'
    <2>1. q.seen[c] \in Nat /\ Tale(q, c)
        BY <1>1, <1>c, BoundsAreNat DEF Request, Amounts
    <2>2. Filled(c) /\ Filled(c)' /\ voucher'[c].st # "active"
        BY <1>b, <1>6 DEF Filled, Final
    <2>3. booked[c] \in Nat /\ voucher[c].balance \in Nat /\ journal[c] \in Int
        BY BookTypes
    <2>6. Used(c) \in Nat /\ Used(c)' \in Nat
        BY UsedTypes
    <2>4. cash'[c].income - cash'[c].expense + InCash(r, c) = cash[c].income - cash[c].expense + InCash(q, c)
        BY <1>5, <1>10
    <2>5. journal'[c] - voucher'[c].balance - InJournal(r, c)
                 = journal[c] - voucher[c].balance - InJournal(q, c)
        BY <1>b, <1>5, <1>6, <1>10, <2>1, <2>3
    <2>8. voucher'[c].balance + Used(c)' + booked'[c] - InBooked(r, c)
                 = voucher[c].balance + Used(c) + booked[c] - InBooked(q, c)
        BY <1>b, <1>5, <1>6, <1>7, <1>10, <2>1, <2>3, <2>6
    <2>7. /\ InBooked(q, c) \in Int /\ InBooked(r, c) \in Int /\ InJournal(q, c) \in Int
          /\ InJournal(r, c) \in Int /\ InCash(q, c) \in Int /\ InCash(r, c) \in Int
        BY <1>10, <2>1
    <2> QED
        BY <1>6, <1>8, <1>10, <2>1, <2>2, <2>4, <2>5, <2>6, <2>7, <2>8, TaleMoves
<1> QED
    BY <1>1, <1>3, <1>4, <1>8, <1>9, <1>11, SerialOne

LEMMA ExpireRecordSerial ==
    ASSUME Inv, Inv', Hands, Hands', Grows, SerialInv, Calm', NEW h \in Handlers, ExpireRecord(h)
    PROVE  SerialInv'
<1>0. req[h].pc = "expired" /\ req[h].cur \in Vouchers
    BY HeldOK DEF ExpireRecord, At, RequestOK
<1>1. req[h] # Idle /\ Local(req[h]) /\ \A v \in Vouchers : Tale(req[h], v)
    BY <1>0, NowIs
<1>c. PICK c \in Vouchers, q \in Request : c = req[h].cur /\ q = req[h]
    BY <1>0, HeldOK
<1>2. PICK r \in Request : r = NextDue(q)
    BY NextDueIs
<1>3. /\ Goto(h, r)
      /\ r.pc = "book" /\ r.op = q.op /\ r.p = q.p /\ r.seen = q.seen /\ r.todo = q.todo \ {c}
    <2>1. Goto(h, r)
        BY <1>c, <1>2 DEF ExpireRecord
    <2> QED
        BY <1>c, <1>2, <2>1, NextDueIs
<1>4. \A w \in Vouchers : w # c => ~ Concerns(req[h], w) /\ ~ Concerns(r, w)
    BY <1>0, <1>c, <1>3, ExpiryIs, FreeIs DEF FreePcs
<1>5. voucher' = voucher /\ pays' = pays /\ booked' = booked /\ cash' = cash
    BY DEF ExpireRecord
<1>s. q.seen[c] \in Nat
    BY BoundsAreNat DEF Request, Amounts
<1>6. journal'[c] = journal[c] - q.seen[c] /\ \A w \in Vouchers : w # c => journal'[w] = journal[w]
    <2>0. voucher[c].st = "expired"
        BY <1>0, <1>1, <1>c DEF Local
    <2>1. journal' = [journal EXCEPT ![c] = @ + (- q.seen[c])]
        BY <1>c, <2>0 DEF ExpireRecord, Record
    <2>2. journal[c] \in Int
        BY BookTypes
    <2>3. journal'[c] = journal[c] + (- q.seen[c])
        BY <2>1 DEF Inv, BooksOK
    <2> QED
        BY <1>s, <2>1, <2>2, <2>3 DEF Inv, BooksOK
<1>7. \A w \in Vouchers : Used(w)' = Used(w)
    <2>1. (Taking(r) <=> Taking(req[h])) /\ (Taking(r) => r.p = req[h].p)
        BY <1>0, <1>c, <1>3 DEF Taking, BeforeUpdate
    <2> QED
        BY <1>3, <1>5, <2>1, PaysKept, UsedKept
<1>8. ElseSame(c) /\ SalesSame(c)
    BY <1>5, <1>6, <1>7, ElseStays DEF BooksSame
<1>a. /\ \A v \in q.todo \ {c} : voucher[v].st = "active" /\ voucher[v].balance = q.seen[v]
      /\ voucher[c].st = "expired"
    BY <1>0, <1>1, <1>c DEF Local
<1>9. Local(r)'
    BY <1>a, <1>3, <1>5 DEF Local
<1>10. /\ InJournal(q, c) = q.seen[c] /\ InCash(q, c) = 0 /\ InBooked(q, c) = 0 /\ ~ New(q, c)
       /\ InJournal(r, c) = 0 /\ InCash(r, c) = 0 /\ InBooked(r, c) = 0 /\ ~ New(r, c)
    BY <1>0, <1>c, <1>3, InNothing DEF InJournal, InCash, InBooked, New, FreePcs
<1>11. Tale(r, c)'
    <2>1. Tale(q, c)
        BY <1>1, <1>c
    <2>2. Filled(c) /\ Filled(c)' /\ voucher'[c].st # "active"
        BY <1>a, <1>5 DEF Filled, Final
    <2>3. voucher[c].balance \in Nat /\ journal[c] \in Int
        BY BookTypes
    <2>6. Used(c) \in Nat /\ Used(c)' \in Nat
        BY UsedTypes
    <2>4. /\ cash'[c].income - cash'[c].expense + InCash(r, c) = cash[c].income - cash[c].expense + InCash(q, c)
          /\ voucher'[c].balance + Used(c)' + booked'[c] - InBooked(r, c)
                 = voucher[c].balance + Used(c) + booked[c] - InBooked(q, c)
        BY <1>5, <1>7, <1>10
    <2>5. journal'[c] - voucher'[c].balance - InJournal(r, c)
                 = journal[c] - voucher[c].balance - InJournal(q, c)
        BY <1>s, <1>5, <1>6, <1>10, <2>3
    <2>7. /\ InBooked(q, c) \in Int /\ InBooked(r, c) \in Int /\ InJournal(q, c) \in Int
          /\ InJournal(r, c) \in Int /\ InCash(q, c) \in Int /\ InCash(r, c) \in Int
        BY <1>s, <1>10
    <2> QED
        BY <1>5, <1>8, <1>10, <2>1, <2>2, <2>4, <2>5, <2>6, <2>7, TaleMoves
<1> QED
    BY <1>1, <1>3, <1>4, <1>8, <1>9, <1>11, SerialOne

LEMMA ExpireDoneSerial ==
    ASSUME Inv, Inv', Hands, Hands', Grows, SerialInv, Calm', NEW h \in Handlers, ExpireDone(h)
    PROVE  SerialInv'
<1>0. req[h].pc = "book" /\ UNCHANGED <<voucher, books>>
    BY DEF ExpireDone, At
<1>1. req[h] # Idle
    BY <1>0, NowIs
<1>2. CASE req[h].op = "look" /\ End(h)
    <2>1. PICK r \in Request : r = Idle
        BY IdleOK
    <2>2. Goto(h, r) /\ r.pc = "idle" /\ ~ Taking(r) /\ ~ Taking(req[h])
        BY <1>2, <2>1, NoReadsIdle, IdleFree DEF End, Taking
    <2>3. \A w \in Vouchers : ~ Concerns(req[h], w) /\ ~ Concerns(r, w)
        BY <1>0, <2>2, FreeIs DEF FreePcs
    <2> QED
        BY <1>0, <1>1, <2>1, <2>2, <2>3, SerialNone
<1>3. CASE req[h].op = "redeem" /\ Step(h, "read")
    <2>1. "read" \in Pcs
        BY DEF Pcs
    <2>2. PICK r \in Request :
              Goto(h, r) /\ r.pc = "read" /\ r.op = req[h].op /\ r.v = req[h].v /\ r.p = req[h].p
        BY <1>3, <2>1, StepIs
    <2>3. \A w \in Vouchers : ~ Concerns(req[h], w) /\ ~ Concerns(r, w)
        BY <1>0, <2>2, FreeIs DEF FreePcs
    <2>4. (Taking(r) <=> Taking(req[h])) /\ (Taking(r) => r.p = req[h].p)
        BY <1>0, <2>2 DEF Taking, BeforeUpdate
    <2>5. Local(r)'
        BY <2>2, NoLocal DEF UnknownPcs
    <2> QED
        BY <1>0, <1>1, <2>2, <2>3, <2>4, <2>5, SerialNone
<1> QED
    BY <1>2, <1>3 DEF ExpireDone

-----------------------------------------------------------------------------
(* One at a time: the steps of a redemption *)

LEMMA RedeemSerial ==
    ASSUME Inv, Inv', Hands, Hands', Grows, SerialInv, Calm', NEW h \in Handlers,
           NEW v \in Vouchers, NEW a \in Amounts \ {0}, Redeem(h, v, a)
    PROVE  SerialInv'
<1>p. PICK p \in Payments :
          /\ Insert(p, "redeem", v, a)
          /\ Begin(h, [Idle EXCEPT !.op = "redeem", !.pc = "rows", !.v = v, !.p = p, !.amount = a])
    BY DEF Redeem
<1>0. "redeem" \in Ops
    BY <1>p DEF Begin, Idle
<1>1. PICK r \in Request :
          r = [Idle EXCEPT !.op = "redeem", !.pc = "rows", !.v = v, !.p = p, !.amount = a]
    BY <1>0, IdleOK DEF Request
<1>2. r.op = "redeem" /\ r.pc = "rows"
    BY <1>1 DEF Idle
<1>3. Begin(h, r)
    BY <1>p, <1>1
<1>4. Goto(h, r) /\ req[h] = Idle
    BY <1>3 DEF Begin
<1>5. Quiet /\ \A w \in Vouchers : Tale(Idle, w)
    BY <1>3, SerialBegins
<1>6. \A w \in Vouchers : ~ Concerns(req[h], w) /\ ~ Concerns(r, w)
    BY <1>2, <1>4, IdleFree, FreeIs DEF FreePcs
<1>7. voucher' = voucher /\ booked' = booked /\ journal' = journal /\ cash' = cash
      /\ voucher[v].st \in {"active"} \cup Final
    BY DEF Redeem
<1>8. \A w \in Vouchers : Used(w)' = Used(w)
    BY RedeemUses
<1>9. /\ pays[p].st = "none" /\ pays'[p].st = "redeem" /\ pays'[p].v = v
      /\ \A q \in Payments : q # p => pays'[q] = pays[q]
    BY <1>p DEF Insert, Inv, PaysOK
<1>10. \A w : SalesSame(w) /\ BooksSame(w)
    BY <1>7, <1>9 DEF SalesSame, BooksSame
<1>11. ASSUME NEW w \in Vouchers, Unsold(w), voucher[w].st = "none" PROVE Unsold(w)'
    <2>1. w # v
        BY <1>7, <1>11 DEF Final
    <2> QED
        BY <1>7, <1>9, <1>11, <2>1 DEF Unsold
<1>12. PICK c : c \notin Vouchers
    BY NoneIsNoId
<1>13. ElseSame(c)
    BY <1>7, <1>8, <1>10, <1>11 DEF ElseSame
<1>14. Local(r)'
    BY <1>2, NoLocal DEF UnknownPcs
<1> QED
    BY <1>4, <1>5, <1>6, <1>12, <1>13, <1>14, SerialOne

LEMMA RedeemRowsSerial ==
    ASSUME Inv, Inv', Hands, Hands', Grows, SerialInv, Calm', NEW h \in Handlers, RedeemRows(h)
    PROVE  SerialInv'
<1>0. req[h].pc = "rows" /\ UNCHANGED <<voucher, books>>
    BY DEF RedeemRows, At
<1>1. req[h] # Idle
    BY <1>0, NowIs
<1>2. PICK pc \in {"due", "unpay"} : Step(h, pc)
    BY DEF RedeemRows
<1>3. pc \in Pcs /\ pc \in FreePcs /\ pc \in UnknownPcs /\ pc \in BeforeUpdate
    BY DEF Pcs, FreePcs, UnknownPcs, BeforeUpdate
<1>4. PICK r \in Request :
          Goto(h, r) /\ r.pc = pc /\ r.op = req[h].op /\ r.v = req[h].v /\ r.p = req[h].p
    BY <1>2, <1>3, StepIs
<1>5. \A w \in Vouchers : ~ Concerns(req[h], w) /\ ~ Concerns(r, w)
    BY <1>0, <1>3, <1>4, FreeIs DEF FreePcs
<1>6. (Taking(r) <=> Taking(req[h])) /\ (Taking(r) => r.p = req[h].p)
    BY <1>0, <1>3, <1>4 DEF Taking, BeforeUpdate
<1>7. Local(r)'
    BY <1>3, <1>4, NoLocal
<1> QED
    BY <1>0, <1>1, <1>4, <1>5, <1>6, <1>7, SerialNone

LEMMA RedeemReadSerial ==
    ASSUME Inv, Inv', Hands, Hands', Grows, SerialInv, Calm', NEW h \in Handlers, RedeemRead(h)
    PROVE  SerialInv'
<1>0. req[h].pc = "read" /\ UNCHANGED <<voucher, books>> /\ req[h].v \in Vouchers
    BY HeldOK DEF RedeemRead, At, RequestOK, RedeemPcs
<1>1. req[h] # Idle
    BY <1>0, NowIs
<1>2. CASE Step(h, "unpay")
    <2>1. "unpay" \in Pcs
        BY DEF Pcs
    <2>2. PICK r \in Request :
              Goto(h, r) /\ r.pc = "unpay" /\ r.op = req[h].op /\ r.v = req[h].v /\ r.p = req[h].p
        BY <1>2, <2>1, StepIs
    <2>3. \A w \in Vouchers : ~ Concerns(req[h], w) /\ ~ Concerns(r, w)
        BY <1>0, <2>2, FreeIs DEF FreePcs
    <2>4. (Taking(r) <=> Taking(req[h])) /\ (Taking(r) => r.p = req[h].p)
        BY <1>0, <2>2 DEF Taking, BeforeUpdate
    <2>5. Local(r)'
        BY <2>2, NoLocal DEF UnknownPcs
    <2> QED
        BY <1>0, <1>1, <2>2, <2>3, <2>4, <2>5, SerialNone
<1>3. CASE /\ Covers(req[h].v, req[h].amount)
           /\ Goto(h, [req[h] EXCEPT !.pc = "update", !.seen[req[h].v] = voucher[req[h].v].balance])
    <2>1. voucher[req[h].v].balance \in Amounts /\ voucher[req[h].v].st = "active"
        BY <1>0, <1>3, BalanceOK DEF Covers
    <2> DEFINE s == [req[h].seen EXCEPT ![req[h].v] = voucher[req[h].v].balance]
    <2>2. s \in [Vouchers -> Amounts] /\ s[req[h].v] = voucher[req[h].v].balance
        BY <1>0, <2>1, HeldOK DEF Request
    <2>3. PICK r \in Request : r = [req[h] EXCEPT !.pc = "update", !.seen = s]
        BY <2>2, HeldOK DEF Request
    <2>4. Goto(h, r)
        BY <1>3, <2>3, HeldOK DEF Request
    <2>5. r.pc = "update" /\ r.op = req[h].op /\ r.v = req[h].v /\ r.p = req[h].p /\ r.seen = s
        BY <2>3, HeldOK DEF Request
    <2>6. \A w \in Vouchers : ~ Concerns(req[h], w) /\ ~ Concerns(r, w)
        BY <1>0, <2>5, FreeIs DEF FreePcs
    <2>7. (Taking(r) <=> Taking(req[h])) /\ (Taking(r) => r.p = req[h].p)
        BY <1>0, <2>5 DEF Taking, BeforeUpdate
    <2>8. voucher[r.v].st = "active" /\ voucher[r.v].balance = r.seen[r.v]
        BY <2>1, <2>2, <2>5
    <2>9. Local(r)'
        BY <1>0, <2>5, <2>8 DEF Local, StillRead
    <2> QED
        BY <1>0, <1>1, <2>4, <2>6, <2>7, <2>9, SerialNone
<1> QED
    BY <1>2, <1>3 DEF RedeemRead

LEMMA RedeemUpdateSerial ==
    ASSUME Inv, Inv', Hands, Hands', Grows, SerialInv, Calm', NEW h \in Handlers, RedeemUpdate(h)
    PROVE  SerialInv'
<1>0. req[h].op = "redeem" /\ req[h].pc = "update" /\ req[h].v \in Vouchers /\ req[h].amount \in Nat
    BY HeldOK DEF RedeemUpdate, At, RequestOK, RedeemPcs
<1>1. req[h] # Idle /\ Local(req[h]) /\ \A v \in Vouchers : Tale(req[h], v)
    BY <1>0, NowIs
<1>c. PICK c \in Vouchers, q \in Request : c = req[h].v /\ q = req[h]
    BY <1>0, HeldOK
<1>2. "redeemed" \in Pcs
    BY DEF Pcs
<1>3. PICK r \in Request :
          /\ Goto(h, r)
          /\ r.pc = "redeemed" /\ r.op = q.op /\ r.v = q.v /\ r.p = q.p /\ r.amount = q.amount
    BY <1>c, <1>2, StepIs DEF RedeemUpdate
<1>4. \A w \in Vouchers : w # c => ~ Concerns(req[h], w) /\ ~ Concerns(r, w)
    BY <1>0, <1>c, <1>3, OwnIs DEF OwnPcs, FreePcs
<1>5. pays' = pays /\ booked' = booked /\ journal' = journal /\ cash' = cash
    BY DEF RedeemUpdate, books
<1>a. StillRead(q) /\ voucher[c].st = "active" /\ voucher[c].balance = q.seen[c]
    BY <1>0, <1>1, <1>c DEF Local, StillRead
<1>6. /\ voucher'[c].st \in {"active", "redeemed"} /\ voucher'[c].balance = voucher[c].balance - q.amount
      /\ voucher'[c].initial = voucher[c].initial /\ voucher'[c].issue = voucher[c].issue
      /\ \A w \in Vouchers : w # c => voucher'[w] = voucher[w]
    <2>1. Set(c, StatusFor(q.seen[c] - q.amount), q.seen[c] - q.amount)
        BY <1>a, <1>c DEF RedeemUpdate
    <2>2. StatusFor(q.seen[c] - q.amount) \in {"active", "redeemed"}
        BY DEF StatusFor
    <2> QED
        BY <1>a, <2>1, <2>2, SetIs
<1>7. Used(c)' = Used(c) + q.amount /\ \A w \in Vouchers : w # c => Used(w)' = Used(w)
    BY <1>c, RedeemUpdateUses
<1>8. ElseSame(c) /\ SalesSame(c)
    BY <1>5, <1>6, <1>7, ElseStays DEF BooksSame
<1>9. Local(r)'
    BY <1>c, <1>3, <1>6 DEF Local
<1>10. /\ InJournal(q, c) = 0 /\ InCash(q, c) = 0 /\ InBooked(q, c) = 0 /\ ~ New(q, c)
       /\ InJournal(r, c) = q.amount /\ InCash(r, c) = 0 /\ InBooked(r, c) = 0 /\ ~ New(r, c)
    BY <1>0, <1>c, <1>3 DEF InJournal, InCash, InBooked, New
<1>11. Tale(r, c)'
    <2>1. q.amount \in Nat /\ Tale(q, c)
        BY <1>0, <1>1, <1>c
    <2>2. Filled(c) /\ Filled(c)'
        BY <1>a, <1>6 DEF Filled, Final
    <2>3. voucher[c].balance \in Nat /\ journal[c] \in Int /\ booked[c] \in Nat
        BY BookTypes
    <2>6. Used(c) \in Nat /\ Used(c)' \in Nat
        BY UsedTypes
    <2>4. cash'[c].income - cash'[c].expense + InCash(r, c) = cash[c].income - cash[c].expense + InCash(q, c)
        BY <1>5, <1>10
    <2>8. voucher'[c].balance + Used(c)' + booked'[c] - InBooked(r, c)
                 = voucher[c].balance + Used(c) + booked[c] - InBooked(q, c)
        BY <1>5, <1>6, <1>7, <1>10, <2>1, <2>3, <2>6
    <2>9. journal'[c] - voucher'[c].balance - InJournal(r, c)
                 = journal[c] - voucher[c].balance - InJournal(q, c)
        BY <1>5, <1>6, <1>10, <2>1, <2>3
    <2>5. Sale(voucher'[c].issue, c)
        <3>1. Story(q, c) /\ q.pc = "update"
            BY <1>0, <1>10, <1>c, <2>1, <2>2 DEF Tale, Filled
        <3> QED
            BY <1>a, <1>6, <3>1 DEF Story
    <2>7. /\ InBooked(q, c) \in Int /\ InBooked(r, c) \in Int /\ InJournal(q, c) \in Int
          /\ InJournal(r, c) \in Int /\ InCash(q, c) \in Int /\ InCash(r, c) \in Int
        BY <1>10, <2>1
    <2> QED
        BY <1>6, <1>8, <1>10, <2>1, <2>2, <2>4, <2>5, <2>6, <2>7, <2>8, <2>9, TaleMoves
<1> QED
    BY <1>1, <1>3, <1>4, <1>8, <1>9, <1>11, SerialOne

LEMMA RedeemRecordSerial ==
    ASSUME Inv, Inv', Hands, Hands', Grows, SerialInv, Calm', NEW h \in Handlers, RedeemRecord(h)
    PROVE  SerialInv'
<1>0. req[h].op = "redeem" /\ req[h].pc = "redeemed" /\ req[h].v \in Vouchers /\ req[h].amount \in Nat
    BY HeldOK DEF RedeemRecord, At, RequestOK, RedeemPcs
<1>1. req[h] # Idle /\ Local(req[h]) /\ \A v \in Vouchers : Tale(req[h], v)
    BY <1>0, NowIs
<1>c. PICK c \in Vouchers, q \in Request : c = req[h].v /\ q = req[h]
    BY <1>0, HeldOK
<1>2. "reload" \in Pcs
    BY DEF Pcs
<1>3. PICK r \in Request :
          /\ Goto(h, r)
          /\ r.pc = "reload" /\ r.op = q.op /\ r.v = q.v /\ r.p = q.p /\ r.amount = q.amount
    BY <1>c, <1>2, StepIs DEF RedeemRecord
<1>4. \A w \in Vouchers : w # c => ~ Concerns(req[h], w) /\ ~ Concerns(r, w)
    BY <1>0, <1>c, <1>3, OwnIs, FreeIs DEF OwnPcs, FreePcs
<1>5. voucher' = voucher /\ pays' = pays /\ booked' = booked /\ cash' = cash
    BY DEF RedeemRecord
<1>6. journal'[c] = journal[c] - q.amount /\ \A w \in Vouchers : w # c => journal'[w] = journal[w]
    <2>0. voucher[c].st \in {"active", "redeemed"}
        BY <1>0, <1>1, <1>c DEF Local
    <2>1. journal' = [journal EXCEPT ![c] = @ + (- q.amount)]
        BY <1>c, <2>0 DEF RedeemRecord, Record
    <2>2. journal[c] \in Int
        BY BookTypes
    <2>3. journal'[c] = journal[c] + (- q.amount)
        BY <2>1 DEF Inv, BooksOK
    <2> QED
        BY <1>0, <1>c, <2>1, <2>2, <2>3 DEF Inv, BooksOK
<1>7. \A w \in Vouchers : Used(w)' = Used(w)
    <2>1. ~ Taking(r) /\ ~ Taking(req[h])
        BY <1>0, <1>3 DEF Taking, BeforeUpdate
    <2> QED
        BY <1>3, <1>5, <2>1, PaysKept, UsedKept
<1>8. ElseSame(c) /\ SalesSame(c)
    BY <1>5, <1>6, <1>7, ElseStays DEF BooksSame
<1>9. Local(r)'
    BY <1>3, NoLocal DEF UnknownPcs
<1>a. voucher[c].st \in {"active", "redeemed"}
    BY <1>0, <1>1, <1>c DEF Local
<1>10. /\ InJournal(q, c) = q.amount /\ InCash(q, c) = 0 /\ InBooked(q, c) = 0 /\ ~ New(q, c)
       /\ InJournal(r, c) = 0 /\ InCash(r, c) = 0 /\ InBooked(r, c) = 0 /\ ~ New(r, c)
    BY <1>0, <1>c, <1>3 DEF InJournal, InCash, InBooked, New
<1>11. Tale(r, c)'
    <2>1. q.amount \in Nat /\ Tale(q, c)
        BY <1>0, <1>1, <1>c
    <2>2. Filled(c) /\ Filled(c)'
        BY <1>a, <1>5 DEF Filled, Final
    <2>3. voucher[c].balance \in Nat /\ journal[c] \in Int
        BY BookTypes
    <2>6. Used(c) \in Nat /\ Used(c)' \in Nat
        BY UsedTypes
    <2>4. /\ cash'[c].income - cash'[c].expense + InCash(r, c) = cash[c].income - cash[c].expense + InCash(q, c)
          /\ voucher'[c].balance + Used(c)' + booked'[c] - InBooked(r, c)
                 = voucher[c].balance + Used(c) + booked[c] - InBooked(q, c)
        BY <1>5, <1>7, <1>10
    <2>9. journal'[c] - voucher'[c].balance - InJournal(r, c)
                 = journal[c] - voucher[c].balance - InJournal(q, c)
        BY <1>5, <1>6, <1>10, <2>1, <2>3
    <2>5. voucher'[c].st = "active" => Sale(voucher'[c].issue, c)
        <3>1. Story(q, c) /\ q.pc = "redeemed"
            BY <1>0, <1>10, <1>c, <2>1, <2>2 DEF Tale, Filled
        <3> QED
            BY <1>5, <3>1 DEF Story
    <2>7. /\ InBooked(q, c) \in Int /\ InBooked(r, c) \in Int /\ InJournal(q, c) \in Int
          /\ InJournal(r, c) \in Int /\ InCash(q, c) \in Int /\ InCash(r, c) \in Int
        BY <1>10, <2>1
    <2> QED
        BY <1>5, <1>8, <1>10, <2>1, <2>2, <2>4, <2>5, <2>6, <2>7, <2>9, TaleMoves
<1> QED
    BY <1>1, <1>3, <1>4, <1>8, <1>9, <1>11, SerialOne

LEMMA RedeemReloadSerial ==
    ASSUME Inv, Inv', Hands, Hands', Grows, SerialInv, Calm', NEW h \in Handlers, RedeemReload(h)
    PROVE  SerialInv'
<1>0. req[h].pc = "reload" /\ UNCHANGED <<voucher, books>>
    BY DEF RedeemReload, At
<1>1. req[h] # Idle
    BY <1>0, NowIs
<1>2. End(h)
    BY DEF RedeemReload, Happens
<1>3. PICK r \in Request : r = Idle
    BY IdleOK
<1>4. Goto(h, r) /\ r.pc = "idle" /\ ~ Taking(r) /\ ~ Taking(req[h])
    BY <1>0, <1>2, <1>3, NoReadsIdle, IdleFree DEF End, Taking, BeforeUpdate
<1>5. \A w \in Vouchers : ~ Concerns(req[h], w) /\ ~ Concerns(r, w)
    BY <1>0, <1>4, FreeIs DEF FreePcs
<1> QED
    BY <1>0, <1>1, <1>3, <1>4, <1>5, SerialNone

LEMMA UnpaySerial ==
    ASSUME Inv, Inv', Hands, Hands', Grows, SerialInv, Calm', NEW h \in Handlers, Unpay(h)
    PROVE  SerialInv'
<1>0. req[h].op = "redeem" /\ req[h].pc = "unpay" /\ req[h].p \in Payments
    BY HeldOK DEF Unpay, At, RequestOK, RedeemPcs
<1>1. req[h] # Idle
    BY <1>0, NowIs
<1>2. PICK r \in Request : r = Idle
    BY IdleOK
<1>3. Goto(h, r) /\ r.pc = "idle"
    BY <1>2, IdleFree DEF Unpay, End
<1>4. \A w \in Vouchers : ~ Concerns(req[h], w) /\ ~ Concerns(r, w)
    BY <1>0, <1>3, FreeIs DEF FreePcs
<1>5. voucher' = voucher /\ booked' = booked /\ journal' = journal /\ cash' = cash
    BY DEF Unpay
<1>6. \A w \in Vouchers : Used(w)' = Used(w)
    BY UnpayUses
<1>14. pays[req[h].p] = [st |-> "redeem", v |-> req[h].v, amount |-> req[h].amount]
    BY <1>0 DEF Hands
<1>7. pays[req[h].p].st = "redeem"
    BY <1>14
<1>8. \A q \in Payments : pays'[q] = pays[q]
          \/ (pays[q].st = "redeem" /\ pays'[q].st = "deleted" /\ pays'[q].v = pays[q].v)
    BY <1>7 DEF Unpay, Inv, PaysOK, PaymentRecord
<1>9. \A w : SalesSame(w) /\ BooksSame(w) /\ (Unsold(w) => Unsold(w)')
    <2>1. \A w : SalesSame(w)
        BY <1>8 DEF SalesSame
    <2>2. \A w : BooksSame(w)
        BY <1>5 DEF BooksSame
    <2>3. \A w : Unsold(w) => Unsold(w)'
        BY <1>5, <1>8 DEF Unsold
    <2> QED
        BY <2>1, <2>2, <2>3
<1>10. PICK c : c \notin Vouchers
    BY NoneIsNoId
<1>11. ElseSame(c)
    BY <1>5, <1>6, <1>9 DEF ElseSame
<1> QED
    BY <1>1, <1>2, <1>3, <1>4, <1>10, <1>11, SerialOne

-----------------------------------------------------------------------------
(* One at a time: the steps of a void *)

LEMMA VoidSerial ==
    ASSUME Inv, Inv', Hands, Hands', Grows, SerialInv, Calm', NEW h \in Handlers,
           NEW v \in Vouchers, Void(h, v)
    PROVE  SerialInv'
<1>0. "void" \in Ops
    BY DEF Void, Begin, Idle
<1>a. voucher[v].issue \in Payments \cup {None} /\ voucher[v].balance \in Amounts
    BY BalanceOK DEF Inv, VouchersOK, VoucherRecord
<1>1. PICK r \in Request : r = [Idle EXCEPT !.op = "void", !.pc = "vcash", !.v = v, !.p = voucher[v].issue,
                                             !.amount = voucher[v].balance]
    BY <1>0, <1>a, IdleOK DEF Request
<1>2. r.op = "void" /\ r.pc = "vcash" /\ r.v = v /\ r.p = voucher[v].issue /\ r.amount = voucher[v].balance
    BY <1>1 DEF Idle
<1>3. Begin(h, r)
    BY <1>1 DEF Void
<1>4. Goto(h, r) /\ req[h] = Idle
    BY <1>3 DEF Begin
<1>5. Quiet /\ \A w \in Vouchers : Tale(Idle, w)
    BY <1>3, SerialBegins
<1>6. \A w \in Vouchers : ~ Concerns(req[h], w) /\ ~ Concerns(r, w)
    BY <1>2, <1>4, IdleFree, FreeIs DEF FreePcs
<1>7. ~ Taking(r) /\ ~ Taking(req[h])
    BY <1>2, <1>4, NoReadsIdle DEF Taking
<1>8. UNCHANGED <<voucher, books>>
    BY DEF Void
<1>9. Local(r)'
    <2>1. voucher[v].st = "active" /\ voucher[v].balance = voucher[v].initial
        BY DEF Void, Untouched
    <2>2. ~ New(Idle, v) /\ ~ (Idle.pc \in {"cash", "link"} /\ Idle.v = v)
        BY IdleFree, InNothing
    <2>3. Story(Idle, v)
        BY <1>5, <2>1, <2>2 DEF Tale
    <2>4. Sale(voucher[v].issue, v)
        BY <2>1, <2>2, <2>3 DEF Story
    <2>5. Sale(r.p, r.v)'
        BY <1>2, <1>8, <2>4 DEF Sale, books
    <2> QED
        BY <1>2, <1>8, <2>1, <2>5 DEF Local
<1> QED
    BY <1>4, <1>5, <1>6, <1>7, <1>8, <1>9, SerialNone

LEMMA VoidCashSerial ==
    ASSUME Inv, Inv', Hands, Hands', Grows, SerialInv, Calm', NEW h \in Handlers, VoidCash(h)
    PROVE  SerialInv'
<1>0. req[h].op = "void" /\ req[h].pc = "vcash" /\ req[h].v \in Vouchers /\ req[h].amount \in Nat
    BY HeldOK DEF VoidCash, At, RequestOK, VoidPcs
<1>1. req[h] # Idle /\ Local(req[h]) /\ \A v \in Vouchers : Tale(req[h], v)
    BY <1>0, NowIs
<1>c. PICK c \in Vouchers, q \in Request : c = req[h].v /\ q = req[h]
    BY <1>0, HeldOK
<1>2. "void" \in Pcs
    BY DEF Pcs
<1>3. PICK r \in Request :
          /\ Goto(h, r)
          /\ r.pc = "void" /\ r.op = q.op /\ r.v = q.v /\ r.p = q.p /\ r.amount = q.amount
    BY <1>c, <1>2, StepIs DEF VoidCash
<1>4. \A w \in Vouchers : w # c => ~ Concerns(req[h], w) /\ ~ Concerns(r, w)
    BY <1>0, <1>c, <1>3, OwnIs DEF OwnPcs, FreePcs
<1>5. voucher' = voucher /\ pays' = pays /\ booked' = booked /\ journal' = journal
    BY DEF VoidCash
<1>6. /\ cash'[c].expense = cash[c].expense + q.amount /\ cash'[c].income = cash[c].income
      /\ \A w \in Vouchers : w # c => cash'[w] = cash[w]
    BY <1>0, <1>c DEF VoidCash, Inv, BooksOK
<1>7. \A w \in Vouchers : Used(w)' = Used(w)
    <2>1. ~ Taking(r) /\ ~ Taking(req[h])
        BY <1>0, <1>c, <1>3 DEF Taking
    <2> QED
        BY <1>3, <1>5, <2>1, PaysKept, UsedKept
<1>8. ElseSame(c) /\ SalesSame(c)
    BY <1>5, <1>6, <1>7, ElseStays DEF BooksSame
<1>9. voucher[c].st = "active" /\ voucher[c].initial = q.amount /\ voucher[c].balance = q.amount /\ Sale(q.p, c)
    BY <1>0, <1>1, <1>c DEF Local
<1>10. Sale(r.p, c)'
    BY <1>3, <1>5, <1>9 DEF Sale
<1>11. Local(r)'
    BY <1>3, <1>5, <1>9, <1>10, <1>c DEF Local
<1>12. /\ InJournal(q, c) = 0 /\ InJournal(r, c) = 0
       /\ InCash(q, c) = 0 /\ InCash(r, c) = q.amount /\ InBooked(q, c) = 0 /\ InBooked(r, c) = 0
       /\ ~ New(q, c) /\ ~ New(r, c)
    BY <1>0, <1>3, <1>c DEF InJournal, InCash, InBooked, New
<1>13. Tale(r, c)'
    <2>1. q.amount \in Nat /\ Tale(q, c)
        BY <1>0, <1>1, <1>c
    <2>2. Filled(c) /\ Filled(c)'
        BY <1>5, <1>9 DEF Filled
    <2>3. cash[c].income \in Nat /\ cash[c].expense \in Nat
        BY BookTypes
    <2>4. cash'[c].income - cash'[c].expense + InCash(r, c) = cash[c].income - cash[c].expense + InCash(q, c)
        BY <1>6, <1>12, <2>1, <2>3
    <2>5. Sale(voucher'[c].issue, c)
        <3>1. Story(q, c) /\ q.pc = "vcash"
            BY <1>0, <1>9, <1>12, <1>c, <2>1 DEF Tale
        <3> QED
            BY <1>5, <1>9, <3>1 DEF Story
    <2>6. Used(c) \in Nat /\ Used(c)' \in Nat
        BY UsedTypes
    <2>7. /\ InBooked(q, c) \in Int /\ InBooked(r, c) \in Int /\ InJournal(q, c) \in Int
          /\ InJournal(r, c) \in Int /\ InCash(q, c) \in Int /\ InCash(r, c) \in Int
        BY <1>12, <2>1
    <2>8. /\ voucher'[c].balance + Used(c)' + booked'[c] - InBooked(r, c)
                 = voucher[c].balance + Used(c) + booked[c] - InBooked(q, c)
          /\ journal'[c] - voucher'[c].balance - InJournal(r, c)
                 = journal[c] - voucher[c].balance - InJournal(q, c)
        BY <1>5, <1>7, <1>12
    <2> QED
        BY <1>5, <1>8, <1>12, <2>1, <2>2, <2>4, <2>5, <2>6, <2>7, <2>8, TaleMoves
<1> QED
    BY <1>1, <1>3, <1>4, <1>8, <1>11, <1>13, SerialOne

LEMMA VoidUpdateSerial ==
    ASSUME Inv, Inv', Hands, Hands', Grows, SerialInv, Calm', NEW h \in Handlers, VoidUpdate(h)
    PROVE  SerialInv'
<1>0. req[h].op = "void" /\ req[h].pc = "void" /\ req[h].v \in Vouchers /\ req[h].amount \in Nat
    BY HeldOK DEF VoidUpdate, At, RequestOK, VoidPcs
<1>1. req[h] # Idle /\ Local(req[h]) /\ \A v \in Vouchers : Tale(req[h], v)
    BY <1>0, NowIs
<1>c. PICK c \in Vouchers, q \in Request : c = req[h].v /\ q = req[h]
    BY <1>0, HeldOK
<1>2. "refund" \in Pcs
    BY DEF Pcs
<1>3. PICK r \in Request :
          /\ Goto(h, r)
          /\ r.pc = "refund" /\ r.op = q.op /\ r.v = q.v /\ r.p = q.p /\ r.amount = q.amount
    BY <1>c, <1>2, StepIs DEF VoidUpdate
<1>4. \A w \in Vouchers : w # c => ~ Concerns(req[h], w) /\ ~ Concerns(r, w)
    BY <1>0, <1>c, <1>3, OwnIs DEF OwnPcs
<1>5. pays' = pays /\ booked' = booked /\ journal' = journal /\ cash' = cash
    BY DEF VoidUpdate, books
<1>9. voucher[c].st = "active" /\ voucher[c].initial = q.amount /\ voucher[c].balance = q.amount /\ Sale(q.p, c)
    BY <1>0, <1>1, <1>c DEF Local
<1>6. /\ voucher'[c].st = "voided" /\ voucher'[c].balance = 0
      /\ voucher'[c].initial = voucher[c].initial
      /\ \A w \in Vouchers : w # c => voucher'[w] = voucher[w]
    <2>1. Set(c, "voided", 0)
        BY <1>9, <1>c DEF VoidUpdate
    <2> QED
        BY <2>1, SetIs
<1>7. \A w \in Vouchers : Used(w)' = Used(w)
    <2>1. ~ Taking(r) /\ ~ Taking(req[h])
        BY <1>0, <1>c, <1>3 DEF Taking
    <2> QED
        BY <1>3, <1>5, <2>1, PaysKept, UsedKept
<1>8. ElseSame(c) /\ SalesSame(c)
    BY <1>5, <1>6, <1>7, ElseStays DEF BooksSame
<1>10. Sale(r.p, c)'
    BY <1>3, <1>5, <1>9 DEF Sale
<1>11. Local(r)'
    BY <1>3, <1>6, <1>9, <1>10, <1>c DEF Local
<1>12. /\ InJournal(q, c) = 0 /\ InJournal(r, c) = q.amount
       /\ InCash(q, c) = q.amount /\ InCash(r, c) = q.amount /\ InBooked(q, c) = 0 /\ InBooked(r, c) = - q.amount
       /\ ~ New(q, c) /\ ~ New(r, c)
    BY <1>0, <1>3, <1>c DEF InJournal, InCash, InBooked, New
<1>13. Tale(r, c)'
    <2>1. q.amount \in Nat /\ Tale(q, c)
        BY <1>0, <1>1, <1>c
    <2>2. Filled(c) /\ Filled(c)' /\ voucher'[c].st # "active"
        BY <1>6, <1>9 DEF Filled, Final
    <2>3. booked[c] \in Nat /\ journal[c] \in Int
        BY BookTypes
    <2>6. Used(c) \in Nat /\ Used(c)' \in Nat
        BY UsedTypes
    <2>4. cash'[c].income - cash'[c].expense + InCash(r, c) = cash[c].income - cash[c].expense + InCash(q, c)
        BY <1>5, <1>12
    <2>5. voucher'[c].balance + Used(c)' + booked'[c] - InBooked(r, c)
                 = voucher[c].balance + Used(c) + booked[c] - InBooked(q, c)
        BY <1>5, <1>6, <1>7, <1>9, <1>12, <2>1, <2>3, <2>6
    <2>8. journal'[c] - voucher'[c].balance - InJournal(r, c)
                 = journal[c] - voucher[c].balance - InJournal(q, c)
        BY <1>5, <1>6, <1>9, <1>12, <2>1, <2>3
    <2>7. /\ InBooked(q, c) \in Int /\ InBooked(r, c) \in Int /\ InJournal(q, c) \in Int
          /\ InJournal(r, c) \in Int /\ InCash(q, c) \in Int /\ InCash(r, c) \in Int
        BY <1>12, <2>1
    <2> QED
        BY <1>6, <1>8, <1>12, <2>1, <2>2, <2>4, <2>5, <2>6, <2>7, <2>8, TaleMoves
<1> QED
    BY <1>1, <1>3, <1>4, <1>8, <1>11, <1>13, SerialOne

LEMMA VoidRefundSerial ==
    ASSUME Inv, Inv', Hands, Hands', Grows, SerialInv, Calm', NEW h \in Handlers, VoidRefund(h)
    PROVE  SerialInv'
<1>0. req[h].op = "void" /\ req[h].pc = "refund" /\ req[h].v \in Vouchers /\ req[h].amount \in Nat
    BY HeldOK DEF VoidRefund, At, RequestOK, VoidPcs
<1>1. req[h] # Idle /\ Local(req[h]) /\ \A v \in Vouchers : Tale(req[h], v)
    BY <1>0, NowIs
<1>c. PICK c \in Vouchers, q \in Request : c = req[h].v /\ q = req[h]
    BY <1>0, HeldOK
<1>2. "voided" \in Pcs
    BY DEF Pcs
<1>3. PICK r \in Request :
          /\ Goto(h, r)
          /\ r.pc = "voided" /\ r.op = q.op /\ r.v = q.v /\ r.p = q.p /\ r.amount = q.amount
    BY <1>c, <1>2, StepIs DEF VoidRefund
<1>4. \A w \in Vouchers : w # c => ~ Concerns(req[h], w) /\ ~ Concerns(r, w)
    BY <1>0, <1>c, <1>3, OwnIs DEF OwnPcs
<1>5. voucher' = voucher /\ booked' = booked /\ journal' = journal /\ cash' = cash
    BY DEF VoidRefund
<1>9. voucher[c].st = "voided" /\ voucher[c].initial = q.amount /\ Sale(q.p, c)
    BY <1>0, <1>1, <1>c DEF Local
<1>p. PICK p \in Payments : p = q.p /\ pays[p].v = c /\ pays[p].st = "issue"
    BY <1>9 DEF Sale
<1>6. /\ pays'[p].st = "refunded" /\ pays'[p].v = c
      /\ \A x \in Payments : x # p => pays'[x] = pays[x]
    BY <1>c, <1>p DEF VoidRefund, Refundable, Inv, PaysOK, PaymentRecord
<1>o. OtherPays
    BY <1>p, <1>6 DEF OtherPays
<1>7. \A w \in Vouchers : Used(w)' = Used(w)
    <2>1. ~ Taking(r) /\ ~ Taking(req[h])
        BY <1>0, <1>c, <1>3 DEF Taking
    <2> QED
        BY <1>3, <1>o, <2>1, UsedKept
<1>8. ElseSame(c)
    <2>1. ASSUME NEW w \in Vouchers, w # c PROVE SalesSame(w) /\ (Unsold(w) => Unsold(w)')
        <3>1. SalesSame(w)
            BY <1>p, <1>6, <2>1 DEF SalesSame
        <3>2. Unsold(w) => Unsold(w)'
            BY <1>p, <1>5, <1>6, <2>1 DEF Unsold
        <3> QED
            BY <3>1, <3>2
    <2> QED
        BY <1>5, <1>7, <2>1 DEF ElseSame, BooksSame
<1>11. Local(r)'
    BY <1>3, <1>5, <1>9, <1>c DEF Local
<1>12. /\ InJournal(q, c) = q.amount /\ InJournal(r, c) = q.amount
       /\ InCash(q, c) = q.amount /\ InCash(r, c) = 0 /\ InBooked(q, c) = - q.amount /\ InBooked(r, c) = 0
       /\ ~ New(q, c) /\ ~ New(r, c)
    BY <1>0, <1>3, <1>c DEF InJournal, InCash, InBooked, New
<1>13. Tale(r, c)'
    <2>1. q.amount \in Nat /\ Tale(q, c)
        BY <1>0, <1>1, <1>c
    <2>2. Story(q, c)
        BY <1>9, <1>12, <2>1 DEF Tale, Final
    <2>3. booked[c] \in Nat /\ journal[c] \in Int /\ cash[c].income \in Nat /\ cash[c].expense \in Nat
          /\ voucher[c].balance \in Nat
        BY BookTypes
    <2>4. Used(c) \in Nat /\ Used(c)' = Used(c)
        BY <1>7, UsedTypes
    <2>5. Sold(c) = TRUE /\ Refunded(c) = FALSE
        <3>1. Sold(c)
            BY <1>p DEF Sold
        <3>2. Sold(c) # Refunded(c)
            BY <2>2 DEF Story
        <3> QED
            BY <3>1, <3>2 DEF Sold, Refunded
    <2>6. \A x \in Payments : pays[x].v = c /\ pays[x].st \in {"issue", "refunded"} => x = p
        BY <1>p, <2>2 DEF Story, SoldOnce
    <2>7. Sold(c)' = FALSE /\ Refunded(c)' = TRUE /\ SoldOnce(c)'
        <3>1. Refunded(c)'
            BY <1>6 DEF Refunded
        <3>2. ~ Sold(c)'
            BY <1>6, <2>6 DEF Sold
        <3>3. SoldOnce(c)'
            BY <1>6, <2>6 DEF SoldOnce
        <3> QED
            BY <3>1, <3>2, <3>3 DEF Sold, Refunded
    <2>8. ASSUME hist' \subseteq BookSlips
          PROVE  voucher[c].initial + InBooked(r, c)
                     = voucher[c].balance + Used(c)' + booked[c] + voucher[c].initial
        <3>1. voucher[c].initial + InBooked(q, c) = voucher[c].balance + Used(c) + booked[c]
                 + (IF Refunded(c) THEN voucher[c].initial ELSE 0)
            BY <2>2, <2>8 DEF Story, Grows
        <3> QED
            BY <1>9, <1>12, <2>1, <2>3, <2>4, <2>5, <3>1
    <2>9. hist' \subseteq ValueSlips => journal[c] = voucher[c].balance + InJournal(r, c)
        BY <1>12, <2>2 DEF Story, Grows
    <2>10. ASSUME hist' \subseteq ValueSlips
           PROVE  cash[c].income - cash[c].expense + InCash(r, c) = 0
        <3>1. cash[c].income - cash[c].expense + InCash(q, c) = IF Sold(c) THEN voucher[c].initial ELSE 0
            BY <2>2, <2>10 DEF Story, Grows
        <3> QED
            BY <1>9, <1>12, <2>1, <2>3, <2>5, <3>1
    <2>11. Story(r, c)'
        BY <1>5, <1>9, <2>7, <2>8, <2>9, <2>10 DEF Story
    <2> QED
        BY <1>5, <1>9, <1>12, <2>11 DEF Tale
<1> QED
    BY <1>1, <1>3, <1>4, <1>8, <1>11, <1>13, SerialOne

LEMMA VoidRecordSerial ==
    ASSUME Inv, Inv', Hands, Hands', Grows, SerialInv, Calm', NEW h \in Handlers, VoidRecord(h)
    PROVE  SerialInv'
<1>0. req[h].op = "void" /\ req[h].pc = "voided" /\ req[h].v \in Vouchers /\ req[h].amount \in Nat
    BY HeldOK DEF VoidRecord, At, RequestOK, VoidPcs
<1>1. req[h] # Idle /\ Local(req[h]) /\ \A v \in Vouchers : Tale(req[h], v)
    BY <1>0, NowIs
<1>c. PICK c \in Vouchers, q \in Request, r \in Request : c = req[h].v /\ q = req[h] /\ r = Idle
    BY <1>0, HeldOK, IdleOK
<1>3. Goto(h, r) /\ r.pc = "idle" /\ r.pc \in FreePcs /\ ~ Taking(r)
    BY <1>c, NoReadsIdle, IdleFree DEF VoidRecord, End
<1>4. \A w \in Vouchers : w # c => ~ Concerns(req[h], w) /\ ~ Concerns(r, w)
    BY <1>0, <1>c, <1>3, OwnIs, FreeIs DEF OwnPcs
<1>5. voucher' = voucher /\ pays' = pays /\ booked' = booked /\ cash' = cash
    BY DEF VoidRecord
<1>6. journal'[c] = journal[c] - q.amount /\ \A w \in Vouchers : w # c => journal'[w] = journal[w]
    <2>0. voucher[c].st = "voided"
        BY <1>0, <1>1, <1>c DEF Local
    <2>1. journal' = [journal EXCEPT ![c] = @ + (- q.amount)]
        BY <1>c, <2>0 DEF VoidRecord, Record
    <2>2. journal[c] \in Int
        BY BookTypes
    <2>3. journal'[c] = journal[c] + (- q.amount)
        BY <2>1 DEF Inv, BooksOK
    <2> QED
        BY <1>0, <1>c, <2>1, <2>2, <2>3 DEF Inv, BooksOK
<1>7. \A w \in Vouchers : Used(w)' = Used(w)
    <2>1. ~ Taking(req[h])
        BY <1>0 DEF Taking
    <2> QED
        BY <1>3, <1>5, <2>1, PaysKept, UsedKept
<1>8. ElseSame(c) /\ SalesSame(c)
    BY <1>5, <1>6, <1>7, ElseStays DEF BooksSame
<1>9. voucher[c].st = "voided"
    BY <1>0, <1>1, <1>c DEF Local
<1>12. /\ InJournal(q, c) = q.amount /\ InCash(q, c) = 0 /\ InBooked(q, c) = 0 /\ ~ New(q, c)
       /\ InJournal(r, c) = 0 /\ InCash(r, c) = 0 /\ InBooked(r, c) = 0 /\ ~ New(r, c)
    BY <1>0, <1>3, <1>c, InNothing DEF InJournal, InCash, InBooked, New
<1>13. Tale(r, c)'
    <2>1. q.amount \in Nat /\ Tale(q, c)
        BY <1>0, <1>1, <1>c
    <2>2. Filled(c) /\ Filled(c)' /\ voucher'[c].st # "active"
        BY <1>5, <1>9 DEF Filled, Final
    <2>3. journal[c] \in Int /\ voucher[c].balance \in Nat
        BY BookTypes
    <2>4. /\ cash'[c].income - cash'[c].expense + InCash(r, c) = cash[c].income - cash[c].expense + InCash(q, c)
          /\ voucher'[c].balance + Used(c)' + booked'[c] - InBooked(r, c)
                 = voucher[c].balance + Used(c) + booked[c] - InBooked(q, c)
        BY <1>5, <1>7, <1>12
    <2>8. journal'[c] - voucher'[c].balance - InJournal(r, c)
                 = journal[c] - voucher[c].balance - InJournal(q, c)
        BY <1>5, <1>6, <1>12, <2>1, <2>3
    <2>6. Used(c) \in Nat /\ Used(c)' \in Nat
        BY UsedTypes
    <2>7. /\ InBooked(q, c) \in Int /\ InBooked(r, c) \in Int /\ InJournal(q, c) \in Int
          /\ InJournal(r, c) \in Int /\ InCash(q, c) \in Int /\ InCash(r, c) \in Int
        BY <1>12, <2>1
    <2> QED
        BY <1>5, <1>8, <1>12, <2>1, <2>2, <2>4, <2>6, <2>7, <2>8, TaleMoves
<1> QED
    BY <1>1, <1>3, <1>4, <1>8, <1>13, <1>c, SerialOne

-----------------------------------------------------------------------------
(* One at a time: the statements that fail *)

\* A statement with voucher c in hand fails, and the request goes on.
LEMMA FailMoves ==
    ASSUME Inv, Inv', Hands, Hands', Grows, SerialInv, Calm', NEW h \in Handlers, req[h].pc # "idle",
           UNCHANGED <<voucher, books>>,
           NEW q \in Request, q = req[h], NEW r \in Request, Goto(h, r), NEW c \in Vouchers,
           \A w \in Vouchers : w # c => ~ Concerns(req[h], w) /\ ~ Concerns(r, w) /\ Used(w)' = Used(w),
           Filled(c), ~ New(q, c), ~ New(r, c),
           InBooked(q, c) \in Int, InBooked(r, c) \in Int, InJournal(q, c) \in Int,
           InJournal(r, c) \in Int, InCash(q, c) \in Int, InCash(r, c) \in Int,
           hist' \subseteq BookSlips => Used(c)' = Used(c) /\ InBooked(r, c) = InBooked(q, c),
           hist' \subseteq ValueSlips => InJournal(r, c) = InJournal(q, c) /\ InCash(r, c) = InCash(q, c),
           q.pc \in {"cash", "link"} /\ q.v = c => r.pc \in {"cash", "link"} /\ r.v = c,
           r # Idle => Local(r)'
    PROVE  SerialInv'
<1>1. req[h] # Idle /\ Tale(q, c)
    BY NowIs
<1>2. voucher' = voucher /\ pays' = pays /\ booked' = booked /\ journal' = journal /\ cash' = cash
    BY DEF books
<1>3. ElseSame(c) /\ SalesSame(c)
    BY <1>2, ElseStays DEF BooksSame
<1>4. Used(c) \in Nat /\ Used(c)' \in Nat
    BY UsedTypes
<1>5. voucher'[c].st = "active" /\ ~ (r.pc \in {"cash", "link"} /\ r.v = c) => Sale(voucher'[c].issue, c)
    BY <1>1, <1>2 DEF Tale, Story, Filled
<1>6. Filled(c)'
    BY <1>2 DEF Filled
<1>7. /\ hist' \subseteq BookSlips =>
             voucher'[c].balance + Used(c)' + booked'[c] - InBooked(r, c)
                 = voucher[c].balance + Used(c) + booked[c] - InBooked(q, c)
      /\ hist' \subseteq ValueSlips =>
             journal'[c] - voucher'[c].balance - InJournal(r, c)
                 = journal[c] - voucher[c].balance - InJournal(q, c)
      /\ hist' \subseteq ValueSlips =>
             cash'[c].income - cash'[c].expense + InCash(r, c)
                 = cash[c].income - cash[c].expense + InCash(q, c)
    BY <1>2
<1>8. Tale(r, c)'
    BY <1>1, <1>2, <1>3, <1>4, <1>5, <1>6, <1>7, TaleMoves
<1> QED
    BY <1>1, <1>3, <1>8, SerialOne

LEMMA SlipIs ==
    ASSUME NEW h \in Handlers, NEW r, NEW what, Slip(h, r, what)
    PROVE  UNCHANGED <<voucher, books>> /\ UNCHANGED pays /\ Goto(h, r) /\ what \in hist'
BY DEF Slip, Happens, books

LEMMA BookSlipIs ==
    ASSUME NEW what \in BookSlips, what \in hist'
    PROVE  ~ (hist' \subseteq ValueSlips)
BY DEF BookSlips, ValueSlips

LEMMA ValueSlipIs ==
    ASSUME NEW what \in ValueSlips, what \in hist'
    PROVE  ~ (hist' \subseteq BookSlips)
BY DEF BookSlips, ValueSlips

\* The books of a sale or of a void are passed over.
LEMMA BookFailsSerial ==
    ASSUME Inv, Inv', Hands, Hands', Grows, SerialInv, Calm', NEW h \in Handlers,
           IssueCashFails(h) \/ VoidCashFails(h) \/ RedeemRecordFails(h)
    PROVE  SerialInv'
<1>0. PICK pc, what :
          /\ Slip(h, [req[h] EXCEPT !.pc = pc], what)
          /\ \/ req[h].pc = "cash" /\ pc = "link" /\ what = "unearned"
             \/ req[h].pc = "vcash" /\ pc = "void" /\ what = "unspent"
             \/ req[h].pc = "redeemed" /\ pc = "reload" /\ what = "unlogged"
    BY DEF IssueCashFails, VoidCashFails, RedeemRecordFails, At
<1>1. req[h].v \in Vouchers /\ req[h].amount \in Nat
    BY <1>0, HeldOK DEF RequestOK, IssuePcs, VoidPcs, RedeemPcs
<1>2. req[h].pc # "idle" /\ req[h] # Idle /\ Local(req[h])
    BY <1>0, NowIs
<1>c. PICK c \in Vouchers, q \in Request : c = req[h].v /\ q = req[h]
    BY <1>1, HeldOK
<1>3. pc \in Pcs
    BY <1>0 DEF Pcs
<1>4. PICK r \in Request : r = [req[h] EXCEPT !.pc = pc]
    BY <1>3, PcIs
<1>5. r.pc = pc /\ r.op = q.op /\ r.v = c /\ r.p = q.p /\ r.amount = q.amount
    BY <1>c, <1>4 DEF Request
<1>6. UNCHANGED <<voucher, books>> /\ pays' = pays /\ Goto(h, r) /\ what \in hist'
    BY <1>0, <1>4, SlipIs
<1>7. ~ (hist' \subseteq ValueSlips)
    BY <1>0, <1>6, BookSlipIs DEF BookSlips
<1>8. ~ Taking(q) /\ ~ Taking(r)
    <2>1. q.op \in {"issue", "void"} \/ (q.pc = "redeemed" /\ r.pc = "reload")
        <3>1. RequestOK(req[h]) /\ req[h].pc \in {"cash", "vcash", "redeemed"}
            BY <1>0, HeldOK
        <3> QED
            <4>1. CASE req[h].pc = "redeemed"
                <5>1. pc = "reload"
                    BY <1>0, <4>1
                <5> QED
                    BY <1>c, <1>5, <4>1, <5>1
            <4>2. CASE req[h].pc \in {"cash", "vcash"}
                <5>1. req[h].op \in {"issue", "void"}
                    BY <3>1, <4>2 DEF RequestOK, IssuePcs, VoidPcs
                <5> QED
                    BY <1>c, <5>1
            <4> QED
                BY <3>1, <4>1, <4>2
    <2> QED
        BY <1>5, <2>1 DEF Taking, BeforeUpdate
<1>9. \A w \in Vouchers : Used(w)' = Used(w)
    BY <1>6, <1>8, <1>c, PaysKept, UsedKept
<1>10. \A w \in Vouchers : w # c => ~ Concerns(req[h], w) /\ ~ Concerns(r, w)
    BY <1>0, <1>c, <1>5, OwnIs DEF OwnPcs, FreePcs
<1>11. /\ ~ New(q, c) /\ ~ New(r, c)
       /\ InBooked(q, c) = 0 /\ InBooked(r, c) = 0
       /\ InJournal(q, c) \in Int /\ InJournal(r, c) \in Int /\ InCash(q, c) \in Int /\ InCash(r, c) \in Int
    BY <1>0, <1>1, <1>c, <1>5 DEF InBooked, InJournal, InCash, New
<1>12. Filled(c)
    BY <1>0, <1>2, <1>c DEF Local, Filled, Final
<1>13. Local(r)'
    <2>1. CASE req[h].pc = "redeemed"
        BY <1>0, <1>5, <2>1, NoLocal DEF UnknownPcs
    <2>2. CASE req[h].pc \in {"cash", "vcash"}
        <3>1. /\ voucher[c].st = "active" /\ voucher[c].initial = q.amount /\ voucher[c].balance = q.amount
              /\ Sale(q.p, c)
            BY <1>2, <1>c, <2>2 DEF Local
        <3>2. Sale(r.p, c)'
            BY <1>5, <1>6, <3>1 DEF Sale
        <3> QED
            BY <1>0, <1>5, <1>6, <2>2, <3>1, <3>2 DEF Local
    <2> QED
        BY <1>0, <2>1, <2>2
<1>14. q.pc \in {"cash", "link"} /\ q.v = c => r.pc \in {"cash", "link"} /\ r.v = c
    BY <1>0, <1>c, <1>5
<1> QED
    BY <1>2, <1>6, <1>7, <1>9, <1>10, <1>11, <1>12, <1>13, <1>14, <1>c, FailMoves

\* The last statement of an issue or of a void fails, or the void itself.
LEMMA LastFailsSerial ==
    ASSUME Inv, Inv', Hands, Hands', Grows, SerialInv, Calm', NEW h \in Handlers,
           IssueRecordFails(h) \/ VoidUpdateFails(h) \/ VoidRecordFails(h)
    PROVE  SerialInv'
<1>0. PICK what :
          /\ Slip(h, Idle, what)
          /\ what \in {"unlogged", "overbooked"}
          /\ req[h].pc \in {"issued", "void", "voided"}
    BY DEF IssueRecordFails, VoidUpdateFails, VoidRecordFails, At
<1>1. req[h].v \in Vouchers /\ req[h].amount \in Nat /\ req[h].op \in {"issue", "void"}
    BY <1>0, HeldOK DEF RequestOK, IssuePcs, VoidPcs
<1>2. req[h].pc # "idle" /\ req[h] # Idle /\ Local(req[h])
    BY <1>0, NowIs
<1>c. PICK c \in Vouchers, q \in Request, r \in Request : c = req[h].v /\ q = req[h] /\ r = Idle
    BY <1>1, HeldOK, IdleOK
<1>6. UNCHANGED <<voucher, books>> /\ pays' = pays /\ Goto(h, r) /\ what \in hist'
    BY <1>0, <1>c, SlipIs
<1>5. r.pc = "idle" /\ r.pc \in FreePcs /\ ~ Taking(r)
    BY <1>c, NoReadsIdle, IdleFree
<1>7. ~ (hist' \subseteq ValueSlips)
    BY <1>0, <1>6, BookSlipIs DEF BookSlips
<1>9. \A w \in Vouchers : Used(w)' = Used(w)
    <2>1. ~ Taking(req[h])
        BY <1>1 DEF Taking
    <2> QED
        BY <1>5, <1>6, <2>1, PaysKept, UsedKept
<1>10. \A w \in Vouchers : w # c => ~ Concerns(req[h], w) /\ ~ Concerns(r, w)
    BY <1>0, <1>c, <1>5, OwnIs, FreeIs DEF OwnPcs
<1>11. /\ ~ New(q, c) /\ ~ New(r, c)
       /\ InBooked(q, c) = 0 /\ InBooked(r, c) = 0
       /\ InJournal(q, c) \in Int /\ InJournal(r, c) \in Int /\ InCash(q, c) \in Int /\ InCash(r, c) \in Int
    BY <1>0, <1>1, <1>c, <1>5, InNothing DEF InBooked, InJournal, InCash, New
<1>12. Filled(c)
    BY <1>0, <1>2, <1>c DEF Local, Filled, Final
<1>14. ~ (q.pc \in {"cash", "link"} /\ q.v = c)
    BY <1>0, <1>c
<1> QED
    BY <1>2, <1>6, <1>7, <1>9, <1>10, <1>11, <1>12, <1>14, <1>c, FailMoves

\* A statement of an expiry fails.
LEMMA ExpiryFailsSerial ==
    ASSUME Inv, Inv', Hands, Hands', Grows, SerialInv, BackedInv, Calm', NEW h \in Handlers,
           ExpireUpdateFails(h) \/ ExpireRecordFails(h)
    PROVE  SerialInv'
<1>0. PICK what :
          /\ Slip(h, NextDue(req[h]), what)
          /\ \/ req[h].pc = "expire" /\ what = "rebooked"
             \/ req[h].pc = "expired" /\ what = "unlogged"
    BY DEF ExpireUpdateFails, ExpireRecordFails, At
<1>1. req[h].cur \in Vouchers /\ req[h].cur \in req[h].todo
    BY <1>0, HeldOK DEF RequestOK, BackedInv, Reads
<1>2. req[h].pc # "idle" /\ req[h] # Idle /\ Local(req[h])
    BY <1>0, NowIs
<1>c. PICK c \in Vouchers, q \in Request : c = req[h].cur /\ q = req[h]
    BY <1>1, HeldOK
<1>4. PICK r \in Request : r = NextDue(q)
    BY NextDueIs
<1>5. r.pc = "book" /\ r.op = q.op /\ r.p = q.p /\ r.seen = q.seen /\ r.todo = q.todo \ {c}
    BY <1>4, <1>c, NextDueIs
<1>6. UNCHANGED <<voucher, books>> /\ pays' = pays /\ Goto(h, r) /\ what \in hist'
    BY <1>0, <1>4, <1>c, SlipIs
<1>9. \A w \in Vouchers : Used(w)' = Used(w)
    <2>1. (Taking(r) <=> Taking(req[h])) /\ (Taking(r) => r.p = req[h].p)
        BY <1>0, <1>c, <1>5 DEF Taking, BeforeUpdate
    <2> QED
        BY <1>6, <2>1, PaysKept, UsedKept
<1>10. \A w \in Vouchers : w # c => ~ Concerns(req[h], w) /\ ~ Concerns(r, w)
    BY <1>0, <1>c, <1>5, ExpiryIs, FreeIs DEF FreePcs
<1>s. q.seen[c] \in Int
    BY BoundsAreNat DEF Request, Amounts
<1>11. /\ ~ New(q, c) /\ ~ New(r, c) /\ InCash(q, c) = 0 /\ InCash(r, c) = 0
       /\ InBooked(r, c) = 0 /\ InJournal(r, c) = 0
       /\ q.pc = "expire" => InBooked(q, c) = q.seen[c] /\ InJournal(q, c) = 0
       /\ q.pc = "expired" => InBooked(q, c) = 0 /\ InJournal(q, c) = q.seen[c]
    BY <1>0, <1>c, <1>5, InNothing DEF InBooked, InJournal, InCash, New, FreePcs
<1>a. /\ \A v \in q.todo \ {c} : voucher[v].st = "active" /\ voucher[v].balance = q.seen[v]
      /\ voucher[c].st \in {"active", "expired"}
    BY <1>0, <1>1, <1>2, <1>c DEF Local
<1>12. Filled(c)
    BY <1>a DEF Filled, Final
<1>13. Local(r)'
    BY <1>a, <1>5, <1>6 DEF Local
<1>14. ~ (q.pc \in {"cash", "link"} /\ q.v = c)
    BY <1>0, <1>c
<1>15. CASE req[h].pc = "expire"
    <2>1. ~ (hist' \subseteq BookSlips)
        BY <1>0, <1>6, <1>15, ValueSlipIs DEF ValueSlips
    <2>2. /\ InBooked(q, c) \in Int /\ InBooked(r, c) \in Int /\ InJournal(q, c) \in Int
          /\ InJournal(r, c) \in Int /\ InCash(q, c) \in Int /\ InCash(r, c) \in Int
          /\ InJournal(r, c) = InJournal(q, c) /\ InCash(r, c) = InCash(q, c)
        BY <1>11, <1>15, <1>c, <1>s
    <2> QED
        BY <1>2, <1>6, <1>9, <1>10, <1>11, <1>12, <1>13, <1>14, <1>c, <2>1, <2>2, FailMoves
<1>16. CASE req[h].pc = "expired"
    <2>1. ~ (hist' \subseteq ValueSlips)
        BY <1>0, <1>6, <1>16, BookSlipIs DEF BookSlips
    <2>2. /\ InBooked(q, c) \in Int /\ InBooked(r, c) \in Int /\ InJournal(q, c) \in Int
          /\ InJournal(r, c) \in Int /\ InCash(q, c) \in Int /\ InCash(r, c) \in Int
          /\ InBooked(r, c) = InBooked(q, c)
        BY <1>11, <1>16, <1>c, <1>s
    <2> QED
        BY <1>2, <1>6, <1>9, <1>10, <1>11, <1>12, <1>13, <1>14, <1>c, <2>1, <2>2, FailMoves
<1> QED
    BY <1>0, <1>15, <1>16

LEMMA ExpireBookFailsSerial ==
    ASSUME Inv, Inv', Hands, Hands', Grows, SerialInv, Calm', NEW h \in Handlers, ExpireBookFails(h)
    PROVE  SerialInv'
<1>0. PICK c \in req[h].todo : Slip(h, [req[h] EXCEPT !.pc = "expire", !.cur = c], "unbooked")
    BY DEF ExpireBookFails
<1>p. req[h].pc = "book"
    BY DEF ExpireBookFails, At
<1>2. req[h].pc # "idle" /\ req[h] # Idle /\ Local(req[h])
    BY <1>p, NowIs
<1>3. c \in Vouchers /\ req[h].seen[c] \in Int
    BY HeldOK, BoundsAreNat DEF Request, Amounts
<1>4. PICK r \in Request, q \in Request : r = [req[h] EXCEPT !.pc = "expire", !.cur = c] /\ q = req[h]
    BY <1>3, HeldOK DEF Request
<1>5. r.pc = "expire" /\ r.op = q.op /\ r.p = q.p /\ r.seen = q.seen /\ r.todo = q.todo /\ r.cur = c
    BY <1>4 DEF Request
<1>6. UNCHANGED <<voucher, books>> /\ pays' = pays /\ Goto(h, r) /\ "unbooked" \in hist'
    BY <1>0, <1>4, SlipIs
<1>7. ~ (hist' \subseteq BookSlips)
    BY <1>6, ValueSlipIs DEF ValueSlips
<1>9. \A w \in Vouchers : Used(w)' = Used(w)
    <2>1. (Taking(r) <=> Taking(req[h])) /\ (Taking(r) => r.p = req[h].p)
        BY <1>p, <1>4, <1>5 DEF Taking, BeforeUpdate
    <2> QED
        BY <1>6, <2>1, PaysKept, UsedKept
<1>10. \A w \in Vouchers : w # c => ~ Concerns(req[h], w) /\ ~ Concerns(r, w)
    BY <1>p, <1>5, FreeIs, ExpiryIs DEF FreePcs
<1>11. /\ InJournal(q, c) = 0 /\ InCash(q, c) = 0 /\ InBooked(q, c) = 0 /\ ~ New(q, c)
       /\ InJournal(r, c) = 0 /\ InCash(r, c) = 0 /\ InBooked(r, c) = q.seen[c] /\ ~ New(r, c)
    BY <1>p, <1>4, <1>5, InNothing DEF InJournal, InCash, InBooked, New, FreePcs
<1>a. \A v \in q.todo : voucher[v].st = "active" /\ voucher[v].balance = q.seen[v]
    BY <1>p, <1>2, <1>4 DEF Local
<1>12. Filled(c)
    BY <1>a, <1>4 DEF Filled
<1>13. Local(r)'
    BY <1>5, <1>6, <1>a DEF Local
<1>14. ~ (q.pc \in {"cash", "link"} /\ q.v = c)
    BY <1>p, <1>4
<1>15. InBooked(r, c) \in Int
    BY <1>3, <1>4, <1>11
<1> QED
    BY <1>2, <1>3, <1>4, <1>6, <1>7, <1>9, <1>10, <1>11, <1>12, <1>13, <1>14, <1>15, FailMoves

\* What the code acts on: no voucher is in hand.
LEMMA RefusedSerial ==
    ASSUME Inv, Inv', Hands, Hands', Grows, SerialInv, Calm', NEW h \in Handlers,
           ExpireSelectFails(h) \/ RedeemReadFails(h) \/ RedeemUpdateFails(h)
    PROVE  SerialInv'
<1>1. CASE ExpireSelectFails(h)
    <2>1. req[h].pc = "due" /\ UNCHANGED <<voucher, books>>
          /\ Goto(h, [req[h] EXCEPT !.pc = "book", !.todo = {}])
        BY <1>1 DEF ExpireSelectFails, At, Refused
    <2>2. PICK r \in Request : r = [req[h] EXCEPT !.pc = "book", !.todo = {}]
        BY HeldOK DEF Request
    <2>3. r.pc = "book" /\ r.op = req[h].op /\ r.p = req[h].p /\ r.todo = {}
        BY <2>2, HeldOK DEF Request
    <2>4. \A w \in Vouchers : ~ Concerns(req[h], w) /\ ~ Concerns(r, w)
        BY <2>1, <2>3, FreeIs DEF FreePcs
    <2>5. (Taking(r) <=> Taking(req[h])) /\ (Taking(r) => r.p = req[h].p)
        BY <2>1, <2>3 DEF Taking, BeforeUpdate
    <2>6. Local(r)'
        BY <2>3 DEF Local
    <2>7. req[h] # Idle
        BY <2>1, NotIdle
    <2> QED
        BY <2>1, <2>2, <2>4, <2>5, <2>6, <2>7, SerialNone
<1>2. CASE RedeemReadFails(h) \/ RedeemUpdateFails(h)
    <2>1. req[h].pc \in {"read", "update"} /\ UNCHANGED <<voucher, books>>
          /\ Goto(h, [req[h] EXCEPT !.pc = "unpay"])
        BY <1>2 DEF RedeemReadFails, RedeemUpdateFails, At, Refused
    <2>2. PICK r \in Request : r = [req[h] EXCEPT !.pc = "unpay"]
        BY HeldOK DEF Request
    <2>3. r.pc = "unpay" /\ r.op = req[h].op /\ r.p = req[h].p
        BY <2>2, HeldOK DEF Request
    <2>4. \A w \in Vouchers : ~ Concerns(req[h], w) /\ ~ Concerns(r, w)
        BY <2>1, <2>3, FreeIs DEF FreePcs
    <2>5. (Taking(r) <=> Taking(req[h])) /\ (Taking(r) => r.p = req[h].p)
        BY <2>1, <2>3 DEF Taking, BeforeUpdate
    <2>6. Local(r)'
        BY <2>3, NoLocal DEF UnknownPcs
    <2>7. req[h] # Idle
        BY <2>1, NotIdle
    <2> QED
        BY <2>1, <2>2, <2>4, <2>5, <2>6, <2>7, SerialNone
<1> QED
    BY <1>1, <1>2

\* A payment and the balance part: what is used is another.
LEMMA PartsSerial ==
    ASSUME Inv, Inv', Hands, Hands', Grows, SerialInv, Calm', NEW h \in Handlers,
           RedeemReloadFails(h) \/ UnpayFails(h)
    PROVE  SerialInv'
<1>0. PICK r \in Request, what \in ValueSlips :
          /\ Slip(h, r, what)
          /\ \/ r.pc = "idle"
             \/ r.pc = "unpay" /\ r.op = req[h].op /\ r.v = req[h].v /\ r.p = req[h].p
          /\ req[h].pc \in {"reload", "unpay"}
    <2>1. CASE RedeemReloadFails(h)
        <3>1. PICK r \in Request : r = [req[h] EXCEPT !.pc = "unpay"]
            BY HeldOK DEF Request
        <3>2. r.pc = "unpay" /\ r.op = req[h].op /\ r.v = req[h].v /\ r.p = req[h].p
            BY <3>1, HeldOK DEF Request
        <3> QED
            BY <2>1, <3>1, <3>2 DEF RedeemReloadFails, At, ValueSlips
    <2>2. CASE UnpayFails(h)
        <3>1. PICK r \in Request : r = Idle
            BY IdleOK
        <3>2. Slip(h, r, "kept") /\ r.pc = "idle" /\ req[h].pc = "unpay" /\ "kept" \in ValueSlips
            BY <2>2, <3>1, IdleFree DEF UnpayFails, At, ValueSlips
        <3> QED
            BY <3>1, <3>2
    <2> QED
        BY <2>1, <2>2
<1>1. req[h].v \in Vouchers /\ req[h].op = "redeem"
    BY <1>0, HeldOK DEF RequestOK, RedeemPcs
<1>2. req[h].pc # "idle" /\ req[h] # Idle
    BY <1>0, NowIs
<1>c. PICK c \in Vouchers, q \in Request : c = req[h].v /\ q = req[h]
    BY <1>1, HeldOK
<1>6. UNCHANGED <<voucher, books>> /\ pays' = pays /\ Goto(h, r) /\ what \in hist'
    BY <1>0, SlipIs
<1>7. ~ (hist' \subseteq BookSlips)
    BY <1>6, ValueSlipIs
<1>9. ASSUME NEW w \in Vouchers, w # c PROVE Used(w)' = Used(w)
    <2>1. pays[q.p].v = c
        <3>1. pays[req[h].p] = [st |-> "redeem", v |-> req[h].v, amount |-> req[h].amount]
            BY <1>1 DEF Hands
        <3> QED
            BY <3>1, <1>c
    <2>2. req'[h] = r /\ \A g \in Handlers : g # h => req'[g] = req[g]
        BY <1>6, ReqIs
    <2>3. ASSUME NEW p, p # q.p PROVE Held(p)' <=> Held(p)
        <3>1. Taking(req[h]) => req[h].p # p
            BY <1>c, <2>3
        <3>2. Taking(r) => r.p # p
            <4>1. r.pc = "idle" => ~ Taking(r)
                BY DEF Taking, BeforeUpdate
            <4> QED
                BY <1>0, <1>c, <2>3, <4>1
        <3> QED
            BY <2>2, <3>1, <3>2 DEF Held, Taking
    <2>4. ASSUME NEW p PROVE p \in Spent(w)' <=> p \in Spent(w)
        BY <1>6, <1>9, <2>1, <2>3 DEF Spent, Redeems
    <2>5. ASSUME NEW p \in Spent(w) PROVE pays'[p].amount = pays[p].amount
        BY <1>6
    <2> QED
        BY <2>4, <2>5, UsedSame
<1>10. \A w \in Vouchers : ~ Concerns(req[h], w) /\ ~ Concerns(r, w)
    BY <1>0, FreeIs DEF FreePcs
<1>11. /\ InJournal(q, c) = 0 /\ InCash(q, c) = 0 /\ InBooked(q, c) = 0 /\ ~ New(q, c)
       /\ InJournal(r, c) = 0 /\ InCash(r, c) = 0 /\ InBooked(r, c) = 0 /\ ~ New(r, c)
    BY <1>0, <1>c, InNothing DEF FreePcs
<1>13. Local(r)'
    BY <1>0, NoLocal DEF UnknownPcs
<1>14. ~ (q.pc \in {"cash", "link"} /\ q.v = c)
    BY <1>0, <1>c
<1>15. CASE Filled(c)
    BY <1>2, <1>6, <1>7, <1>9, <1>10, <1>11, <1>13, <1>14, <1>15, <1>c, FailMoves
<1>16. CASE ~ Filled(c)
    <2>1. ElseSame(c)
        BY <1>6, <1>9, ElseStays DEF BooksSame, books
    <2>2. Tale(q, c)
        BY <1>2, <1>c, NowIs
    <2>3. voucher' = voucher /\ journal' = journal /\ cash' = cash /\ booked' = booked
        BY <1>6 DEF books
    <2>4. Unsold(c)' = Unsold(c) /\ Sold(c)' = Sold(c)
        BY <1>6, <2>3 DEF Unsold, Sold
    <2>5. Tale(r, c)'
        BY <1>11, <1>16, <2>2, <2>3, <2>4 DEF Tale, New, Filled
    <2> QED
        BY <1>2, <1>6, <1>10, <1>13, <2>1, <2>5, SerialOne
<1> QED
    BY <1>15, <1>16

LEMMA FailingSerial ==
    ASSUME Inv, Inv', Hands, Hands', Grows, SerialInv, BackedInv, Calm', NEW h \in Handlers, Failing(h)
    PROVE  SerialInv'
<1>1. ~ UnissueFails(h) /\ ~ IssueLinkFails(h) /\ ~ VoidRefundFails(h)
    BY DEF UnissueFails, IssueLinkFails, VoidRefundFails, Slip, Happens, Calm, ValueSlips, BookSlips
<1> QED
    BY <1>1, BookFailsSerial, LastFailsSerial, ExpiryFailsSerial, ExpireBookFailsSerial,
       RefusedSerial, PartsSerial
    DEF Failing

-----------------------------------------------------------------------------
(* One at a time: the invariant, and the theorems *)

LEMMA SameSerial ==
    ASSUME SerialInv, UNCHANGED <<voucher, books, req, hist>>
    PROVE  SerialInv'
<1>1. /\ voucher' = voucher /\ pays' = pays /\ cash' = cash /\ booked' = booked
      /\ journal' = journal /\ req' = req /\ hist' = hist
    BY DEF books
<1>2. Alone' = Alone /\ Quiet' = Quiet
    BY <1>1 DEF Alone, Quiet
<1>3. \A v : Used(v)' = Used(v)
    BY <1>1 DEF Used, Spent, Held, Redeems, Cents
<1>4. \A v : Unsold(v)' = Unsold(v) /\ Sold(v)' = Sold(v) /\ Refunded(v)' = Refunded(v)
    BY <1>1 DEF Unsold, Sold, Refunded
<1>5. \A v : SoldOnce(v)' = SoldOnce(v)
    BY <1>1 DEF SoldOnce
<1>6. \A v : Sale(voucher[v].issue, v)' = Sale(voucher[v].issue, v)
    BY <1>1 DEF Sale
<1>7. \A r, v : Story(r, v) => Story(r, v)'
    BY <1>1, <1>3, <1>4, <1>5, <1>6 DEF Story, InBooked, InJournal, InCash
<1>8. \A r, v : Tale(r, v) => Tale(r, v)'
    BY <1>1, <1>4, <1>7 DEF Tale, New
<1>c. Calm' = Calm
    BY <1>1 DEF Calm
<1>9. \A r : Local(r) => Local(r)'
    BY <1>1 DEF Local, Sale, StillRead
<1>10. ASSUME Calm, Quiet, NEW v \in Vouchers PROVE Tale(Idle, v)'
    BY <1>10, <1>8 DEF SerialInv
<1>11. ASSUME Calm, NEW h \in Handlers, req[h] # Idle
       PROVE  Local(req[h])' /\ \A v \in Vouchers : Tale(req[h], v)'
    <2>1. PICK r \in {req[h]} : r = req[h]
        OBVIOUS
    <2>2. Local(r) /\ \A v \in Vouchers : Tale(r, v)
        BY <1>11, <2>1 DEF SerialInv
    <2>3. Local(r)' /\ \A v \in Vouchers : Tale(r, v)'
        BY <2>2, <1>8, <1>9
    <2>4. r = req'[h]
        BY <2>1, <1>1
    <2> QED
        BY <2>3, <2>4
<1> QED
    BY <1>1, <1>2, <1>c, <1>10, <1>11 DEF SerialInv

LEMMA SerialInit == Init => SerialInv
<1> SUFFICES ASSUME Init PROVE SerialInv
    OBVIOUS
<1>1. \A h \in Handlers : req[h] = Idle
    BY DEF Init
<1>2. Alone
    BY <1>1 DEF Alone
<1>3. \A v \in Vouchers : voucher[v].st = "none"
    BY DEF Init
<1>4. \A v \in Vouchers : Unsold(v)
    <2>1. ASSUME NEW v \in Vouchers, NEW p \in Payments PROVE pays[p].v # v
        BY <2>1, NoneIsNoId DEF Init
    <2>2. \A v \in Vouchers : booked[v] = 0 /\ journal[v] = 0 /\ cash[v].income = 0 /\ cash[v].expense = 0
        BY DEF Init, Zero
    <2> QED
        BY <2>1, <2>2 DEF Unsold
<1>5. \A v \in Vouchers : Tale(Idle, v)
    BY <1>3, <1>4 DEF Tale, Final
<1> QED
    BY <1>1, <1>2, <1>5 DEF SerialInv

LEMMA SerialNext ==
    ASSUME Inv, BackedInv, SerialInv, [Next]_vars
    PROVE  SerialInv'
<1> SUFFICES ASSUME Calm' PROVE SerialInv'
    BY DEF SerialInv
<1>0. Inv' /\ Grows /\ Hands /\ Hands'
    BY NextOK, GrowsNext, BackedNext DEF BackedInv
<1>1. ASSUME NEW h \in Handlers, Issuing(h) PROVE SerialInv'
    BY <1>0, <1>1, IssueSerial, IssuePaymentSerial, UnissueSerial, IssueCashSerial, IssueLinkSerial,
       IssueRecordSerial
    DEF Issuing
<1>2. ASSUME NEW h \in Handlers, Expiring(h) PROVE SerialInv'
    BY <1>0, <1>2, LookSerial, ExpireSelectSerial, ExpireBookSerial, ExpireUpdateSerial,
       ExpireRecordSerial, ExpireDoneSerial
    DEF Expiring
<1>3. ASSUME NEW h \in Handlers, Redeeming(h) PROVE SerialInv'
    BY <1>0, <1>3, RedeemSerial, RedeemRowsSerial, RedeemReadSerial, RedeemUpdateSerial,
       RedeemRecordSerial, RedeemReloadSerial, UnpaySerial
    DEF Redeeming
<1>4. ASSUME NEW h \in Handlers, Voiding(h) PROVE SerialInv'
    BY <1>0, <1>4, VoidSerial, VoidCashSerial, VoidUpdateSerial, VoidRefundSerial, VoidRecordSerial
    DEF Voiding
<1>5. ASSUME NEW v \in Vouchers, Due(v) PROVE SerialInv'
    BY <1>5, SameSerial DEF Due
<1>6. CASE UNCHANGED vars
    BY <1>6, SameSerial DEF vars, books
<1>7. ASSUME NEW h \in Handlers, Vanish(h) PROVE FALSE
    BY <1>7 DEF Vanish, Happens, Calm, ValueSlips, BookSlips
<1>8. ASSUME NEW h \in Handlers, Failing(h) PROVE SerialInv'
    BY <1>0, <1>8, FailingSerial
<1> QED
    BY <1>1, <1>2, <1>3, <1>4, <1>5, <1>6, <1>7, <1>8 DEF Next

\* As long as requests come one at a time, the voucher and its books differ by
\* exactly what the statement at hand has written in one and not in the other.
THEOREM AlwaysSerial == Spec => []SerialInv
<1>1. Inv /\ BackedInv /\ SerialInv /\ [Next]_vars => SerialInv'
    BY SerialNext
<1> QED
    BY <1>1, SerialInit, Invariance, AlwaysBacked, PTL DEF Spec

\* Between requests nothing is in hands: what is used is what was redeemed.
LEMMA QuietUsed ==
    ASSUME Quiet, NEW v \in Vouchers
    PROVE  Used(v) = Redeemed(v)
<1>1. \A p : ~ Held(p)
    BY NoReadsIdle DEF Quiet, Held, Taking
<1>2. Spent(v) = Redeems(v)
    BY <1>1 DEF Spent
<1> QED
    BY <1>2 DEF Used, Redeemed

LEMMA QuietTale ==
    ASSUME Inv, SerialInv, Quiet, Calm, NEW v \in Vouchers
    PROVE  /\ hist \subseteq BookSlips =>
                 /\ voucher[v].st \in {"active"} \cup Final =>
                       /\ Sold(v) # Refunded(v)
                       /\ voucher[v].initial = voucher[v].balance + Redeemed(v) + booked[v]
                                                 + (IF Refunded(v) THEN voucher[v].initial ELSE 0)
                 /\ voucher[v].st = "gone" => ~ Sold(v)
           /\ hist \subseteq ValueSlips =>
                 /\ journal[v] = voucher[v].balance
                 /\ cash[v].income - cash[v].expense = IF Sold(v) THEN voucher[v].initial ELSE 0
<1>1. Tale(Idle, v)
    BY DEF SerialInv
<1>2. /\ InJournal(Idle, v) = 0 /\ InCash(Idle, v) = 0 /\ InBooked(Idle, v) = 0 /\ ~ New(Idle, v)
    BY IdleFree, InNothing
<1>3. Used(v) = Redeemed(v)
    BY QuietUsed
<1>4. /\ booked[v] \in Nat /\ cash[v].expense \in Nat /\ cash[v].income \in Nat
      /\ journal[v] \in Int /\ voucher[v].initial \in Nat /\ voucher[v].balance \in Nat
    BY BookTypes
<1>5. CASE voucher[v].st \in {"active"} \cup Final
    <2>1. Story(Idle, v)
        BY <1>1, <1>2, <1>5 DEF Tale
    <2>2. hist \subseteq BookSlips =>
              voucher[v].initial = voucher[v].balance + Redeemed(v) + booked[v]
                                           + (IF Refunded(v) THEN voucher[v].initial ELSE 0)
        BY <1>2, <1>3, <1>4, <2>1 DEF Story
    <2>3. hist \subseteq ValueSlips => journal[v] = voucher[v].balance
        BY <1>2, <1>4, <2>1 DEF Story
    <2>4. hist \subseteq ValueSlips =>
              cash[v].income - cash[v].expense = IF Sold(v) THEN voucher[v].initial ELSE 0
        BY <1>2, <1>4, <2>1 DEF Story
    <2>5. Sold(v) # Refunded(v)
        BY <2>1 DEF Story
    <2> QED
        BY <1>5, <2>2, <2>3, <2>4, <2>5 DEF Final
<1>6. CASE voucher[v].st \in {"none", "gone"}
    <2>1. voucher[v].balance = 0
        BY <1>4, <1>6 DEF Inv, VouchersOK, ActiveWhileFilled
    <2>2. ~ Sold(v) /\ journal[v] = 0 /\ cash[v].income = cash[v].expense
        BY <1>1, <1>6, UnsoldIs DEF Tale
    <2> QED
        BY <1>4, <1>6, <2>1, <2>2 DEF Final
<1> QED
    BY <1>5, <1>6 DEF Inv, VouchersOK, VoucherRecord

LEMMA SerialKeeps == Inv /\ SerialInv => ValueKept /\ BooksAgree
<1> SUFFICES ASSUME Inv, SerialInv, Quiet
             PROVE  ValueKept /\ BooksAgree
    BY DEF ValueKept, BooksAgree
<1>1. ASSUME hist \subseteq BookSlips PROVE ValueKept
    <2>1. Calm
        BY <1>1 DEF Calm
    <2> QED
        BY <1>1, <2>1, QuietTale DEF ValueKept
<1>2. ASSUME hist \subseteq ValueSlips PROVE BooksAgree
    <2>1. Calm
        BY <1>2 DEF Calm
    <2> QED
        BY <1>2, <2>1, QuietTale DEF BooksAgree
<1> QED
    BY <1>1, <1>2 DEF ValueKept, BooksAgree

\* Between requests that came one at a time, what a voucher was sold for is its
\* balance, was redeemed, was booked as expired or was paid back, whatever the
\* requests were: when any statement failed that the code acts on (what each of
\* issue, redeem, void and expiry undoes), and when those were passed over that
\* write the cash book or the event log.
THEOREM ValueIsKept == Spec => []ValueKept
BY AlwaysSerial, Invariance, SerialKeeps, PTL

\* ... and the event log and the cash book say the same, also when an error was
\* passed over after which the value of the voucher is wrong.
THEOREM BooksAlwaysAgree == Spec => []BooksAgree
BY AlwaysSerial, Invariance, SerialKeeps, PTL
=============================================================================
