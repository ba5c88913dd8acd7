---------------------------- MODULE GiftVoucher -----------------------------
(***************************************************************************)
(* Gift vouchers of the web POS (pos-gift-vouchers-server.ts) and their    *)
(* redemption as a payment (collectVoucherAllocations): requests that      *)
(* issue, redeem, void and expire a voucher, one statement per step over   *)
(* PostgREST, as in PosTables.  The lines a payment pays for are those of  *)
(* TableBill and not kept here; amounts include the tip.  Every statement  *)
(* may be answered with an error: one the code acts on is a Refused, one   *)
(* it passes over is a Slip and leaves its kind in hist.                   *)
(***************************************************************************)
EXTENDS Integers, FiniteSets

CONSTANTS
    Vouchers, Payments, \* ids
    Handlers,           \* requests that can be in flight at a time
    None,
    MaxAmount,          \* bound: the largest amount
    Ops,                \* the operations of this instance
    Allowed,            \* the behaviours of this instance, see Begin and Fault
    MaxFaults           \* bound: the number of faults

ASSUME NoneIsNoId == None \notin Vouchers \cup Payments
ASSUME BoundsAreNat == MaxAmount \in Nat /\ MaxFaults \in Nat

VARIABLES
    voucher,    \* pos_gift_vouchers
    due,        \* the vouchers whose expires_at has passed
    pays,       \* pos_payments that sell or redeem a voucher
    cash,       \* cash book: income from the issue and expense of voids
    booked,     \* income booked for expired balances (accounting vouchers)
    journal,    \* what pos_gift_voucher_events add up to
    req,        \* the requests in flight
    hist,       \* history: which of Happenings there were
    faults

books == <<pays, cash, booked, journal>>
vars == <<voucher, due, books, req, hist, faults>>

Amounts == 0 .. MaxAmount
Final == {"redeemed", "voided", "expired"}

\* Slips that leave the books of the sale alone: an expired balance that was not
\* booked, one that was booked and not taken off; a payment that was deleted after
\* the balance was reduced, one that was kept although it was not.
ValueSlips == {"unbooked", "rebooked", "undone", "kept"}

\* Slips that leave the value alone: a sale that is not in the cash book, a void
\* that is not, a void that is and was not made; an event that was not logged.
BookSlips == {"unearned", "unspent", "overbooked", "unlogged"}

\* Besides, two requests in flight at a time and one that broke off; a voucher that
\* stays without a sale, a sale its voucher does not name, one that is not refunded.
Happenings ==
    ValueSlips \cup BookSlips
        \cup {"overlap", "broken", "unissued", "unlinked", "unrefunded"}

Idle == [op |-> "none", pc |-> "idle", v |-> None, p |-> None, amount |-> 0,
         seen |-> [v \in Vouchers |-> 0], todo |-> {}, cur |-> None]
Request == [op: Ops \cup {"none"},
            pc: {"idle", "payment", "unissue", "cash", "link", "issued", "rows", "due",
                 "book", "expire", "expired", "read", "update", "redeemed", "reload",
                 "unpay", "vcash", "void", "refund", "voided"},
            v: Vouchers \cup {None}, p: Payments \cup {None}, amount: Amounts,
            seen: [Vouchers -> Amounts], todo: SUBSET Vouchers, cur: Vouchers \cup {None}]

TypeOK ==
    /\ voucher \in [Vouchers -> [st: {"none", "active", "gone"} \cup Final,
                                 initial: Amounts, balance: Amounts,
                                 issue: Payments \cup {None}]]
    /\ due \subseteq Vouchers
    /\ pays \in [Payments -> [st: {"none", "issue", "redeem", "refunded", "deleted"},
                              v: Vouchers \cup {None}, amount: Amounts]]
    /\ cash \in [Vouchers -> [income: Nat, expense: Nat]]
    /\ booked \in [Vouchers -> Nat]
    /\ journal \in [Vouchers -> Int]
    /\ req \in [Handlers -> Request]
    /\ hist \subseteq Happenings
    /\ faults \in 0 .. MaxFaults

Zero == [v \in Vouchers |-> 0]

Init ==
    /\ voucher = [v \in Vouchers |-> [st |-> "none", initial |-> 0, balance |-> 0, issue |-> None]]
    /\ due = {}
    /\ pays = [p \in Payments |-> [st |-> "none", v |-> None, amount |-> 0]]
    /\ cash = [v \in Vouchers |-> [income |-> 0, expense |-> 0]]
    /\ booked = Zero /\ journal = Zero
    /\ req = [h \in Handlers |-> Idle]
    /\ hist = {}
    /\ faults = 0

-----------------------------------------------------------------------------
(* Requests *)

Quiet == \A h \in Handlers : req[h] = Idle
At(h, pc) == req[h].pc = pc
Goto(h, r) == req' = [req EXCEPT ![h] = r]
Step(h, pc) == Goto(h, [req[h] EXCEPT !.pc = pc])
End(h) == Goto(h, Idle)
Fault(kind) == kind \in Allowed /\ faults < MaxFaults /\ faults' = faults + 1
Happens(what) == hist' = hist \cup {what}

\* A statement fails and the code goes on as if it had not.
Slip(h, r, what) ==
    /\ Fault(what) /\ Happens(what)
    /\ Goto(h, r)
    /\ UNCHANGED <<voucher, due, books>>

\* A statement fails and the code acts on it.
Refused(h, r, what) ==
    /\ Fault(what)
    /\ Goto(h, r)
    /\ UNCHANGED <<voucher, due, books, hist>>

Begin(h, r) ==
    /\ r.op \in Ops
    /\ req[h] = Idle
    /\ Quiet \/ "concurrent" \in Allowed
    /\ IF Quiet THEN UNCHANGED hist ELSE Happens("overlap")
    /\ Goto(h, r)

\* A request ends between two statements.
Vanish(h) ==
    /\ req[h] # Idle
    /\ Fault("vanish")
    /\ End(h)
    /\ Happens("broken")
    /\ UNCHANGED <<voucher, due, books>>

\* expires_at passes.
Due(v) ==
    /\ voucher[v].st # "none"
    /\ due' = due \cup {v}
    /\ UNCHANGED <<voucher, books, req, hist, faults>>

Set(v, st, balance) == voucher' = [voucher EXCEPT ![v].st = st, ![v].balance = balance]

\* recordEvent; the row refers to its voucher.
Record(v, amount) ==
    journal' = [journal EXCEPT ![v] = IF voucher[v].st = "gone" THEN @ ELSE @ + amount]

\* insert into pos_payments
Insert(p, st, v, amount) ==
    /\ pays[p].st = "none"
    /\ pays' = [pays EXCEPT ![p] = [st |-> st, v |-> v, amount |-> amount]]

-----------------------------------------------------------------------------
(* issuePosGiftVoucher *)

\* The voucher is inserted first, active and with its balance.
Issue(h, v, a) ==
    /\ voucher[v].st = "none"
    /\ Begin(h, [Idle EXCEPT !.op = "issue", !.pc = "payment", !.v = v, !.amount = a])
    /\ voucher' = [voucher EXCEPT ![v] = [st |-> "active", initial |-> a, balance |-> a,
                                          issue |-> None]]
    /\ UNCHANGED <<due, books, faults>>

\* Order, line and payment; when one of them fails the voucher is deleted.
IssuePayment(h) ==
    /\ At(h, "payment")
    /\ \/ \E p \in Payments :
             /\ Insert(p, "issue", req[h].v, req[h].amount)
             /\ Goto(h, [req[h] EXCEPT !.pc = "cash", !.p = p])
             /\ UNCHANGED faults
       \/ Fault("issuefails") /\ Step(h, "unissue") /\ UNCHANGED pays
    /\ UNCHANGED <<voucher, due, cash, booked, journal, hist>>

\* Mutant: the voucher stays when it could not be sold.
UnissueNot(h) ==
    /\ At(h, "unissue")
    /\ End(h)
    /\ UNCHANGED <<voucher, due, books, hist, faults>>

\* delete from pos_gift_vouchers, with its events (on delete cascade)
Unissue(h) ==
    /\ At(h, "unissue")
    /\ Set(req[h].v, "gone", 0)
    /\ journal' = [journal EXCEPT ![req[h].v] = 0]
    /\ End(h)
    /\ UNCHANGED <<due, pays, cash, booked, hist, faults>>

\* One fault, with the one that led here.
UnissueFails(h) ==
    /\ At(h, "unissue") /\ "unissued" \in Allowed
    /\ Happens("unissued")
    /\ End(h)
    /\ UNCHANGED <<voucher, due, books, faults>>

IssueCash(h) ==
    /\ At(h, "cash")
    /\ cash' = [cash EXCEPT ![req[h].v].income = @ + req[h].amount]
    /\ Step(h, "link")
    /\ UNCHANGED <<voucher, due, pays, booked, journal, hist, faults>>

\* The category is not found, or the entry not made.
IssueCashFails(h) == At(h, "cash") /\ Slip(h, [req[h] EXCEPT !.pc = "link"], "unearned")

IssueLink(h) ==
    /\ At(h, "link")
    /\ voucher' = [voucher EXCEPT ![req[h].v].issue = req[h].p]
    /\ Step(h, "issued")
    /\ UNCHANGED <<due, books, hist, faults>>

IssueLinkFails(h) == At(h, "link") /\ Slip(h, [req[h] EXCEPT !.pc = "issued"], "unlinked")

IssueRecord(h) ==
    /\ At(h, "issued")
    /\ Record(req[h].v, req[h].amount)
    /\ End(h)
    /\ UNCHANGED <<voucher, due, pays, cash, booked, hist, faults>>

IssueRecordFails(h) == At(h, "issued") /\ Slip(h, Idle, "unlogged")

-----------------------------------------------------------------------------
(* expireDueGiftVouchers, called by a lookup and by every redemption *)

Look(h) ==
    /\ Begin(h, [Idle EXCEPT !.op = "look", !.pc = "due"])
    /\ UNCHANGED <<voucher, due, books, faults>>

ExpireSelect(h) ==
    /\ At(h, "due")
    /\ Goto(h, [req[h] EXCEPT !.pc = "book",
                    !.seen = [v \in Vouchers |-> voucher[v].balance],
                    !.todo = {v \in due : voucher[v].st = "active" /\ voucher[v].balance > 0}])
    /\ UNCHANGED <<voucher, due, books, hist, faults>>

\* What could not be read is not due.
ExpireSelectFails(h) ==
    At(h, "due") /\ Refused(h, [req[h] EXCEPT !.pc = "book", !.todo = {}], "readfails")

\* The balance that was read is booked before the voucher is looked at again.
ExpireBook(h) ==
    /\ At(h, "book")
    /\ \E v \in req[h].todo :
          /\ booked' = [booked EXCEPT ![v] = @ + req[h].seen[v]]
          /\ Goto(h, [req[h] EXCEPT !.pc = "expire", !.cur = v])
    /\ UNCHANGED <<voucher, due, pays, cash, journal, hist, faults>>

\* A failure to book is logged and nothing else; nor is booked what no profile issued.
ExpireBookFails(h) ==
    /\ At(h, "book")
    /\ \E v \in req[h].todo : Slip(h, [req[h] EXCEPT !.pc = "expire", !.cur = v], "unbooked")

\* update ... where status = 'active'; that no row matched is no error.
ExpireUpdate(h) ==
    LET v == req[h].cur
    IN  /\ At(h, "expire")
        /\ \/ voucher[v].st = "active" /\ Set(v, "expired", 0)
           \/ voucher[v].st # "active" /\ UNCHANGED voucher
        /\ Step(h, "expired")
        /\ UNCHANGED <<due, books, hist, faults>>

\* The next voucher of the loop.
NextDue(r) == [r EXCEPT !.pc = "book", !.todo = @ \ {r.cur}, !.cur = None]

ExpireUpdateFails(h) == At(h, "expire") /\ Slip(h, NextDue(req[h]), "rebooked")

ExpireRecord(h) ==
    LET v == req[h].cur
    IN  /\ At(h, "expired")
        /\ Record(v, -req[h].seen[v])
        /\ Goto(h, NextDue(req[h]))
        /\ UNCHANGED <<voucher, due, pays, cash, booked, hist, faults>>

ExpireRecordFails(h) == At(h, "expired") /\ Slip(h, NextDue(req[h]), "unlogged")

ExpireDone(h) ==
    /\ At(h, "book")
    /\ req[h].todo = {}
    /\ \/ req[h].op = "look" /\ End(h)
       \/ req[h].op = "redeem" /\ Step(h, "read")
    /\ UNCHANGED <<voucher, due, books, hist, faults>>

-----------------------------------------------------------------------------
(* collectVoucherAllocations with applyGiftVoucherRedemption *)

\* The payment is inserted, as paid, before the voucher is looked at.
Redeem(h, v, a) ==
    /\ voucher[v].st \in {"active"} \cup Final
    /\ \E p \in Payments :
          /\ Insert(p, "redeem", v, a)
          /\ Begin(h, [Idle EXCEPT !.op = "redeem", !.pc = "rows", !.v = v, !.p = p, !.amount = a])
    /\ UNCHANGED <<voucher, due, cash, booked, journal, faults>>

RedeemRows(h) ==
    /\ At(h, "rows")
    /\ \/ Step(h, "due") /\ UNCHANGED faults
       \/ Fault("rowsfail") /\ Step(h, "unpay")
    /\ UNCHANGED <<voucher, due, books, hist>>

\* Mutant: the balance is not looked at.
CoversAny(v, a) == voucher[v].st = "active"

\* The checks on status and balance.
Covers(v, a) == voucher[v].st = "active" /\ a <= voucher[v].balance

RedeemRead(h) ==
    LET v == req[h].v
    IN  /\ At(h, "read")
        /\ \/ /\ Covers(v, req[h].amount)
              /\ Goto(h, [req[h] EXCEPT !.pc = "update", !.seen[v] = voucher[v].balance])
           \/ ~Covers(v, req[h].amount) /\ Step(h, "unpay")
        /\ UNCHANGED <<voucher, due, books, hist, faults>>

RedeemReadFails(h) ==
    At(h, "read") /\ Refused(h, [req[h] EXCEPT !.pc = "unpay"], "readfails")

\* Mutant: the update names the status only, not the balance it was computed from.
StillReadAny(r) == voucher[r.v].st = "active"

\* where status = 'active' and balance_cents = what was read
StillRead(r) == voucher[r.v].st = "active" /\ voucher[r.v].balance = r.seen[r.v]

\* Mutant: a voucher is active until it is voided or expires.
StatusForAny(balance) == "active"

StatusFor(balance) == IF balance = 0 THEN "redeemed" ELSE "active"

\* When no row matches there is no error either, and the redemption goes on.
RedeemUpdate(h) ==
    LET r == req[h]
        next == r.seen[r.v] - r.amount
    IN  /\ At(h, "update")
        /\ \/ StillRead(r) /\ Set(r.v, StatusFor(next), next)
           \/ ~StillRead(r) /\ UNCHANGED voucher
        /\ Step(h, "redeemed")
        /\ UNCHANGED <<due, books, hist, faults>>

RedeemUpdateFails(h) ==
    At(h, "update") /\ Refused(h, [req[h] EXCEPT !.pc = "unpay"], "updatefails")

RedeemRecord(h) ==
    /\ At(h, "redeemed")
    /\ Record(req[h].v, -req[h].amount)
    /\ Step(h, "reload")
    /\ UNCHANGED <<voucher, due, pays, cash, booked, hist, faults>>

RedeemRecordFails(h) ==
    At(h, "redeemed") /\ Slip(h, [req[h] EXCEPT !.pc = "reload"], "unlogged")

\* Mutant: another balance than the one written is taken for a failure.
RedeemReloadCompare(h) ==
    LET r == req[h]
    IN  /\ At(h, "reload")
        /\ IF voucher[r.v].balance = r.seen[r.v] - r.amount THEN End(h) ELSE Step(h, "unpay")
        /\ UNCHANGED <<voucher, due, books, hist, faults>>

\* The voucher is read again for the answer.
RedeemReload(h) ==
    /\ At(h, "reload")
    /\ End(h)
    /\ UNCHANGED <<voucher, due, books, hist, faults>>

\* When that fails the payment is deleted, although the balance is reduced.
RedeemReloadFails(h) ==
    At(h, "reload") /\ Slip(h, [req[h] EXCEPT !.pc = "unpay"], "undone")

\* Mutant: a refused redemption leaves its payment.
UnpayNot(h) ==
    /\ At(h, "unpay")
    /\ End(h)
    /\ UNCHANGED <<voucher, due, books, hist, faults>>

Unpay(h) ==
    /\ At(h, "unpay")
    /\ pays' = [pays EXCEPT ![req[h].p].st = "deleted"]
    /\ End(h)
    /\ UNCHANGED <<voucher, due, cash, booked, journal, hist, faults>>

UnpayFails(h) == At(h, "unpay") /\ Slip(h, Idle, "kept")

-----------------------------------------------------------------------------
(* voidPosGiftVoucher *)

\* Only what nothing was redeemed from is voided; issue_payment_id is read.
Untouched(v) == voucher[v].st = "active" /\ voucher[v].balance = voucher[v].initial

Void(h, v) ==
    /\ Untouched(v)
    /\ Begin(h, [Idle EXCEPT !.op = "void", !.pc = "vcash", !.v = v, !.p = voucher[v].issue,
                             !.amount = voucher[v].balance])
    /\ UNCHANGED <<voucher, due, books, faults>>

VoidCash(h) ==
    /\ At(h, "vcash")
    /\ cash' = [cash EXCEPT ![req[h].v].expense = @ + req[h].amount]
    /\ Step(h, "void")
    /\ UNCHANGED <<voucher, due, pays, booked, journal, hist, faults>>

\* The category is not found, or the entry not made.
VoidCashFails(h) == At(h, "vcash") /\ Slip(h, [req[h] EXCEPT !.pc = "void"], "unspent")

\* Mutant: a void does not ask for the status again.
VoidUpdateAny(h) ==
    /\ At(h, "void")
    /\ Set(req[h].v, "voided", 0)
    /\ Step(h, "refund")
    /\ UNCHANGED <<due, books, hist, faults>>

\* update ... where status = 'active'; the balance may have changed.
VoidUpdate(h) ==
    LET v == req[h].v
    IN  /\ At(h, "void")
        /\ \/ voucher[v].st = "active" /\ Set(v, "voided", 0)
           \/ voucher[v].st # "active" /\ UNCHANGED voucher
        /\ Step(h, "refund")
        /\ UNCHANGED <<due, books, hist, faults>>

\* The request ends, with the expense booked.
VoidUpdateFails(h) == At(h, "void") /\ Slip(h, Idle, "overbooked")

\* A void that came before IssueLink knows no payment.
Refundable(p) == p \in Payments /\ pays[p].st = "issue"

VoidRefund(h) ==
    LET p == req[h].p
    IN  /\ At(h, "refund")
        /\ \/ Refundable(p) /\ pays' = [pays EXCEPT ![p].st = "refunded"]
           \/ ~Refundable(p) /\ UNCHANGED pays
        /\ Step(h, "voided")
        /\ UNCHANGED <<voucher, due, cash, booked, journal, hist, faults>>

VoidRefundFails(h) == At(h, "refund") /\ Slip(h, [req[h] EXCEPT !.pc = "voided"], "unrefunded")

VoidRecord(h) ==
    /\ At(h, "voided")
    /\ Record(req[h].v, -req[h].amount)
    /\ End(h)
    /\ UNCHANGED <<voucher, due, pays, cash, booked, hist, faults>>

VoidRecordFails(h) == At(h, "voided") /\ Slip(h, Idle, "unlogged")

-----------------------------------------------------------------------------
Issuing(h) ==
    \/ \E v \in Vouchers, a \in Amounts \ {0} : Issue(h, v, a)
    \/ IssuePayment(h) \/ Unissue(h) \/ IssueCash(h) \/ IssueLink(h) \/ IssueRecord(h)

Expiring(h) ==
    \/ Look(h) \/ ExpireSelect(h) \/ ExpireBook(h) \/ ExpireUpdate(h)
    \/ ExpireRecord(h) \/ ExpireDone(h)

Redeeming(h) ==
    \/ \E v \in Vouchers, a \in Amounts \ {0} : Redeem(h, v, a)
    \/ RedeemRows(h) \/ RedeemRead(h) \/ RedeemUpdate(h) \/ RedeemRecord(h)
    \/ RedeemReload(h) \/ Unpay(h)

Voiding(h) ==
    \/ \E v \in Vouchers : Void(h, v)
    \/ VoidCash(h) \/ VoidUpdate(h) \/ VoidRefund(h) \/ VoidRecord(h)

Failing(h) ==
    \/ UnissueFails(h) \/ IssueCashFails(h) \/ IssueLinkFails(h) \/ IssueRecordFails(h)
    \/ ExpireSelectFails(h) \/ ExpireBookFails(h) \/ ExpireUpdateFails(h) \/ ExpireRecordFails(h)
    \/ RedeemReadFails(h) \/ RedeemUpdateFails(h) \/ RedeemRecordFails(h)
    \/ RedeemReloadFails(h) \/ UnpayFails(h)
    \/ VoidCashFails(h) \/ VoidUpdateFails(h) \/ VoidRefundFails(h) \/ VoidRecordFails(h)

Next ==
    \/ \E v \in Vouchers : Due(v)
    \/ \E h \in Handlers : Issuing(h) \/ Expiring(h) \/ Redeeming(h) \/ Voiding(h)
                            \/ Failing(h) \/ Vanish(h)

Spec == Init /\ [][Next]_vars

-----------------------------------------------------------------------------
(* Safety *)

\* Every cent of the payments is counted.
Cents(ps) == {c \in ps \X (1 .. MaxAmount) : c[2] <= pays[c[1]].amount}
Redeems(v) == {p \in Payments : pays[p].v = v /\ pays[p].st = "redeem"}
Redeemed(v) == Cardinality(Cents(Redeems(v)))
Sold(v) == \E p \in Payments : pays[p].v = v /\ pays[p].st = "issue"
Refunded(v) == \E p \in Payments : pays[p].v = v /\ pays[p].st = "refunded"

\* Value is neither made nor lost: what a voucher was sold for is its balance,
\* was redeemed, was booked as expired or was paid back, and one that could not
\* be sold is not there (issue, redeem, void and expire, one at a time).  Errors
\* the code acts on do not change that, nor do the ones it passes over in the cash
\* book and the event log.
ValueKept ==
    Quiet /\ hist \subseteq BookSlips => \A v \in Vouchers :
        /\ voucher[v].st \in {"active"} \cup Final =>
              /\ Sold(v) # Refunded(v)
              /\ voucher[v].initial = voucher[v].balance + Redeemed(v) + booked[v]
                                        + (IF Refunded(v) THEN voucher[v].initial ELSE 0)
        /\ voucher[v].st = "gone" => ~Sold(v)

\* The books tell the same story as the voucher: the event log adds up to the
\* balance, and the cash book has what the voucher was sold for unless it was
\* voided (one request at a time), even when an expired balance was not booked or
\* booked twice, or the payment of a redemption did not go with its balance.
BooksAgree ==
    Quiet /\ hist \subseteq ValueSlips => \A v \in Vouchers :
        /\ journal[v] = voucher[v].balance
        /\ cash[v].income - cash[v].expense = IF Sold(v) THEN voucher[v].initial ELSE 0

\* However requests interleave, wherever they break off and whatever fails, nothing
\* is taken off a balance before it was paid with, booked as expired or paid out:
\* what is gone from a voucher is in one of the books.  Aside are the three errors
\* after which the code takes it off without: an expiry or a void that is not
\* booked, a reload after which the payment is deleted.
NothingVanishes ==
    hist \cap {"unbooked", "unspent", "undone"} = {} =>
        \A v \in Vouchers : voucher[v].st \in {"active"} \cup Final =>
            voucher[v].initial - voucher[v].balance
                <= Redeemed(v) + booked[v] + cash[v].expense

\* A voucher is active as long as there is something on it, and only then: it is
\* never empty and redeemable, never closed with a rest.
ActiveWhileFilled ==
    \A v \in Vouchers : voucher[v].st = "active" <=> voucher[v].balance > 0

-----------------------------------------------------------------------------
(* Steps *)

\* A balance never rises, however stale what a request computed it from.
NeverRises ==
    [][\A v \in Vouchers : voucher[v].st # "none" => voucher'[v].balance <= voucher[v].balance]_vars

\* What is redeemed, voided or expired stays so: of two requests that end a
\* voucher the second changes nothing.
FinalStays ==
    [][\A v \in Vouchers : voucher[v].st \in Final =>
          voucher'[v].st \in {voucher[v].st, "gone"}]_vars
=============================================================================
