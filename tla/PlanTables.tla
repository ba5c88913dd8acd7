----------------------------- MODULE PlanTables ------------------------------
(***************************************************************************)
(* The paid plan of one restaurant: its row in restaurant_subscriptions    *)
(* and the subscriptions of its customer at Mollie (apps/web/lib/billing). *)
(* Here: the state, what Mollie does by itself, and how a subscription of  *)
(* Mollie is copied into the row (syncMollieSubscriptionToDb).  Requests   *)
(* take one statement, or one call of Mollie, per step.                    *)
(***************************************************************************)
EXTENDS Integers

CONSTANTS
    Subs, Pays,                 \* ids: subscriptions, first payments
    Handlers,                   \* requests that can be in flight at a time
    None,
    Plans, Free, Basic,         \* the plans to pay for, and none; the default
    Booked,                     \* bound: the plans a checkout is made for
    Interval, Grace,            \* the paid period and the grace after a failure
    MaxTime,                    \* bound: the days that pass
    Ops,                        \* the operations of this instance
    Allowed,                    \* the faults of this instance
    MaxFaults                   \* bound: the number of faults

ASSUME IdsDistinct == None \notin Subs \cup Pays /\ Subs \cap Pays = {}
ASSUME PlansDistinct == Basic \in Plans /\ Free \notin Plans /\ Booked \subseteq Plans
ASSUME BoundsAreNat ==
    Interval \in Nat \ {0} /\ Grace \in Nat /\ MaxTime \in Nat \ {0} /\ MaxFaults \in Nat

VARIABLES
    row,        \* restaurant_subscriptions
    mollie,     \* the subscriptions at Mollie
    pay,        \* the first payments at Mollie
    hooks,      \* what Mollie has to call the webhook for
    now,        \* the day, from 1 on: 0 is null
    req,        \* the requests in flight
    paidUntil,  \* history: the end of the last period paid for
    owed,       \* history: the subscriptions whose last charge failed, unpaid since
    hist,       \* history: what has happened that a property leaves out
    faults

market == <<mollie, pay, hooks, now, paidUntil, owed>>
vars == <<row, market, req, hist, faults>>

\* A row names a subscription, a payment that has claimed the right to create
\* one ("claim:..."), or nothing.
Row == [plan: Plans \cup {Free}, st: {"active", "incomplete", "past_due", "canceled"},
        sid: Subs \cup Pays \cup {None}, soft: BOOLEAN, end: Nat, due: Nat]
Sub == [st: {"none", "active", "suspended", "canceled"}, plan: Plans \cup {Free}, next: Nat]
Hook == [kind: {"first"}, id: Pays, paid: {TRUE}]
            \cup [kind: {"renewal"}, id: Subs, paid: BOOLEAN]
            \cup [kind: {"mandate"}, id: {None}, paid: {TRUE}]

NoHook == [kind |-> "none", id |-> None, paid |-> FALSE]
NoSub == [st |-> "none", plan |-> Free, next |-> 0]
NewRow == [plan |-> Free, st |-> "active", sid |-> None, soft |-> FALSE, end |-> 0, due |-> 0]

\* ent is what loadRestaurantEntitlements returned, seen what the sync has read
\* and then what it will write, sub what Mollie has answered for id.
Idle == [pc |-> "idle", ret |-> "none", hook |-> NoHook, plan |-> Free, id |-> None,
         ent |-> NewRow, seen |-> NewRow, sub |-> NoSub, clear |-> FALSE, keep |-> FALSE]
Pcs == {"idle", "fetch", "existing", "get", "list", "claim", "take", "again", "create", "release",
        "state", "stamp", "getsub", "entitle", "update", "restore", "done", "cget", "ccancel",
        "cust", "cpay", "sget", "scancel", "swrite", "recreate", "patch", "hget", "missing",
        "hwrite", "cut", "cutget", "cutcancel", "fin", "finget", "finwrite", "vstamp", "sync",
        "due", "mark", "write"}
Request == [pc: Pcs, ret: {"none"} \cup Pcs, hook: Hook \cup {NoHook}, plan: Plans \cup {Free},
            id: Subs \cup Pays \cup {None}, ent: Row, seen: Row, sub: Sub, clear: BOOLEAN,
            keep: BOOLEAN]

\* What comes from outside is bounded like a fault: Mollie acts, or calls, in the
\* company of a request (overlap); the restaurant (owner) or a health check or visit
\* (daily) does, or before Mollie's calls have been answered; a day ends with a
\* request in flight (midnight).  Not bounded are: a first payment when the row waits
\* for none or for another (twice); a claim that is refused because the row names an
\* ended subscription (leftover); a cancelled plan that goes on with another
\* subscription (recreated); a health check that finds an unpaid one active (forgiven).
\* An error the code goes on from is read or write, or, by what it does: a mandate
\* that has not read the row takes the row's subscription away (blind); a request that
\* has not makes another customer at Mollie, or forgets the one there is (customer);
\* the stamp of an unpaid charge reads as none, or is not written (due).
Notes == {"twice", "leftover", "recreated", "forgiven"}

TypeOK ==
    /\ row \in Row
    /\ mollie \in [Subs -> Sub]
    /\ pay \in [Pays -> [st: {"none", "open", "paid"}, plan: Plans \cup {Free}]]
    /\ hooks \subseteq Hook
    /\ now \in 1 .. MaxTime
    /\ req \in [Handlers -> Request]
    /\ paidUntil \in Nat
    /\ owed \subseteq Subs
    /\ hist \subseteq Allowed \cup Notes
    /\ faults \in 0 .. MaxFaults

Init ==
    /\ row = NewRow
    /\ mollie = [s \in Subs |-> NoSub]
    /\ pay = [p \in Pays |-> [st |-> "none", plan |-> Free]]
    /\ hooks = {}
    /\ now = 1
    /\ req = [h \in Handlers |-> Idle]
    /\ paidUntil = 0
    /\ owed = {}
    /\ hist = {}
    /\ faults = 0

-----------------------------------------------------------------------------
(* Requests *)

Quiet == \A h \in Handlers : req[h] = Idle
At(h, pc) == req[h].pc = pc
Goto(h, r) == req' = [req EXCEPT ![h] = r]
Step(h, pc) == Goto(h, [req[h] EXCEPT !.pc = pc])
End(h) == Goto(h, Idle)
Happens(what) == hist' = hist \cup what /\ UNCHANGED faults
Fault(kind) ==
    /\ kind \in Allowed /\ faults < MaxFaults
    /\ faults' = faults + 1
    /\ hist' = hist \cup {kind}
Calm == UNCHANGED <<hist, faults>>

Begin(h, r) ==
    /\ req[h] = Idle
    /\ Goto(h, r)
    /\ UNCHANGED market

\* Something happens in the company of requests in flight.
Beside(kind) == IF Quiet THEN Calm ELSE Fault(kind)

\* A request ends between two statements, or a call of Mollie is never answered.
Vanish(h) ==
    /\ req[h] # Idle
    /\ Fault("vanish")
    /\ End(h)
    /\ UNCHANGED <<row, market>>

-----------------------------------------------------------------------------
(* The row *)

\* isRealMollieSubscriptionId
Real(id) == id \in Subs

\* A cancelled plan whose period is over.
PeriodOver(w) == w.soft /\ w.end # 0 /\ w.end <= now

\* isPastDueAccessLocked
GraceOver(w) == w.st = "past_due" /\ w.due # 0 /\ now >= w.due + Grace

\* What loadRestaurantEntitlements makes of the row.
Entitled(w) == IF PeriodOver(w) THEN [w EXCEPT !.plan = Free, !.st = "canceled", !.soft = FALSE] ELSE w

\* And if the row cannot be read: it is read again without the ids of Mollie, and
\* if that fails too there is none.
Blind(w) == {Entitled([w EXCEPT !.sid = None]), NewRow}

\* stampRestaurantPastDueSince keeps the first stamp.
Stamped(w) == IF w.due = 0 THEN [w EXCEPT !.due = now] ELSE w

\* finalizeRestaurantPeriodEndCancel, markMollieSubscriptionMissing: with the
\* subscription that was read.
Ended(id) == [NewRow EXCEPT !.st = "canceled", !.sid = id]

\* What loadRestaurantEntitlements writes.  It does not wait for the end of a plan to
\* be written: that this comes later is a visit beside the request.
Loaded(w) ==
    CASE PeriodOver(w) /\ w.st # "canceled" -> Ended(w.sid)
      [] ~PeriodOver(w) /\ w.st = "past_due" -> Stamped(w)
      [] OTHER -> w

\* The same for e of Blind(w): a plan is ended without the id of its subscription.
LoadedBlind(w, e) ==
    IF e = NewRow THEN w
    ELSE IF PeriodOver(w) /\ w.st # "canceled" THEN Ended(None) ELSE Loaded(w)

\* shouldGrantPaidPlanFeatures
Access(w) ==
    /\ w.plan # Free
    /\ ~PeriodOver(w)
    /\ w.st = "active" \/ (w.st = "past_due" /\ ~GraceOver(w))

\* hasManagedMollieSubscription
Managed(w) == w.sid # None /\ ~GraceOver(w) /\ w.st \in {"active", "past_due", "incomplete"}

-----------------------------------------------------------------------------
(* Mollie *)

Open(s) == mollie[s].st \in {"active", "suspended"}
Later(a, b) == IF a > b THEN a ELSE b

\* The customer pays the first payment of a checkout.
PayFirst(p) ==
    /\ pay[p].st = "open"
    /\ pay' = [pay EXCEPT ![p].st = "paid"]
    /\ hooks' = hooks \cup {[kind |-> "first", id |-> p, paid |-> TRUE]}
    /\ paidUntil' = Later(paidUntil, now + Interval)
    /\ IF (row.plan # Free /\ row.st \in {"active", "past_due"}) \/ (\E k \in hooks : k.kind = "first")
       THEN Happens({"twice"}) ELSE Beside("overlap")
    /\ owed' = {}
    /\ UNCHANGED <<row, mollie, now, req>>

Hooked(s) == \E k \in hooks : k.kind = "renewal" /\ k.id = s
Renewal(s, paid) == hooks \cup {[kind |-> "renewal", id |-> s, paid |-> paid]}

\* A period is charged on its day; it fails, and the subscription goes on or is
\* suspended.  The webhook for the period before has been answered.
Charge(s) ==
    /\ mollie[s].st = "active" /\ mollie[s].next <= now /\ ~Hooked(s)
    /\ \/ /\ mollie' = [mollie EXCEPT ![s].next = @ + Interval]
          /\ hooks' = Renewal(s, TRUE)
          /\ paidUntil' = Later(paidUntil, mollie[s].next + Interval)
          /\ owed' = owed \ {s}
       \/ /\ mollie' \in {[mollie EXCEPT ![s].next = @ + Interval],
                          [mollie EXCEPT ![s].st = "suspended", ![s].next = 0]}
          /\ hooks' = Renewal(s, FALSE)
          /\ owed' = owed \cup {s}
          /\ UNCHANGED paidUntil
    /\ Beside("overlap")
    /\ UNCHANGED <<row, pay, now, req>>

\* A suspended subscription is paid after all.
Recover(s) ==
    /\ mollie[s].st = "suspended" /\ ~Hooked(s)
    /\ mollie' = [mollie EXCEPT ![s].st = "active", ![s].next = now + Interval]
    /\ hooks' = Renewal(s, TRUE)
    /\ paidUntil' = Later(paidUntil, now + Interval)
    /\ owed' = owed \ {s}
    /\ Beside("overlap")
    /\ UNCHANGED <<row, pay, now, req>>

\* A payment that sets up another means of payment.
NewMandate ==
    /\ "mandate" \in Ops
    /\ Entitled(row).plan # Free
    /\ hooks' = hooks \cup {[kind |-> "mandate", id |-> None, paid |-> TRUE]}
    /\ Beside("overlap")
    /\ UNCHANGED <<row, mollie, pay, now, req, paidUntil, owed>>

\* Bound: no day passes once Mollie has the restaurant under two customers.
Tick ==
    /\ now < MaxTime /\ "customer" \notin hist
    /\ \A s \in Subs : mollie[s].st = "active" => mollie[s].next > now
    /\ now' = now + 1
    /\ Beside("midnight")
    /\ UNCHANGED <<row, mollie, pay, hooks, req, paidUntil, owed>>

\* mollieCreateSubscription and mollieCancelSubscription, where they succeed
Create(s, plan, from) ==
    /\ mollie[s].st = "none"
    /\ mollie' = [mollie EXCEPT ![s] = [st |-> "active", plan |-> plan, next |-> from]]
    /\ UNCHANGED <<pay, hooks, now, paidUntil, owed>>
Canceled(m) == [m EXCEPT !.st = "canceled", !.next = 0]
CancelAt(s) ==
    /\ mollie' = [mollie EXCEPT ![s] = Canceled(@)]
    /\ UNCHANGED <<pay, hooks, now, paidUntil, owed>>

-----------------------------------------------------------------------------
(* syncMollieSubscriptionToDb *)

\* The request goes on with the sync of s, as Mollie has answered it, then to ret.
Syncing(r, s, sub, ret, clear, keep) ==
    [r EXCEPT !.pc = "sync", !.id = s, !.sub = sub, !.ret = ret, !.clear = clear, !.keep = keep]
Synced(r) ==
    IF r.ret = "idle" THEN Idle
    ELSE [r EXCEPT !.pc = r.ret, !.ret = "none", !.id = None, !.sub = NoSub, !.seen = NewRow,
                   !.clear = FALSE, !.keep = FALSE]

\* An error reads like no row.
SyncRead(h) ==
    /\ At(h, "sync")
    /\ \/ Goto(h, [req[h] EXCEPT !.pc = "due", !.seen = row]) /\ Calm
       \/ Fault("read") /\ Step(h, "due")
    /\ UNCHANGED <<row, market>>

PeriodEnd(r) == IF r.sub.next # 0 THEN r.sub.next ELSE r.seen.end

\* Mutant: what Mollie has ended is over.
NeverHeld(r) == FALSE

\* Mollie has stopped charging, the paid period goes on.
Held(r) == r.sub.st = "canceled" /\ r.seen.soft /\ PeriodEnd(r) > now

\* Mutant: a status of Mollie's is stored as it is.
StatusAsIs(r) == r.sub.st

\* mapMollieSubscriptionStatus; a failed charge keeps the dunning going.
Status(r) ==
    CASE Held(r) -> IF r.seen.st # "canceled" THEN r.seen.st ELSE "active"
      [] r.sub.st = "suspended" -> "past_due"
      [] r.sub.st = "active" -> "active"
      [] OTHER -> "canceled"
Dunned(r, due) ==
    IF r.keep /\ due # 0 /\ Status(r) \in {"active", "incomplete"} THEN "past_due" ELSE Status(r)

\* nextPastDueSince
NextDue(r, due) ==
    CASE r.clear \/ Dunned(r, due) \in {"active", "canceled"} -> 0
      [] Dunned(r, due) = "past_due" /\ due = 0 -> now
      [] OTHER -> due

Payload(r, due) ==
    [plan |-> CASE Held(r) /\ r.seen.plan # Free -> r.seen.plan
                [] ~Held(r) /\ r.sub.st = "canceled" -> Free
                [] OTHER -> r.sub.plan,
     st |-> Dunned(r, due),
     sid |-> r.id,
     soft |-> Held(r),
     end |-> IF Held(r) /\ r.seen.end # 0 THEN r.seen.end ELSE PeriodEnd(r),
     due |-> NextDue(r, due)]

\* past_due_since is read, and written if it changes, before the row is.  An error
\* reads like no stamp.
SyncDue(h) ==
    /\ At(h, "due")
    /\ \E due \in {row.due, 0} :
          LET new == Payload(req[h], due)
          IN  /\ Goto(h, [req[h] EXCEPT !.seen = new,
                                        !.pc = IF (new.due = 0) = (due = 0) THEN "write" ELSE "mark"])
              /\ (due = row.due /\ Calm) \/ (due = 0 /\ Fault("due"))
    /\ UNCHANGED <<row, market>>

SyncMark(h) ==
    /\ At(h, "mark")
    /\ \/ row' = (IF req[h].seen.due = 0 THEN [row EXCEPT !.due = 0] ELSE Stamped(row)) /\ Calm
       \/ Fault("due") /\ UNCHANGED row
    /\ Step(h, "write")
    /\ UNCHANGED market

SyncWrite(h) ==
    /\ At(h, "write")
    /\ \/ row' = req[h].seen /\ Calm
       \/ Fault("write") /\ UNCHANGED row
    /\ Goto(h, Synced(req[h]))
    /\ UNCHANGED market

Sync(h) == SyncRead(h) \/ SyncDue(h) \/ SyncMark(h) \/ SyncWrite(h)
=============================================================================
