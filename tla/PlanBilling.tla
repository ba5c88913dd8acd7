----------------------------- MODULE PlanBilling -----------------------------
(***************************************************************************)
(* The restaurant's own requests (checkout.ts, manage-subscription.ts),    *)
(* the daily health check (daily-billing-health.ts) and what a visit of a  *)
(* page does (loadRestaurantEntitlements), beside Mollie's webhook.  A     *)
(* request that is refused at its first read is a visit, for what that     *)
(* read writes; one that gives up because of an error has vanished.        *)
(***************************************************************************)
EXTENDS PlanWebhook

\* What the first read writes may not be written.
Start(h, op, r) ==
    /\ op \in Ops
    /\ Begin(h, r)
    /\ \/ /\ row' = IF op \in {"health", "visit"} THEN row ELSE Loaded(row)
          /\ IF Quiet /\ hooks = {} THEN Calm
             ELSE Fault(IF op \in {"health", "visit"} THEN "daily" ELSE "owner")
       \/ /\ op \notin {"health", "visit"} /\ Quiet /\ hooks = {}
          /\ Fault("write")
          /\ UNCHANGED row

-----------------------------------------------------------------------------
(* createBillingCheckoutSession *)

\* A restaurant that pays is told to change its plan instead.
Checkout(h) ==
    LET e == Entitled(row)
        running == e.sid # None /\ e.st \in {"active", "past_due"}
    IN  \E plan \in Booked :
            \/ /\ running /\ GraceOver(row)
               /\ Start(h, "checkout", [Idle EXCEPT !.pc = "cget", !.plan = plan, !.id = e.sid])
            \/ ~running /\ Start(h, "checkout", [Idle EXCEPT !.pc = "cpay", !.plan = plan])

CheckoutGet(h) ==
    LET id == req[h].id
        gone == [req[h] EXCEPT !.pc = "cpay", !.id = None]
    IN  /\ At(h, "cget")
        /\ \/ Goto(h, IF Real(id) /\ Open(id) THEN [req[h] EXCEPT !.pc = "ccancel"] ELSE gone) /\ Calm
           \/ Fault("get") /\ Goto(h, gone)
        /\ UNCHANGED <<row, market>>

CheckoutCancel(h) ==
    LET id == req[h].id
    IN  /\ At(h, "ccancel")
        /\ \/ /\ CancelAt(id)
              /\ Goto(h, Syncing(req[h], id, Canceled(mollie[id]), "cpay", FALSE, FALSE))
              /\ Calm
           \/ /\ Fault("cancel")
              /\ Goto(h, [req[h] EXCEPT !.pc = "cpay", !.id = None])
              /\ UNCHANGED market
        /\ UNCHANGED row

\* A checkout that has read nothing of Mollie's is not told so: it makes another
\* customer and forgets the subscription that the row names.  So does a checkout
\* that meets the restaurant's first one, before there is a customer.
CheckoutBlind(h) ==
    /\ "checkout" \in Ops
    /\ Fault("customer")
    /\ \E plan \in Booked, e \in Blind(row) :
          /\ Begin(h, [Idle EXCEPT !.pc = "cust", !.plan = plan, !.ent = e])
          /\ row' = LoadedBlind(row, e)

CheckoutCustomer(h) ==
    LET e == req[h].ent
    IN  /\ At(h, "cust")
        /\ \/ row' = [row EXCEPT !.plan = e.plan, !.st = e.st, !.sid = None, !.end = 0] /\ Calm
           \/ Fault("write") /\ UNCHANGED row
        /\ Goto(h, [req[h] EXCEPT !.pc = "cpay", !.ent = NewRow])
        /\ UNCHANGED market

\* The customer is sent to pay; the subscription the row names stays.
CheckoutPay(h) ==
    /\ At(h, "cpay")
    /\ \E p \in Pays :
          /\ pay[p].st = "none"
          /\ pay' = [pay EXCEPT ![p] = [st |-> "open", plan |-> req[h].plan]]
    /\ \/ row' = [row EXCEPT !.plan = req[h].plan, !.st = "incomplete", !.end = 0] /\ Calm
       \/ Fault("write") /\ UNCHANGED row
    /\ End(h)
    /\ UNCHANGED <<mollie, hooks, now, paidUntil, owed>>

-----------------------------------------------------------------------------
(* setRestaurantBillingCancelAtPeriodEnd, updateRestaurantBillingPlan *)

\* Mollie stops charging now; the plan stays until the period ends.
CancelPlan(h) ==
    LET e == Entitled(row)
    IN  /\ Managed(e) /\ e.plan # Free /\ ~e.soft
        /\ Start(h, "cancel", [Idle EXCEPT !.pc = "sget", !.ent = e])

\* A claim is not known to Mollie.
CancelGet(h) ==
    LET e == req[h].ent
    IN  /\ At(h, "sget")
        /\ IF ~Real(e.sid) THEN Step(h, "swrite")
           ELSE Goto(h, [req[h] EXCEPT !.pc = IF Open(e.sid) THEN "scancel" ELSE "swrite",
                                       !.ent.end = IF mollie[e.sid].next # 0 THEN mollie[e.sid].next
                                                   ELSE @])
        /\ Calm
        /\ UNCHANGED <<row, market>>

\* Mutant: the plan is cancelled here and not at Mollie.
CancelHere(h) ==
    /\ At(h, "scancel")
    /\ Step(h, "swrite")
    /\ Calm
    /\ UNCHANGED <<row, market>>

CancelMollie(h) ==
    /\ At(h, "scancel")
    /\ CancelAt(req[h].ent.sid)
    /\ Step(h, "swrite")
    /\ Calm
    /\ UNCHANGED row

CancelWrite(h) ==
    /\ At(h, "swrite")
    /\ row' = [req[h].ent EXCEPT !.soft = TRUE, !.due = row.due]
    /\ End(h)
    /\ Calm
    /\ UNCHANGED market

\* A cancelled plan is taken back, or changed: with another subscription.
UndoCancel(h) ==
    LET e == Entitled(row)
    IN  /\ Managed(e) /\ e.plan # Free /\ e.soft
        /\ Start(h, "undo", [Idle EXCEPT !.pc = "recreate", !.plan = e.plan, !.id = e.sid, !.ent = e])

ChangePlan(h) ==
    LET e == Entitled(row)
    IN  /\ Managed(e) /\ e.st = "active" /\ e.plan # Free
        /\ \E plan \in Plans :
              Start(h, "change", [Idle EXCEPT !.pc = IF e.soft THEN "recreate" ELSE "patch",
                                              !.plan = plan, !.id = e.sid, !.ent = e])

\* recreateMollieSubscription: from the end of the paid period on.
Recreate(h) ==
    LET r == req[h]
    IN  /\ At(h, "recreate")
        /\ \E s \in Subs :
              /\ Create(s, r.plan, Later(r.ent.end, now))
              /\ Goto(h, Syncing(Idle, s, mollie'[s], "idle", FALSE, FALSE))
        /\ Happens({"recreated"})
        /\ UNCHANGED row

\* What is charged for the rest of the period comes before and is not modelled.
Patch(h) ==
    LET r == req[h]
    IN  /\ At(h, "patch")
        /\ Real(r.id) /\ Open(r.id)
        /\ mollie' = [mollie EXCEPT ![r.id].plan = r.plan]
        /\ Goto(h, Syncing(Idle, r.id, mollie'[r.id], "idle", FALSE, FALSE))
        /\ Calm
        /\ UNCHANGED <<row, pay, hooks, now, paidUntil, owed>>

PatchRefused(h) ==
    /\ At(h, "patch")
    /\ ~(Real(req[h].id) /\ Open(req[h].id))
    /\ End(h)
    /\ Calm
    /\ UNCHANGED <<row, market>>

-----------------------------------------------------------------------------
(* runDailyBillingHealthCheck *)

Health(h) ==
    Start(h, "health", IF row.sid = None THEN [Idle EXCEPT !.pc = "fin"]
                       ELSE [Idle EXCEPT !.pc = "hget", !.id = row.sid])

\* A claim is not known to Mollie.
HealthGet(h) ==
    LET id == req[h].id
    IN  /\ At(h, "hget")
        /\ \/ /\ Goto(h, IF Real(id) THEN Syncing(req[h], id, mollie[id], "cut", FALSE, FALSE)
                         ELSE [req[h] EXCEPT !.pc = "missing"])
              /\ Happens(IF Real(id) /\ mollie[id].st = "active" /\ row.st = "past_due"
                         THEN {"forgiven"} ELSE {})
           \/ Fault("get") /\ Goto(h, [req[h] EXCEPT !.pc = "cut", !.id = None])
        /\ UNCHANGED <<row, market>>

HealthMissing(h) ==
    /\ At(h, "missing")
    /\ \/ /\ Goto(h, IF row.soft /\ row.end > now THEN [req[h] EXCEPT !.pc = "cut", !.id = None]
                     ELSE [req[h] EXCEPT !.pc = "hwrite"])
          /\ Calm
       \/ Fault("read") /\ Step(h, "hwrite")
    /\ UNCHANGED <<row, market>>

HealthWrite(h) ==
    /\ At(h, "hwrite")
    /\ (row' = Ended(req[h].id) /\ Calm) \/ (Fault("write") /\ UNCHANGED row)
    /\ Goto(h, [req[h] EXCEPT !.pc = "cut", !.id = None])
    /\ UNCHANGED market

\* cancelMollieSubscriptionsPastDueGraceExpired
Cut(h) ==
    /\ At(h, "cut")
    /\ Goto(h, IF row.due # 0 /\ row.due + Grace <= now /\ row.sid # None /\ row.st # "canceled"
               THEN [req[h] EXCEPT !.pc = "cutget", !.id = row.sid]
               ELSE [req[h] EXCEPT !.pc = "fin"])
    /\ Calm
    /\ UNCHANGED <<row, market>>

CutGet(h) ==
    LET r == req[h]
        none == [r EXCEPT !.pc = "fin", !.id = None]
    IN  /\ At(h, "cutget")
        /\ \/ /\ Goto(h, CASE ~Real(r.id) -> none
                           [] Real(r.id) /\ mollie[r.id].st = "suspended" -> [r EXCEPT !.pc = "cutcancel"]
                           [] OTHER -> Syncing(r, r.id, mollie[r.id], "fin",
                                               mollie[r.id].st = "active", FALSE))
              /\ Calm
           \/ Fault("get") /\ Goto(h, none)
        /\ UNCHANGED <<row, market>>

CutCancel(h) ==
    LET r == req[h]
    IN  /\ At(h, "cutcancel")
        /\ \/ /\ CancelAt(r.id)
              /\ Goto(h, Syncing(r, r.id, Canceled(mollie[r.id]), "fin", FALSE, FALSE))
              /\ Calm
           \/ Fault("cancel") /\ Goto(h, [r EXCEPT !.pc = "fin", !.id = None]) /\ UNCHANGED market
        /\ UNCHANGED row

\* finalizeMolliePeriodEndCancellations
Fin(h) ==
    /\ At(h, "fin")
    /\ Goto(h, IF PeriodOver(row) /\ row.st # "canceled"
               THEN [req[h] EXCEPT !.pc = "finget", !.id = row.sid] ELSE Idle)
    /\ Calm
    /\ UNCHANGED <<row, market>>

\* What is still open at Mollie is cancelled; that it cannot be is not looked at.
FinCancel(h) ==
    LET id == req[h].id
    IN  /\ At(h, "finget")
        /\ \/ (IF Real(id) /\ Open(id) THEN CancelAt(id) ELSE UNCHANGED market) /\ Calm
           \/ Fault("cancel") /\ UNCHANGED market
        /\ Step(h, "finwrite")
        /\ UNCHANGED row

FinWrite(h) ==
    /\ At(h, "finwrite")
    /\ row' = Ended(req[h].id)
    /\ End(h)
    /\ Calm
    /\ UNCHANGED market

\* A visit stamps what has no stamp, and ends at once what is over.
Visit(h) ==
    \/ row.st = "past_due" /\ row.due = 0 /\ Start(h, "visit", [Idle EXCEPT !.pc = "vstamp"])
    \/ /\ PeriodOver(row) /\ row.st # "canceled"
       /\ Start(h, "visit", [Idle EXCEPT !.pc = "finwrite", !.id = row.sid])

\* Any request that cannot read the row and is refused: it ends what is over
\* without the ids of Mollie, the customer's included.
VisitBlind(h) ==
    /\ "visit" \in Ops
    /\ PeriodOver(row) /\ row.st # "canceled"
    /\ Fault("customer")
    /\ Begin(h, [Idle EXCEPT !.pc = "finwrite"])
    /\ UNCHANGED row

VisitStamp(h) ==
    /\ At(h, "vstamp")
    /\ row' = Stamped(row)
    /\ End(h)
    /\ Calm
    /\ UNCHANGED market

-----------------------------------------------------------------------------
(* Two customers *)

\* From then on hist tells that Mollie has the restaurant under two customers: what
\* is asked for, under the one, may be known to Mollie under the other.
NotFound(h) ==
    LET r == req[h]
        on(pc) == Goto(h, [r EXCEPT !.pc = pc, !.id = IF pc \in {"list", "cpay", "fin"} THEN None ELSE @])
    IN  /\ "customer" \in hist
        /\ CASE r.pc = "get" -> on("list")
             [] r.pc = "list" -> on("claim")
             [] r.pc = "update" -> on("restore")
             [] r.pc \in {"cget", "ccancel"} -> on("cpay")
             [] r.pc = "sget" -> on("swrite")
             [] r.pc = "hget" -> on("missing")
             [] r.pc \in {"cutget", "cutcancel"} -> on("fin")
             [] r.pc = "finget" -> on("finwrite")
             [] r.pc \in {"scancel", "patch"} -> End(h)
             [] r.pc = "entitle" /\ row.sid # None /\ ~row.soft -> Goto(h, Answered(h))
             [] OTHER -> FALSE
        /\ row' = IF r.pc = "entitle" THEN Loaded(row) ELSE row
        /\ Calm
        /\ UNCHANGED market

-----------------------------------------------------------------------------
Checkouts(h) ==
    \/ Checkout(h) \/ CheckoutGet(h) \/ CheckoutCancel(h)
    \/ CheckoutBlind(h) \/ CheckoutCustomer(h) \/ CheckoutPay(h)

Managing(h) ==
    \/ CancelPlan(h) \/ CancelGet(h) \/ CancelMollie(h) \/ CancelWrite(h)
    \/ UndoCancel(h) \/ ChangePlan(h) \/ Recreate(h) \/ Patch(h) \/ PatchRefused(h)

HealthChecks(h) ==
    \/ Health(h) \/ HealthGet(h) \/ HealthMissing(h) \/ HealthWrite(h)
    \/ Cut(h) \/ CutGet(h) \/ CutCancel(h) \/ Fin(h) \/ FinCancel(h) \/ FinWrite(h)

Market ==
    \/ \E p \in Pays : PayFirst(p)
    \/ \E s \in Subs : Charge(s) \/ Recover(s)
    \/ NewMandate
    \/ Tick

Next ==
    \/ Market
    \/ \E h \in Handlers :
          \/ Webhook(h) \/ Sync(h) \/ Checkouts(h) \/ Managing(h) \/ HealthChecks(h)
          \/ Visit(h) \/ VisitBlind(h) \/ VisitStamp(h) \/ NotFound(h) \/ Vanish(h)

Spec == Init /\ [][Next]_vars

-----------------------------------------------------------------------------
(* Safety *)

Settled == Quiet /\ hooks = {}

\* A restaurant has one subscription at Mollie, however its requests, its payments
\* and the webhooks meet, and though a row that was not read has lost it: unless Mollie
\* calls twice for one payment, or a checkout that has read nothing makes another
\* customer; or a cancelled plan is recreated amid other requests, or after one broke
\* off (claimBillingFirstSubscriptionCreate, recreateMollieSubscription).
OneSubscription ==
    /\ {"again", "customer"} \cap hist = {}
    /\ "recreated" \in hist => hist \cap {"overlap", "owner", "daily", "vanish", "write"} = {}
    => \A s, t \in Subs : Open(s) /\ Open(t) => s = t

\* What no property below has to leave out.
Harmless == {"midnight", "list", "patch", "recreated"}

\* What was paid for is there: unless the first payment cannot be fetched, or no
\* subscription can be created for it, for Mollie is answered 200 all the same; a claim
\* is refused because of a subscription that has ended (leftover); or the row cannot be
\* read or written.  The stamp may fail: it is for what is not paid.
PaidIsServed ==
    Settled /\ hist \subseteq Harmless \cup {"forgiven", "due"} /\ now < paidUntil => Access(row)

\* Mollie charges for the plan that the row has, and for no other, and stops when it
\* has been cancelled: of two first payments the second may change the row's plan.  A
\* row that cannot be read may go on, but not into a mandate or a checkout, which take
\* its subscription away (blind, customer); nor may the row not be written.
BothAgree ==
    Settled /\ hist \subseteq Harmless \cup {"forgiven", "leftover", "fetch", "create", "read", "due"} =>
        \A s \in Subs : Open(s) =>
            row.sid = s /\ row.plan = mollie[s].plan /\ ~row.soft /\ row.st \in {"active", "past_due"}

\* A restaurant whose charge has failed is dunned until it pays, though Mollie lets
\* the subscription go on (preservePastDue): a health check forgives it, and so does a
\* stamp that cannot be read or written (due).
UnpaidIsDunned ==
    Settled /\ hist \subseteq Harmless \cup {"leftover", "create", "read"} =>
        \A s \in owed : row.sid = s /\ Open(s) => row.st = "past_due"
=============================================================================
