----------------------------- MODULE PlanWebhook -----------------------------
(***************************************************************************)
(* What Mollie's webhook does (process-mollie-billing-webhook.ts): after   *)
(* the first payment of a checkout a subscription is created, once; after  *)
(* a charge the row follows the subscription.  The payment is fetched; it  *)
(* is answered with 200 whatever comes of it, unless the process breaks.   *)
(***************************************************************************)
EXTENDS PlanTables

Hooking(h) == req[h].hook
Answered(h) == [Idle EXCEPT !.pc = "done", !.hook = Hooking(h)]

\* Mollie calls again while the first call is worked on: a fault.
Deliver(h) ==
    \E k \in hooks :
        /\ Begin(h, [Idle EXCEPT !.pc = "fetch", !.hook = k])
        /\ \/ (\A g \in Handlers : Hooking(g) # k) /\ Beside("overlap")
           \/ (\E g \in Handlers : Hooking(g) = k) /\ Fault("again")
        /\ UNCHANGED row

\* The payment cannot be fetched: nothing is done, and Mollie is answered 200.
Fetch(h) ==
    /\ At(h, "fetch")
    /\ \/ /\ Step(h, CASE Hooking(h).kind = "first" -> "existing"
                       [] Hooking(h).kind = "renewal" -> "state"
                       [] OTHER -> "entitle")
          /\ Calm
       \/ Fault("fetch") /\ Goto(h, Answered(h))
    /\ UNCHANGED <<row, market>>

\* Mollie does not call again, or does all the same.
Done(h) ==
    /\ At(h, "done")
    /\ \/ hooks' = hooks \ {Hooking(h)} /\ Calm
       \/ Fault("again") /\ UNCHANGED hooks
    /\ End(h)
    /\ UNCHANGED <<row, mollie, pay, now, paidUntil, owed>>

-----------------------------------------------------------------------------
(* billing_first *)

\* activateExistingMollieSubscription: with the plan that was paid for.
Activating(r, s) ==
    Syncing(r, s, [mollie[s] EXCEPT !.plan = pay[r.hook.id].plan], "done", TRUE, FALSE)

LookExisting(h) ==
    /\ At(h, "existing")
    /\ \/ /\ Goto(h, IF Real(row.sid) /\ row.st # "canceled" /\ row.plan # Free
                     THEN [req[h] EXCEPT !.pc = "get", !.id = row.sid]
                     ELSE [req[h] EXCEPT !.pc = "list"])
          /\ Calm
       \/ Fault("read") /\ Step(h, "list")
    /\ UNCHANGED <<row, market>>

GetExisting(h) ==
    /\ At(h, "get")
    /\ LET gone == [req[h] EXCEPT !.pc = "list", !.id = None]
       IN  \/ Goto(h, IF Open(req[h].id) THEN Activating(req[h], req[h].id) ELSE gone) /\ Calm
           \/ Fault("get") /\ Goto(h, gone)
    /\ UNCHANGED <<row, market>>

ListExisting(h) ==
    /\ At(h, "list")
    /\ \/ \E s \in Subs : Open(s) /\ Goto(h, Activating(req[h], s)) /\ Calm
       \/ (\A s \in Subs : ~Open(s)) /\ Step(h, "claim") /\ Calm
       \/ Fault("list") /\ Step(h, "claim")
    /\ UNCHANGED <<row, market>>

\* isOpenManagedSubscriptionRow
OpenRow == row.plan # Free /\ row.st # "canceled"

\* claimBillingFirstSubscriptionCreate: of several payments one creates the
\* subscription; the payment that has the claim keeps it.
Claim(h) ==
    LET p == Hooking(h).id
    IN  /\ At(h, "claim")
        /\ \/ /\ Real(row.sid) /\ OpenRow
              /\ Goto(h, Answered(h))
              /\ Happens(IF Open(row.sid) THEN {} ELSE {"leftover"})
           \/ row.sid = p /\ Step(h, "create") /\ Calm
           \/ row.sid \in Pays \ {p} /\ Goto(h, Answered(h)) /\ Calm
           \/ /\ row.sid \notin Pays /\ ~(Real(row.sid) /\ OpenRow)
              /\ Goto(h, [req[h] EXCEPT !.pc = "take", !.id = row.sid])
              /\ Calm
           \/ Fault("read") /\ Goto(h, [req[h] EXCEPT !.pc = "take", !.id = None])
        /\ UNCHANGED <<row, market>>

\* Mutant: the update does not ask for what was read.
TakeAnyway(h) ==
    /\ At(h, "take")
    /\ row' = [row EXCEPT !.sid = Hooking(h).id]
    /\ Goto(h, [req[h] EXCEPT !.pc = "create", !.id = None])
    /\ Calm
    /\ UNCHANGED market

\* The update asks for what was read; when it matches nothing, or fails, the row
\* is read again.
Take(h) ==
    /\ At(h, "take")
    /\ \/ /\ row.sid = req[h].id
          /\ row' = [row EXCEPT !.sid = Hooking(h).id]
          /\ Goto(h, [req[h] EXCEPT !.pc = "create", !.id = None])
          /\ Calm
       \/ /\ \/ row.sid # req[h].id /\ Calm
             \/ Fault("write")
          /\ Goto(h, [req[h] EXCEPT !.pc = "again", !.id = None])
          /\ UNCHANGED row
    /\ UNCHANGED market

TakeAgain(h) ==
    /\ At(h, "again")
    /\ \/ /\ Goto(h, IF row.sid = Hooking(h).id THEN [req[h] EXCEPT !.pc = "create"] ELSE Answered(h))
          /\ Calm
       \/ Fault("read") /\ Goto(h, Answered(h))
    /\ UNCHANGED <<row, market>>

CreateFirst(h) ==
    /\ At(h, "create")
    /\ \/ \E s \in Subs :
             /\ Create(s, pay[Hooking(h).id].plan, now + Interval)
             /\ Goto(h, Syncing(req[h], s, mollie'[s], "done", TRUE, FALSE))
             /\ Calm
       \/ Fault("create") /\ Step(h, "release") /\ UNCHANGED market
    /\ UNCHANGED row

\* releaseBillingFirstSubscriptionClaim
Release(h) ==
    /\ At(h, "release")
    /\ \/ row' = (IF row.sid = Hooking(h).id THEN [row EXCEPT !.sid = None] ELSE row) /\ Calm
       \/ Fault("write") /\ UNCHANGED row
    /\ Goto(h, Answered(h))
    /\ UNCHANGED market

First(h) ==
    \/ LookExisting(h) \/ GetExisting(h) \/ ListExisting(h) \/ Claim(h) \/ Take(h) \/ TakeAgain(h)
    \/ CreateFirst(h) \/ Release(h)

-----------------------------------------------------------------------------
(* A charge of a subscription *)

\* A row that names another subscription is left alone.
LookRenewed(h) ==
    LET k == Hooking(h)
    IN  /\ At(h, "state")
        /\ \/ Real(row.sid) /\ row.sid # k.id /\ Goto(h, Answered(h)) /\ Calm
           \/ /\ ~(Real(row.sid) /\ row.sid # k.id)
              /\ Goto(h, [req[h] EXCEPT !.seen = row, !.pc = IF k.paid THEN "getsub" ELSE "stamp"])
              /\ Calm
           \/ Fault("read") /\ Step(h, IF k.paid THEN "getsub" ELSE "stamp")
        /\ UNCHANGED <<row, market>>

StampFailed(h) ==
    /\ At(h, "stamp")
    /\ (row' = Stamped(row) /\ Calm) \/ (Fault("due") /\ UNCHANGED row)
    /\ Step(h, "getsub")
    /\ UNCHANGED market

\* Mutant: a failed charge that Mollie forgives is forgotten.
GetForgiving(h) ==
    LET k == Hooking(h)
    IN  /\ At(h, "getsub")
        /\ Goto(h, Syncing(req[h], k.id, mollie[k.id], "done", k.paid, FALSE))
        /\ Calm
        /\ UNCHANGED <<row, market>>

\* The row follows the subscription; if that cannot be read, a failed charge is
\* written into what the row was.
GetRenewed(h) ==
    LET k == Hooking(h)
        r == req[h]
    IN  /\ At(h, "getsub")
        /\ \/ /\ Goto(h, Syncing(r, k.id, mollie[k.id], "done", k.paid, ~k.paid))
              /\ Calm
              /\ UNCHANGED row
           \/ /\ Fault("get")
              /\ row' = IF k.paid \/ r.seen = NewRow THEN row
                        ELSE [r.seen EXCEPT !.plan = IF @ = Free THEN Basic ELSE @,
                                            !.st = "past_due", !.due = row.due]
              /\ Goto(h, Answered(h))
        /\ UNCHANGED market

Renewed(h) == LookRenewed(h) \/ StampFailed(h) \/ GetRenewed(h)

-----------------------------------------------------------------------------
(* Another means of payment *)

Entitle(h) ==
    /\ At(h, "entitle")
    /\ LET e == Entitled(row)
       IN  Goto(h, [req[h] EXCEPT !.ent = e, !.id = e.sid,
                                  !.pc = IF e.sid = None \/ e.soft THEN "restore" ELSE "update"])
    /\ (row' = Loaded(row) /\ Calm) \/ (Fault("write") /\ UNCHANGED row)
    /\ UNCHANGED market

\* Without the ids nothing is patched.
EntitleBlind(h) ==
    /\ At(h, "entitle")
    /\ Fault("blind")
    /\ \E e \in Blind(row) :
          /\ Goto(h, [req[h] EXCEPT !.ent = e, !.id = None, !.pc = "restore"])
          /\ row' = LoadedBlind(row, e)
    /\ UNCHANGED market

\* The subscription is patched, unless it has ended or there is none yet.
UpdateMandate(h) ==
    /\ At(h, "update")
    /\ \/ /\ Real(req[h].id) /\ Open(req[h].id)
          /\ Goto(h, Syncing(req[h], req[h].id, mollie[req[h].id], "restore", FALSE, FALSE))
          /\ Calm
       \/ ~(Real(req[h].id) /\ Open(req[h].id)) /\ Step(h, "restore") /\ Calm
       \/ Fault("patch") /\ Step(h, "restore")
    /\ UNCHANGED <<row, market>>

\* The row is given what it said at first, but for the stamp.
Restore(h) ==
    /\ At(h, "restore")
    /\ \/ row' = [req[h].ent EXCEPT !.due = row.due] /\ Calm
       \/ Fault("write") /\ UNCHANGED row
    /\ Goto(h, Answered(h))
    /\ UNCHANGED market

Mandate(h) == Entitle(h) \/ EntitleBlind(h) \/ UpdateMandate(h) \/ Restore(h)

Webhook(h) == Deliver(h) \/ Fetch(h) \/ First(h) \/ Renewed(h) \/ Mandate(h) \/ Done(h)
=============================================================================
