# A TLA+ model of gwada-app

gwada-app is a restaurant platform: a Next.js web application (`apps/web`), a
Nest service for the waiters' app (`apps/pos-api`), a Swift point-of-sale app
for iPad and iPhone (`apps/pos`), shared algorithms (`packages/pos-domain`) and
a Postgres database (`supabase/migrations`). This directory specifies the parts
of it in which concurrency, failure and retries decide whether the till is
right.

## 1. Inventory

| Component | State it keeps | Operations | Interacts with |
|---|---|---|---|
| Hub outbox (`PosSyncQueue`, `PosSessionIdMap`, `PosRuntime`) | `sync-queue.json`, `session-id-map.json`, the open sessions of the floor | enqueue open, order, cash payment, fire, move, release; flush; remap a session id; load after a restart; bootstrap pull | Nest by `POST /v1/sync/events`, the web POS as a fallback, handhelds on the LAN |
| Nest ingest (`SyncService`) | `pos_sync_events` | look the key up, apply the event, store the key | the hub, the Nest services |
| Nest floor (`SessionsService`, `OrdersService`, `PaymentsService`) | `pos_table_sessions`, `pos_orders`, `pos_order_lines`, `pos_payments`, `pos_payment_line_allocations` | open, order, fire, bill, collect cash, mark paid, release, move | ingest, Fiskaly, the same tables as the web POS |
| Web settlement and payment pipeline | the same tables, `pos_fiscal_transactions`, receipts | collect cash, voucher, custom method, Mollie; sign; finalize; close a session; void | Fiskaly, Mollie webhooks, Nest through the tables |
| Gift vouchers | vouchers, transactions | issue, redeem, refund, adjust | settlement |
| Hub floor, tickets, printing | `PosHubState`: tickets, fired courses, a print queue of 80 jobs | fire, advance a ticket, print, retry, pair and lock devices | handhelds, printers |
| POS domain algorithms | none | split a bill, allocate cents, VAT buckets | settlement on both servers |
| Guest ordering and payments | orders, payments | create, pay, webhook | Mollie, stock |
| Reservations | reservations, tables, outbox | book, move, assign tables, remind | messages |
| Register and fiscal signing | register sessions, a copy of the open one in the fiscal config, signed transactions, cash point closings at the fiscal service | open, backfill, sign and store, sign again, Z close, poll | Fiskaly, settlement, the till's screens |
| Notification delivery | `notification_events`, `notification_deliveries` with claims and attempts | claim, fan out, send, look up, retry, give up, release | mail server, WhatsApp gateway, crons |
| Billing | `restaurant_subscriptions`, subscriptions and payments at Mollie | checkout, webhook of a payment, cancel, undo, change, mandate, daily health check, grace | Mollie |

What is hard in it:

* **Retries without a transaction.** The outbox sends what may already have
  been applied; the only protection is a key in `pos_sync_events`, written
  after the effect and in another round trip.
* **Concurrent handlers over shared rows.** Nest and the web POS read, compute
  and write in separate statements; the database protects with unique indexes
  and check constraints only.
* **Callbacks on one actor.** The hub's flush suspends at every request; its
  other handlers run meanwhile, over the same queue, map and floor.
* **Crashes and restarts** between two writes, on the iPad and in Nest.
* **Leases**: a worker that is slow, or has died, holds rows that others release
  after a time; a message that timed out may have gone out.
* **A second system of record**: Fiskaly has the closings, Mollie the subscriptions;
  each is called between two statements, answers late or not at all, and calls back.
* **Limits**: the print queue of the hub, the attempts of a delivery.

The correctness properties that follow: what a waiter did reaches the cloud,
in order, once, on the session it was meant for; two parties never share a bill;
a line is never counted as paid without a payment that pays for it; a table has
one active session; a paid session has no open lines; a voucher is never spent
twice; a message is not lost and not sent twice; a signed transaction is in one Z
report; a restaurant has one subscription at Mollie, and its row says what Mollie
charges for.

## 2. Modules

| Module | Models | Code |
|---|---|---|
| `HubChannel` | identifiers, queue entries, idempotency keys, requests in flight | `PosSyncQueueItem`, `processViaNest`, `PosNestClient` |
| `PosSyncQueue` | the hub side of the outbox | `apps/pos/Sources/Store`, `PosRuntime` |
| `SyncService` | `ingest` with its three awaits, the services it calls as one step each | `apps/pos-api/src/sync` |
| `OutboxPromise` | the abstract outbox: asked in order, carried out in order, once | (the promise of `PosSyncQueue.swift:148`) |
| `HubSync` | hub, Nest and what is between them; the properties | the three above |
| `MCHubSync` | the symmetries for TLC | |
| `HubSync_proofs` | theorems about the order of the queue | |
| `HubEvents_proofs` | theorems about what becomes of an event | |
| `PosTables` | the tables of a bill, requests as little programs, the statements both servers use | `supabase/migrations`, `orders.service.ts` |
| `NestFloor` | open, bill, release, move, order, collect cash | `apps/pos-api/src/sessions`, `apps/pos-api/src/orders` |
| `WebSettlement` | open, order, collect cash, close, void | `apps/web/lib/pos` |
| `FloorPromise` | the abstract floor: seat, order, pay, settle, leave, refund, each in one step | (the states of `kellner-swift-native-plan.md:115`) |
| `TableBill` | both servers over the same tables; the properties | the two above |
| `MCTableBill`, `TableBill_proofs` | the symmetries for TLC; the theorems for requests that interleave | |
| `SerialBill_proofs` | the theorems for requests one at a time, the refinement of `FloorPromise` among them | |
| `GiftVoucher` | issue, redeem, void, expire a gift voucher; cash book, accounting, event log | `pos-gift-vouchers-server.ts`, `collectVoucherAllocations` |
| `MCGiftVoucher`, `GiftVoucher_proofs` | the symmetries for TLC; the theorems | |
| `PushTables` | events and deliveries with their claims, time, the functions of the database | `supabase/migrations` (`claim_…`, `release_stale_…`) |
| `PushDelivery` | the runs of the cron and of one event: fan-out, claim, send, look up, record | `lib/notifications/notification-deliver-cron.ts` and the WhatsApp files |
| `MCPushDelivery`, `PushDelivery_proofs` | audiences and times for TLC; the theorems | |
| `RegisterSession` | the register of a restaurant, statement by statement, with the fiscal service | `fiskaly-register-session.ts`, `register-report-aggregate.ts`, `pos-payment-pipeline.ts` |
| `MCRegisterSession`, `RegisterSession_proofs` | the symmetries for TLC; the theorems | |
| `PlanTables` | the row of a paid plan, Mollie, the sync of one into the other | `sync-mollie-subscription.ts`, `subscription-db.ts`, `past-due-grace.ts` |
| `PlanWebhook` | what Mollie's webhook does for a first payment, a charge, a mandate | `process-mollie-billing-webhook.ts` |
| `PlanBilling` | checkout, cancel, undo, change, health check, visits; the properties | `checkout.ts`, `manage-subscription.ts`, `daily-billing-health.ts` |
| `MCPlanBilling`, `PlanBilling_proofs` | the symmetries for TLC; the theorems | |

### The outbox

How state and actions correspond to the code, in short:

* `items` is `PosSyncQueue.items` and its file, which `didSet` rewrites on every
  assignment; a restart (`HubCrash`) therefore finds `items`, `idMap` and the
  floor as they were and only loses the running flush.
* `flush` holds the local variables of `flushIfPossible`: its working copy
  (`rest`), what it keeps (`kept`), and whether it waits for an answer.  The
  class is `@MainActor`: what happens between two awaits is one action, and
  other handlers run while it waits. `StopOffline` is the branch for
  `PosCloudError.offline`, `KeepAndGoOn` the one for every other error.
* `Enqueue` resolves the session id like `enqueueX`; the callers
  (`OpenTable`, `OrderOnFreeTable`, `MoveSession`, ...) also do what their
  handlers do to the floor.
* `calls[h]` is one execution of `ingest`. `LookupHit`, `LookupMiss` and
  `LookupError` are the outcomes of the first query, `ApplyX` and
  `ApplyRefused` of `applyEvent`, `InsertKey`, `InsertDuplicate` and
  `InsertFails` of the insert, `Answer` the response.
* `asked`, `acked` and `effects` are history variables; no guard of the
  protocol reads them, except the bound on the number of entries.

### The bill

Both servers reach the tables through PostgREST: every `await` is one statement
and no transaction joins two of them.

* `req[h]` is one request in flight. `pc` names the statement it will execute
  next, the other fields are the local variables of the handler: the ids of the
  orders it selected (`ids`), the `paid_quantity` it read (`seen`), what it was
  asked to collect or takes back (`ask`), the lines it has still to write (`todo`),
  the payment it inserted (`pay`). A handler that refuses at its first read changes
  nothing and is no step; its later refusals are `End`.
* `order[l]` is an order with its lines, which one statement inserts: a bill with
  several lines is several orders here. `stage` is `empty` between the two inserts.
* `pays[p]` has the allocation rows of the payment, `allocated[l]` is their sum
  per line; it is kept beside the rows because several properties speak of it.
  `PaidIsSum` checks it against the rows: a sum is the number of pairs of a payment
  and one of the units it pays for (`Units`), which the prover can count, and not a
  fold, of which it can say nothing.
* `IndexAllows` is the partial unique index on active sessions. An update that it
  refuses leaves the row alone; where the code ignores the error the request goes on.
* Both servers do some statements alike (`InsertOrder`, `InsertPayment`,
  `InsertRows`, `UpdatePaid`); they are defined once in `PosTables` and `"map"`
  names one of the two places. Where they differ they have actions of their own:
  when the allocation rows fail Nest leaves the payment (`CollectRowsFail`), the web
  POS deletes it (`WebRowsFail`, `DeletePayment`); when a line's update fails Nest
  goes on (`CollectWriteFails`), the web POS returns (`Vanish`).
* `paid` stands for `paid_pending_release`. `SetBill` is one conditional statement
  and so one step without a request.

Left out, because no modelled guard reads it: prices and tips, `is_fully_paid`,
`settled_cents`, the kitchen status of an order, fiscal data and stock. The till
is open (when it is not, the handlers return before they change anything).
`markPaidPendingRelease` has no route.

### Gift vouchers

`req[h]` is again a request with its local variables. A redemption inserts its
payment, as paid, before it looks at the voucher, and deletes it when it is refused;
a void and an expiry write the books before they update the voucher. The updates
are guarded, of a redemption by status and balance, of a void and an expiry by the
status only; that no row matched is no error to PostgREST, and the request goes
on to its event (`StillRead`, `RedeemUpdate`, `VoidUpdate`, `ExpireUpdate`). Every
redemption and every lookup expires what is due first.

Every statement may be answered with an error, and then it has not happened. Few are
acted on (`Refused`, and the branches of `IssuePayment` and `RedeemRows`): a sale that
fails deletes its voucher, a redemption whose rows, read or update fail deletes its
payment, a due list that cannot be read is empty. All others are passed over (`Slip`,
the actions in `Failing`): the request goes on as if the statement had succeeded, or
ends. Each leaves its kind in the history variable `hist`, beside `overlap` (two
requests at a time) and `broken` (one that broke off), and each property says which
of them it does not survive:

| error passed over | where | breaks |
| --- | --- | --- |
| `unearned`, `unspent`: no category or no cash entry | `pos-gift-vouchers-server.ts:565-588`, `:650-675` | `BooksAgree`; `unspent` also `NothingVanishes` |
| `overbooked`: a void whose update fails, after its expense | `:690-692` | `BooksAgree` |
| `unlogged`: an event that is not inserted | `:158-169` | `BooksAgree` |
| `unbooked`: an expired balance not booked, for an error or because no profile issued it | `:787`, `:817` | `ValueKept`, `NothingVanishes` |
| `rebooked`: an expiry booked and then not made, so booked again | `:835` | `ValueKept` |
| `undone`: a redemption undone after the balance was reduced | `:922` | `ValueKept`, `NothingVanishes` |
| `kept`: the payment of a refused redemption stays | `pos-session-settlement-server.ts:1019-1022` | `ValueKept` |
| `unissued`, `unlinked`, `unrefunded`: the voucher of a failed sale stays; a sale the voucher does not name; one that is not refunded | `:540-545`, `:590-597`, `:694-701` | `ValueKept`, `BooksAgree` |

What was redeemed is again counted, not folded: the cents of the payments
(`Cents`, `Redeemed`).

Left out: codes, validity, prints and settings; the lines a redemption pays for,
which are those of `TableBill`; the limit of 100 vouchers to an expiry; a statement that
takes effect and is answered with an error all the same; the till is open.

### Push notifications

* `event[e]` is a row of `notification_events`, `row[<<e, t>>]` one of
  `notification_deliveries`: `t` is a colleague with a channel. `run[w]` is one run
  of the cron or of a single event with its local variables: the events it has
  claimed (`todo`), its batch with the attempts it read (`seen`), the row in hand, how
  long it has been going (`ran`) and how long the current delivery takes (`one`).
* The functions of the database are single steps; of each, the last
  migration counts. `Taken` is the claim of events, `ClaimedRows` that of
  rows, `ReleasedRows` and `StaleUnlocked` the two releases at the start of a cron.
* Time is kept as ages in ticks of about 45 s; the long times are shortened (`Hold`,
  `StaleRow`, `Window`) and keep their order. Ages stop at the largest value anything
  is compared with, so the state space is finite without a bound on time.
* `Prior` looks in the chat history for a message that may be out, `Evidence` is what
  it can find: a message that went out shows up within `Grace`. `Send`,
  `Failure` and `Record` are the call, `decideWhatsappRetry` and the update of the row.
* `lapsed` and `missed` are history: rows whose first sending no one recorded, events
  whose cron broke off before it made their rows.

Left out: whom an event is for and what it says, digests, the outboxes of guest
messages and reservations; two messages with the same text that confirm each other in the
chat; the cap of 200 rounds and the batch of 50 events. Any error of a claim is that run's end
(`Die`). An error while the events of a batch are read makes its rows final
(`unaddressed`).

### The register

* `sess`, `config` and `signed` are tables, `closing` the closings at the service. A request
  calls `getOpenRegisterSession` from five places, so that is a subroutine here:
  `Call` goes to `find` and remembers in `ret` where to go on.
* A close reads the counter and takes its stamp (`CloseRead`), selects the
  transactions of the window (`CloseBuild`), sends them (`ClosePut`), waits
  (`CloseWait`), closes the session (`CloseRecord`) and then the config (`CloseClear`). A
  payment is signed (`Sign`) and stored with its stamp (`Store`) in two steps.
* A payment is signed under an id of its own; `Retry` signs the order as a whole, under the
  order's id (`Orders`), whether it has a transaction or not. `Store` is an upsert, so
  the `signed_at` of an order that is signed again is overwritten.
* `Process` is the service at work: a pending closing is completed or an error.
* `Init` includes a restaurant whose register is open in the config only, as it was
  before there was a table of sessions.
* `hist` notes what a property must leave out: a close that meets another request, a
  transaction signed while a close counts or the register is closed, a closing that
  no session records, a closed session that is still in the config, and which
  transactions were signed again.

Left out: the cents and taxes of a report, exports, provisioning, repair by
`fiskaly-reconcile.ts`, accounting. All stamps come from one clock and differ.

### The paid plan

* `row` is the restaurant's row. Its `sid` names a subscription, nothing, or a payment:
  the claim `claim:tr_…` is stored in the same column. `mollie`, `pay` and `hooks` are
  Mollie's: subscriptions, first payments, and what it has still to call the webhook for.
* `req[h]` is a request or a call of the webhook; a statement or a call of Mollie per
  step. `syncMollieSubscriptionToDb` is a subroutine with a return place (`Syncing`,
  `Synced`).
* `loadRestaurantEntitlements` writes while it reads (a stamp, the end of a plan): that is
  `Loaded`, at the start of each request; that it ends a plan later is a `Visit` beside it.
* An error of a statement is passed over almost everywhere, and the request goes on with what
  it has (`read`, `write`, `get`, `list`, ...). Three have a name of their own, for what
  they lead to. `loadRestaurantEntitlements` reads a row that it could not read once more
  without the ids of Mollie, or goes on without a row (`Blind`): a mandate then writes the row
  back without its subscription (`EntitleBlind`; `blind`); a checkout is not told that
  there is a plan already, makes another customer at Mollie and forgets the
  subscription (`CheckoutBlind`, `CheckoutCustomer`; `customer`), and a visit ends a plan
  without its ids (`VisitBlind`; `customer`). From then on what is asked of Mollie under one
  customer may be known under the other (`NotFound`). And the stamp of an unpaid charge reads
  as none, or is not written (`SyncDue`, `SyncMark`, `StampFailed`; `due`).
* A day is a tick, and passes only after what is due has been charged. A charge fails and
  Mollie goes on, or suspends the subscription; what it owes is `owed`.
* What comes from outside is bounded like a fault: Mollie acts in the company of a
  request (`overlap`), the restaurant does (`owner`), a health check or visit does
  (`daily`), midnight passes (`midnight`), Mollie calls again for a payment (`again`).
  `Notes` are not bounded: they mark what the code leads to and a property
  leaves out.

Left out: amounts, intervals, proration and its charge, add-ons, invoices, gratis plans,
other statuses (`pending`, `completed`, `trialing`, `unpaid`, `paused`); the restaurant's first customer
(which of two customers knows what is not followed, `NotFound` allows either); errors of the
lists of the health check; a second error in one step (a charge whose subscription cannot be
read, in a row that then cannot be written).
Merged: get and cancel of a finalized plan; the payment of a checkout and the update
of the row, because the customer gets the link only afterwards.

## 3. Runs

### The outbox

Bounds: two local sessions, three cloud sessions and two tables let a table be
freed and taken again and let two parties be confused; three entries are an
open, something booked on it and what follows, and the fourth of `hub_promise` lets a
party that moved be followed at its old table by another; two requests are enough for a
retry that overtakes its original; two faults are a fault and one during the
recovery from it. `Allowed` names the faults of a run, `UserOps` what the
waiters do. Sessions and requests are interchangeable (`Symmetry`) in the safety
runs; the run with liveness uses no symmetry. `CHECK_DEADLOCK FALSE`: when all
entries are synced and no more may be enqueued (the bound), nothing is left to do.

* `hub_faults`: every fault, two per behaviour. The queue keeps its order,
  what is dropped as synced has its key stored, nothing is booked on another
  party's session, a mapped session id keeps its meaning.
* `hub_retry`: every operation, one request at a time, time-outs, restarts of
  the app and a till that is closed and opened. Nothing is carried out twice
  and nothing is lost from the hub.
* `hub_promise`: open, order, move and release, with time-outs and restarts; under fairness the outbox implements
  `OutboxPromise`, in liveness too: what was asked for is carried out in order,
  once, and all of it. Two parties never share a session and the queue drains.
  No party goes back to a table it was moved to before (no `"return"` in `Allowed`): its
  move would be taken for a retry, and with four entries `AckedIsApplied` is then violated.
* `hub_rejected` (violation): a refused event is stored under its key; its retry
  is a duplicate and leaves the queue unapplied.

### The bill

`Allowed` and `Ops` choose the behaviours and operations of a run; ids are
interchangeable. `CHECK_DEADLOCK FALSE`: when the ids are used up and every table
is free nothing is left to do.

* `bill_serial`: every operation of both servers and voids, one request at a time;
  the lines of an order and the allocation rows of a web payment may fail (twice).
  Two sessions and two tables let a table be freed, taken again and moved to; two
  lines of quantity up to two and three payments let a line be paid in parts, by two
  payments, and one of them be voided. Between requests the bill, the payments
  and their rows agree; every request is one step of `FloorPromise`, judged by the
  allocation rows and not by the column the handlers decide by.
* `bill_concurrent`: two requests of Nest or the web POS interleaved statement by
  statement; one may break off anywhere, or one statement may fail. No line shows
  more paid than was allocated or ordered. One line is enough, for the two
  properties speak of one line at a time.

Two consequences of the code need no run. Of two payments of a line collected at
the same time one share is lost from `paid_quantity` (`orders.service.ts:308`)
while both allocation rows stand, although the migration (`20260608250000:54`) calls the
column their sum; `PaidIsSum` therefore belongs to `bill_serial`. And a payment of a
settled session may be voided in the web POS while the session stays settled.

### Gift vouchers

* `voucher_books`: every operation, two requests interleaved, one fault: a request that
  breaks off, or any one statement answered with an error (a sale that fails and then
  cannot delete its voucher counts as one).
  One voucher of up to three units and three payments: the sale and two redemptions,
  each of a part. The properties speak of one voucher at a time; a second one
  would only let an expiry work on two. `ValueKept` and `BooksAgree` hold while requests
  come one at a time and no error is passed over that the table in section 3 says breaks
  them, `NothingVanishes` but for its three; the others always.

Two redemptions at a time are both answered ok and pay more than was on the voucher,
and so does a void that races a redemption: the guard is in the update, and an update
that matches no row is no error.

### Push notifications

* `push_faults`: one event for one colleague, by mail or by WhatsApp, two runs of either
  kind, one fault (a run that dies, a read, fan-out or update
  that fails, a message refused, not answered or without an address). Under fairness every row is sent or given up
  (`Settles`); no message goes out twice (`SentOnce`); no processed event is
  without its rows (`NoneMissed`).
* `push_batches`: a batch of two rows, so that one claim grows old while the other row
  is sent, with runs that die: no row is held by two runs (`HeldByOne`).

Two workers suffice, for a claim is contested by two; ages are cut off, so a behaviour
may be of any length. A first sending that no one recorded (the run died, the
update failed) is sent again, for the released row has no attempts and nothing is
looked up; and since `20260622120000_notification_delivery_claim.sql:76` sets `processed_at` in the
claim, an event whose cron broke off is never claimed again, although
`20260613230000_notification_reliability.sql` had moved that behind the fan-out.
`SentOnce` and `NoneMissed` name these cases (`lapsed`, `missed`).

### The register

* `register_books`: two sessions, two transactions (one of an order, one of a payment), two
  closings, two requests at a time, six stamps, one fault anywhere; when the stamps are used
  up no request begins. A session is opened, polled, paid in, closed; the
  second one shows what the first has left behind. What a session records is what
  the service completed (`ClosedIsComplete`, always); no transaction is forgotten
  (`NoneForgotten`), counted twice (`CountedOnce`), and Z numbers have no gaps
  (`ZConsecutive`), each but for what it names.

What they leave out the code does: an order that is signed again after its session
was closed has a `signed_at` that its Z report's window does not contain, and the next
session's Z report counts it again; a poll or a payment between the two updates of a
close backfills a session with the old opening, whose Z report counts everything a
second time; a failed update of the config gives the next report the same
number; a wait that times out lets the next attempt send the same
transactions again; a payment signed while a close counts, or one that is not cash
signed while the register is closed, is in no Z report. And the totals of a Z report
take an order's total for each signed transaction, so an order paid in parts is counted once per part
(`fiskaly-cash-point-closing.ts:155`): amounts are not modelled.

### The paid plan

* `plan_books`: one request at a time with everything that can happen in it, one fault; two
  subscriptions, two payments, two plans, four days, so that a plan is paid for,
  charged, fails, is cancelled, ends and is bought again. What was paid for is there
  (`PaidIsServed`), Mollie charges for what the row says (`BothAgree`), and who owes is
  dunned (`UnpaidIsDunned`).
* `plan_first`: two requests at a time and one fault; three subscriptions and two
  payments, so that a second and third could be created: there is one
  (`OneSubscription`), also after a mandate that could not read the row.

Each of the four says in its formula which faults it survives: only `OneSubscription`
survives `blind`, all but `UnpaidIsDunned` survive `due`, none survives `customer`. No day
passes after `customer` (a bound of `Tick`), for no property speaks of what follows.

`Booked` bounds the plans a checkout is made for to one. `CHECK_DEADLOCK FALSE` in these
two and the register's runs: ids and days run out. What the properties leave out, and
the code does:

* after a cancelled plan has ended, the next first payment finds the ended
  subscription in the row and is refused the claim: the restaurant has paid and gets
  no subscription (`leftover`, `subscription-db.ts:533`), although
  `process-mollie-billing-webhook.ts:218` says it falls through and creates one;
* two calls for the *same* payment both get the claim (`again`); two undos, or one that breaks off
  after Mollie has created the subscription, create two (`recreated`). With two faults there are more ways: a
  crash after the creation, and a list that cannot be read;
* a health check syncs without `preservePastDue` and forgives a failed charge that Mollie
  has not given up on (`forgiven`), and so does a sync that cannot read its stamp (`due`, `subscription-db.ts:376`); the
  update of a mandate clears its stamp and so starts the grace anew;
* a mandate that cannot read the row takes the subscription away from it, while Mollie goes on
  charging (`blind`, `process-mollie-billing-webhook.ts:356`); a checkout that cannot read it makes
  a second customer and a second subscription (`customer`, `checkout.ts:118`);
* the webhook answers 200 when the payment cannot be fetched or the subscription not
  be created, and is not called again;
* with three requests at a time, a stale sync of a subscription that has ended can
  overwrite a claim or a newer subscription, and a third payment creates another. A health check that
  reads a claim is answered 404, and puts the claim back over the id that was written meanwhile.

### What else the outbox model shows

More consequences of the code that are hazards in `PROJECT.json` and not runs of their
own: an entry enqueued while the flush awaits an answer is overwritten by
`items = remaining` (`PosSyncQueue.swift:338`), which is why `NothingLost` is checked without
"midflush"; a time-out and a retry while Nest still works on the first request
apply the event twice (`sync.service.ts:81`), which is why `AppliedAtMostOnce` is checked for one
request at a time; the key of a move names session and
target only, so a session that returns to a table it was moved to before is taken
for a retry (`PosSyncQueue.swift:478`), which is why `AckedIsApplied` is checked without
"return"; Nest may die between applying and
storing the key (`sync.service.ts:67`); after an error other than offline the
loop goes on with later entries of the same session (`PosSyncQueue.swift:335`);
an open that is answered without a session id leaves everything behind it in
the queue for ever (`sync.service.ts:68` and `:83`), which is why `QueueDrains` is checked for one
request at a time and an open till.

### Fairness

`startPeriodicFlush` starts a flush every 20 s for as long as the app lives and
the loop goes on by itself, so the steps of the flush are weakly fair; Nest works
on what it was sent; a closed till is opened again. Faults are not fair: they
happen or not, and their number is bounded.

The delivery cron is started by a timer and time passes, so `CronStart` and `Tick`
are weakly fair, and a run that is under way goes on or dies. Strongly fair are the claims
of events and of rows and the start of a delivery, each within the budget of its run: otherwise
every run could be so slow that its budget is over before it has begun anything,
which is no behaviour of a run that has 90 s. The other models have safety only:
nothing in them is retried by a timer.

## 4. Proofs

### The outbox

`HubSync_proofs` proves, for every set of sessions, tables and requests, every
mix of operations and faults and every bound, that the types are right
(`TypeCorrect`) and that the queue keeps its order (`QueueOrder`). The order is
not inductive by itself: an entry that is enqueued must have a larger number than
all that are queued, kept or being sent, although the three sequences overlap
while a flush runs. `Inv` therefore adds `AllNumbered` (no entry has a number
larger than the number of things asked) and `Shape` (a waiting flush has an entry
in hand, a request that is worked on carries an entry, an answered one has a
status). The lemmas say what the operations on queues do to the order: append,
take the head away, rewrite a session id, concatenate what was kept and
what was not sent.

`HubEvents_proofs` follows an entry from the queue through the flush and the request
to the log of Nest. Its invariant `Trace` says what each place holds: an entry carries
what was asked under its number (`Carries`, `Known`), a request carries an entry of the
flush or of one that has given up (`Paired`), an answer has its key stored (`Answered`).

* `AckedLogged`: what is dropped as synced has its key stored, whatever fails and
  however many requests overlap.
* `MappingStable` and `BookedWhereMeant`: a local session is mapped once, and an event
  names the session it was meant for or what that became. Assumed is that no open is sent
  for a session of the cloud (`"reopen" \notin UserOps`): then every open has one stored
  result.
* `NothingIsLost`: between two flushes the file has everything that is not
  synced (`Held`), if nothing is enqueued during a flush.
* `CarriedOutOnce`: nothing takes effect twice if requests do not overlap and Nest
  does not die, nor fail to look a key up, between the event and its key.

The last part of `HubEvents_proofs` is about all entries together, under the conditions of the
run `hub_promise`, for any number of parties, sessions, tables, entries and faults:
`SyncedIsApplied`, `PartiesSeparate`, and `CarriedOutInOrder`, the safety half of the refinement
of `OutboxPromise` (`Promise!Spec`). `Plain` states the conditions, each of which is needed (with
any single one dropped, TLC finds for four entries and two faults the promise or `AckedIsApplied`
broken): requests follow one another; nothing but time-outs and restarts of the hub happens (a closed till
refuses events, whose keys are stored all the same, and an error that is not offline lets later entries
overtake); nobody pays, sends an open for a session of the cloud or orders without an
open (on a settled session the hub goes on booking, and Nest refuses); and no
party returns to a table it was moved to. The entries that fire a course are covered as well (which courses the hub shows as fired is not modelled, section 5).

None of the three is inductive: that Nest may apply the next event depends on where all parties are by then,
and the hub knows that only for the end of its queue. `Straight` therefore makes both
floors functions of what was asked. `At(l, t, n)` says that party `l` is at table `t` after the
first `n` things asked, without reference to either side: it was placed there by one
of them and none after that moved or released it.

* `Sensible`: each thing asked made sense after those before it (`Valid`), and the floor of
  the hub is `At` of all that was asked.
* `Line`: queue and flush hold the end of what was asked, without a gap; what is before it was acknowledged.
* `Served`: Nest has done a beginning of what was asked, each thing once, and its open sessions
  are `At` of that beginning.
* `Told`: an answer, a stored key, a mapped id and an acknowledgement match what Nest did.

The argument is then short: a request is either the very next thing asked, which `Valid` lets
Nest apply to a session that is where the hub thinks it is, or one that was done, and then
its key is stored: different entries have different keys, and a retry has that of its original
although the session was mapped in between.

The assumptions are those of `HubChannel` and `PosSyncQueue`: local and cloud ids
are disjoint, `None` is no id, and the bounds are natural numbers.

### The bill

`TableBill_proofs` proves, for every set of ids, any number of requests in flight,
every quantity, operation and fault:

* `TypeCorrect`, and `NeverOverpaid`: `paid_quantity` never exceeds the quantity, so
  that its check constraint never refuses a write, voids included. The
  column is written from values read some statements before; the invariant must
  say what they are worth by now. `RequestOK` does: what a request has read and
  what it will add are together at most the quantity of the line, and that stays so
  because no statement changes a quantity or forgets an order (`OrdersStay`,
  `RequestStays`). `PaymentsOK` lets a void rely on the rows it reads.
* `PaidBacked`: without voids a line never shows more than was allocated to it.
  Here the invariant `Backed` compares what a request has read and will add with the
  allocation: before the rows are inserted what it has read is allocated, and after it
  what it has read and what it adds; it stays so because without voids the sum
  of the rows only grows. A void that races with a collect breaks it, for
  the collect then writes back what the void took away; hence the assumption
  `"void" \notin Ops`, which is that of the run `bill_concurrent`.

The assumptions are `NoneIsNoId` (`None` is no id) and `BoundsAreNat`.

`SerialBill_proofs` proves what holds when requests follow one another, for any set of ids
and every quantity. `Serial` (`"concurrent" \notin Allowed`) says that they do; it is needed, for
two collects of one line lose a share (section 3). The
properties of a bill between requests are not inductive: in the middle of a
request the tables disagree, by what is left of it. Two layers say how.

* `SeatInv`: no other request is under way (`Alone`), and the status the request read
  when it began is still the status of its session (`Attended`). That is enough
  for `SettledOnlyLeaves` (`NoWayBack`): `setBill` and `collectCash` name no expected
  status in their updates, so it is the read at the start that must still hold.
* `SerialInv`: the allocation rows are those of the payments that stand (`Books`); what a
  request knows at each statement (`Station`: its payment has no rows yet, what it has read
  and adds is what is allocated, it settles only what is paid); the column equals the rows except on
  the lines the request has still to write or has already taken back (`Behind`, `Balanced`); only
  the payment at hand is without rows (`Rowed`).

`PaidIsTheSum` also assumes `Tidy`: no request breaks off between the statements of
a payment and no error is passed over. The code does not repair the
bill after either, so without it the column and the rows do differ (hazards
at `orders.service.ts:302` and `pos-session-settlement-server.ts:651`).
`PaymentsHaveRows` (a payment stands exactly while it has rows) and the refinement
need the same.

`KeepsPromise` is the refinement of `FloorPromise`. Of the
statements of a request one is the step that the guest sees: the insert of the
session is `Seat`, the update of a move `Change`, the insert of the lines `OrderLine`, the
allocation rows `Pay`, the settling update `Settle`, the closing update `Leave`; of a void the
delete of the rows is `Refund` and the reopening `Return`; all others are stutters.
`Settle` and `Leave` are where the invariant is used: the abstract floor settles a party
that owes nothing, the code one whose column says so, of the orders it selected before.

### Gift vouchers

`GiftVoucher_proofs` proves for any number of vouchers and concurrent requests that
the types are right (`TypeCorrect`), that a voucher is active exactly while there is
something on it (`ActiveIsFilled`), that no balance rises (`BalanceNeverRises`) and
that an ended voucher stays ended (`EndedStaysEnded`). `Inv` has the types,
`ActiveWhileFilled`, and `RequestOK` for every request: which statements belong to which
operation, and that a redemption that is about to write read at least what it
takes. `VoucherStep` says what a step may do to a voucher; `NextOK` proves it with the
invariant, one lemma per action, and the two action properties follow.

`NothingIsLost` (`NothingVanishes`) holds however requests interleave and break off.
The code checks a balance only by the conditions of its updates, so what makes the
property true is the order: the payment is inserted before the balance is
reduced, the income is booked before the voucher expires, the expense before it is void.
`BackedInv` says what that order is worth at each statement: every redemption in
flight has a payment of its own (`Hands`), so the cents of payments that no request still holds
(`Used`) cover what redemptions took off; and a request that is about
to expire or void has booked at least what is left on the voucher now (`Reads`), because a balance
never rises. The three errors it leaves out are in `hist`.

`ValueIsKept` holds while `hist` has nothing but errors passed over in the cash book and the
event log (`BookSlips`), `BooksAlwaysAgree` while it has nothing but those after which
only the value is wrong (`ValueSlips`); so in both requests come one at a time and none breaks
off, and what the code acts on may fail as often as it likes. One invariant serves both,
because either kind leaves the other's equations alone. `SerialInv` is a balance sheet that is right at every
statement: for each voucher it says what was sold, what the event log and what the cash
book must show (`Tale`, `Story`), each corrected by what the request at hand
has written there and not on the voucher, or on the voucher and not there (`InBooked`,
`InJournal`, `InCash`); `Local` says what that request still knows to be true. No
assumption on the operations or faults is needed, only `NoneIsNoId` and `BoundsAreNat`.

### Push notifications

`PushDelivery_proofs` proves for any number of events, targets and runs and all times:

* `TypeCorrect`, with the attempts within their maximum, for a row is claimed
  only while it may be tried again.
* `ClaimsExclusive`: no two runs hold a row. That is a matter of time: the invariant
  relates the age of each claim to the time its run has used, `held` is at most what has
  passed since the claim, and a run starts no delivery after its budget. The assumption
  `RunsEnd` (`Budget + OneMax <= StaleRow`) is what the code's constants provide:
  90 s, one delivery, 15 minutes.
* `NoneIsMissed`: for every event that a run has in hand there is a reason why it is not
  lost: its rows are there, or it is still claimable, or the cron is on its way to
  it (`Handled`, `Ahead`, `SafeAt`).
* `SentWentOut`: what is recorded as sent did go out.
* `GoesOutOnce` (`SentOnce`): no message goes out twice, unless its first sending was not recorded
  (`lapsed`). A message that timed out may be out, and is sent again when the chat does not show
  it; so the invariant `Once` must know that a look comes late enough. It says that every
  message that is out is recorded, or was tried before, or is in the hands of the run that sent it
  (`SentRow`); and that a row which is out and was claimed again is at least as old in the
  chat history as the claim (`Late`). `decideWhatsappRetry` takes silence for an answer
  only when its claim is older than `Grace`, so by then the history would show the message.

### The register

`RegisterSession_proofs` proves for any number of sessions, transactions, closings and
requests `TypeCorrect`, which includes that one session is open at most, and
`RecordedIsComplete`: its invariant says what a close holds at each statement (the
closing it waits for is its own, has its number and window, and only transactions
signed within it, but for those signed again). `NoneIsForgotten` adds `Kept`: a transaction
signed before the stamp of a close that has selected is among those it selected, or in an earlier
report; and `Later`: what a session's report has counted is never stored with a stamp from before
its opening, so that a second close of the session selects it too.

`IsCountedOnce` and `NumbersConsecutive` build on three layers, each for the behaviours
its property speaks of. `AloneInv`: without an overlap there is one request, and the session it works
on is still open. `NumberedInv`: then the Z numbers of the closed sessions are 1 to the
counter, or the counter plus the one session whose config is not yet updated (`Uncounted`), and a
close that has read the counter holds the next one. `FreshInv`: everything that a living
report counts was signed again or before the opening stamp that the next report starts from, wherever that stamp is
at the moment: in the config, in the session, in a request (`SinceHeld`). A window that starts
there cannot count a transaction again that was signed once.

### The paid plan

`PlanBilling_proofs` proves for any number of subscriptions, payments and requests
`TypeCorrect`, and `FirstClaimIsExclusive`: as long as no subscription ends, a
restaurant has one. `NothingEnds` says so in terms of the constants: nobody cancels,
no health check runs, no grace runs out within the days of a behaviour, Mollie calls for a
payment once at a time and lists what it has, and no checkout makes another customer; requests may meet, break off and fail at will. The
invariant `Single` says that who creates has the claim and there is nothing
yet (`Claims`); that a request which has read the row and will write it back does not
carry the claim of one that waits (`Forgets`); that no two requests carry one call (`Once`);
and that once a subscription exists the row is never empty (`Named`).

The other four theorems assume nothing of the constants: subscriptions end, days pass, the
health check runs. What they leave out is named in the history, as in the properties
themselves: requests follow one another, for with three that meet, or two and two faults,
`OneSubscription` does not hold (above); and for the first three no second checkout is paid
while a plan runs (`twice`), for it may change the row's plan. No run alone says what a step of one of these
properties rests on, for each compares the row with Mollie only when both are at rest, and a
cycle of a plan takes dozens of statements in between. The invariants say
what a request owes at each of them, in three layers:

* `Agreement`, for `MollieAndTheRowAgree` (`BothAgree`): outside the four statements of a sync the row
  agrees with every open subscription (`Agrees`); within a sync the request carries the
  one that is open, as Mollie has it; a request that creates, ends or writes a cancellation
  knows that nothing is open (`Ending`), one that patches or cancels knows that nothing
  else is (`Aiming`), and the update of a mandate holds entitlements that
  still agree (`Restoring`). While a first payment waits to be worked on, nothing is open.
* `Dunning`, for `FailedChargesAreDunned` (`UnpaidIsDunned`), on top of `Agreement`: what is owed is past due in
  the row, or in the call that reports it, or in what the request
  is about to write (`Presses`).
* `Serving`, for `PaidPlansAreServed` (`PaidIsServed`), on top of `Agreement`: until the paid period is over
  the row, or the call or request that brings it there (`Covers`), has the plan
  with a subscription that goes on or with its paid end; no request that takes a plan
  away is under way then (`Unpaid`); and the row holds a claim only while its holder creates (`Unclaimed`).

`Lasting`, for `RetriesFindTheFirst` (`OneSubscription`), is weaker and holds in more
behaviours, those of `Recoverable`: any request may vanish at any point, rows may not be read or written and a
mandate may take the subscription out of the row, so the row may say anything, and checkouts
may be paid twice; but Mollie lists what it has, under one customer. What it keeps is that one subscription is open (`OneOpen`),
that who creates for a payment has seen Mollie list none (`Fresh`), and that no subscription ends
while the call of its charge waits (`NoRenewals`).
Only an undo trusts the row instead of asking Mollie. So `Recoverable` takes undos
only where no row was left behind, and `Ties`, the part of `Lasting` under `Unbroken`,
says why that is enough there. TLC has checked each of these invariants on small
instances before it was proved.

### Only model-checked

* Liveness (`QueueDrains`, `Settles`, and the liveness part of the outbox's `PromiseKept`), which
  is out of reach of the prover; its safety part, and `PromiseKept` of the bill, are proved.
* `OneSubscription` where subscriptions end and two requests meet: `plan_first` checks it with one
  fault. With three requests or two faults it fails, so no invariant over any number of requests implies it.

## 5. Not modelled, and the plan

Not modelled, by component:

* **Hub outbox**: the fallback to the web POS (`processViaNext`), reservation and
  register entries of the queue, the direct cloud call that `createOrder` and
  `collectCash` make before they enqueue, the courses a table shows as fired (which `remapSessionId`
  leaves under the old id). The floor changes and the entry is enqueued in one step; in the code the
  request from a handheld changes the floor on its own thread and enqueues in a task on the main actor.
* **Hub floor**: tickets, the print queue, pairing and the PIN lock, the HTTP server.
* **Nest floor**: Mollie payments, the even split, fiscal signing. `release` closes a session
  whatever is unpaid, as its comment says the client sees to that.
* **Web POS**: custom methods and Mollie payments, the lines of a voucher payment,
  receipts and stock in the pipeline after a payment, moving lines (also while they are
  being paid), cancelled orders, the kitchen display, formal invoices.
* **Pure algorithms** of `packages/pos-domain`, cents that are rounded part by part among
  them; **guest ordering**; **reservations**. They are functions or single statements with a
  check, and their hazards are of numbers and intervals, not of order.
* **Notifications** other than pushes to staff; **billing** as listed above; the user
  interface keeps no state the services do not check again; deployment scripts, exports
  and layout are out of scope. By lines these are nearly all of the repository: what is
  modelled is the part in which several actors write the same state.

The order in which the model will grow:

1. `TableBill` with `movePosOrderLines`, voucher payments (whose rows are deleted
   with the payment when the redemption is refused) and Nest's Mollie payment.
2. Guest messages and reservations: outboxes with claims of their own, as `PushDelivery`.
3. `HubFloor`: tickets, fired courses over `remapSessionId`, the print queue at its
   limit of 80; composed with `PosSyncQueue`, with the direct call before an enqueue.
4. The algorithms: cents of the parts of a line, equal shares, VAT buckets, as recursive
   functions against reference definitions.

Theorems still to prove about what exists: `OneSubscription` where subscriptions end
and two requests at most meet, with one fault.
