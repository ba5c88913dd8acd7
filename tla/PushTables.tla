----------------------------- MODULE PushTables -----------------------------
(***************************************************************************)
(* The tables of the push notifications and the functions the database     *)
(* has for them: notification_events, from which rows of                   *)
(* notification_deliveries are made, one for each colleague and channel,   *)
(* that workers claim, work off and put back.  Of each function it is the  *)
(* last migration that counts.                                             *)
(*                                                                         *)
(* Time is kept as ages and waits, in ticks, that stop at the largest      *)
(* value anything is compared with, and of rows that are still open.       *)
(***************************************************************************)
EXTENDS Integers, FiniteSetsExt

CONSTANTS
    Events,
    Targets,    \* a colleague and a channel he wants pushes on
    Audiences,  \* the sets of targets an event can be for
    Mail,       \* the targets whose channel is e-mail; the others are WhatsApp
    Workers,    \* runs that can be under way at a time
    None,
    MaxAttempts, BatchSize,
    Grace, Backoff, Hold, Window, \* WhatsApp and retries: what has to pass before ...
    StaleRow, StaleLock,          \* claims and locks are released after
    Budget, NowBudget, \* a run of the cron, of one event, starts no delivery after
    OneMax,     \* one delivery, or the fan-out of a run, takes at most
    Allowed,    \* the behaviours of this instance
    MaxFaults   \* bound: the number of faults

Rows == Events \X Targets
EventOf(r) == r[1]
ByMail(r) == r[2] \in Mail

ASSUME AudiencesOfTargets == Audiences \subseteq SUBSET Targets
ASSUME NoneIsNoId == None \notin Events \cup Rows
ASSUME TimesAreNat ==
    /\ {Grace, Hold, Window, StaleRow, StaleLock, Budget, NowBudget, OneMax, MaxFaults} \subseteq Nat
    /\ MaxAttempts \in Nat \ {0} /\ BatchSize \in Nat \ {0}
    /\ Backoff \in [1 .. MaxAttempts -> Nat]
\* A worker is done with what it claimed before the claim is stale: it starts no
\* delivery after its budget (90 s), and no delivery takes the 13 minutes left.
ASSUME RunsEnd == NowBudget <= Budget /\ Budget + OneMax <= StaleRow

VARIABLES
    event,  \* notification_events: is it processed, how long is it locked, whom is it for
    row,    \* notification_deliveries
    copies, \* how often the message of a row went out (2: or more often)
    shown,  \* how long ago the last copy went out: the chat history may lag
    run,    \* the runs under way
    lapsed, \* history: rows whose first sending was not recorded, or not answered
    missed, \* history: events claimed by a run that then made no rows of them
    faults

RowsOf(e) == {e} \X event[e].to

vars == <<event, row, copies, shown, run, lapsed, missed, faults>>

Final == {"sent", "failed"}
Free == -1
Idle == [kind |-> "none", of |-> None, pc |-> "idle", todo |-> {}, cur |-> None, batch |-> {}, full |-> FALSE,
         r |-> None, seen |-> [r \in Rows |-> 0], out |-> "none", from |-> 0, ran |-> 0, one |-> 0]

Pcs == {"idle", "events", "fanout", "finish", "unlock", "claim", "batch", "prior", "send",
        "errored", "timedout", "mark"}
Outcomes == {"none", "sent", "failed", "retry", "late", "defer"}
Run == [kind: {"none", "cron", "now"}, of: Events \cup {None}, pc: Pcs, todo: SUBSET Events, cur: Events \cup {None},
        batch: SUBSET Rows, full: BOOLEAN, r: Rows \cup {None}, seen: [Rows -> 0 .. MaxAttempts],
        out: Outcomes, from: Nat, ran: Nat, one: Nat]

TypeOK ==
    /\ event \in [Events -> [st: {"none", "new", "processed"}, lock: Nat \cup {Free},
                           to: SUBSET Targets]]
    /\ row \in [Rows -> [st: {"none", "pending", "processing"} \cup Final, attempts: 0 .. MaxAttempts,
                         wait: Nat, age: Nat, held: Nat]]
    /\ copies \in [Rows -> 0 .. 2]
    /\ shown \in [Rows -> Nat]
    /\ run \in [Workers -> Run]
    /\ lapsed \subseteq Rows /\ missed \subseteq Events
    /\ faults \in 0 .. MaxFaults

Init ==
    /\ event = [e \in Events |-> [st |-> "none", lock |-> Free, to |-> {}]]
    /\ row = [r \in Rows |-> [st |-> "none", attempts |-> 0, wait |-> 0, age |-> 0, held |-> 0]]
    /\ copies = [r \in Rows |-> 0]
    /\ shown = [r \in Rows |-> 0]
    /\ run = [w \in Workers |-> Idle]
    /\ lapsed = {} /\ missed = {}
    /\ faults = 0

-----------------------------------------------------------------------------
(* Time *)

Older(age, cap) == IF age < cap THEN age + 1 ELSE age
Busy(w) == run[w].pc # "idle"

\* What a tick does to a row: it becomes due, too old to try, stale.
Aged(r) ==
    IF row[r].st \notin {"pending", "processing"} THEN row[r]
    ELSE [row[r] EXCEPT !.wait = IF @ > 0 THEN @ - 1 ELSE 0, !.age = Older(@, Window + 1),
                        !.held = IF row[r].st = "processing" THEN Older(@, StaleRow + 1) ELSE 0]

Tick ==
    /\ \A w \in Workers : Busy(w) => run[w].one < OneMax
    /\ event' = [e \in Events |-> [event[e] EXCEPT
                    !.lock = IF @ = Free THEN @ ELSE Older(@, StaleLock + 1)]]
    /\ row' = [r \in Rows |-> Aged(r)]
    /\ shown' = [r \in Rows |-> IF copies[r] = 0 \/ row[r].st \in Final THEN 0
                                ELSE Older(shown[r], Grace)]
    /\ run' = [w \in Workers |-> IF Busy(w) THEN [run[w] EXCEPT !.ran = @ + 1, !.one = @ + 1]
                                 ELSE run[w]]
    /\ UNCHANGED <<copies, lapsed, missed, faults>>

-----------------------------------------------------------------------------
(* Functions on events *)

Claimable(e) == event[e].st = "new"

\* The claim of an earlier migration: locked, and processed when that is done.
Locked(es) ==
    [e \in Events |-> IF e \in es THEN [event[e] EXCEPT !.lock = 0] ELSE event[e]]

\* claim_unprocessed_notification_events: the last migration sets processed_at
\* again, and does not look at the lock (which plays no part any more).
Taken(es) ==
    [e \in Events |-> IF e \in es THEN [event[e] EXCEPT !.st = "processed", !.lock = Free]
                     ELSE event[e]]

\* complete_notification_event_processing
Completable(e) == event[e].st = "new" /\ event[e].lock # Free

\* release_notification_event_lock
Unlocked(e) == IF event[e].st = "new" THEN [event EXCEPT ![e].lock = Free] ELSE event

\* release_stale_notification_event_locks
StaleUnlocked ==
    [e \in Events |-> IF event[e].st = "new" /\ event[e].lock > StaleLock
                      THEN [event[e] EXCEPT !.lock = Free] ELSE event[e]]

-----------------------------------------------------------------------------
(* Functions on deliveries *)

Due(r) == row[r].st = "pending" /\ row[r].wait = 0

\* claim_notification_deliveries(_for_event), atomic by "for update skip locked"
ClaimedRows(rs) ==
    [r \in Rows |-> IF r \in rs THEN [row[r] EXCEPT !.st = "processing", !.held = 0] ELSE row[r]]

\* Mutant: a claim is as old as its row, as two migrations had it.
StaleByRow(r) == row[r].st = "processing" /\ row[r].age > StaleRow

Stale(r) == row[r].st = "processing" /\ row[r].held > StaleRow

\* release_stale_notification_deliveries: attempts stay what they were.
ReleasedRows ==
    [r \in Rows |-> IF Stale(r) THEN [row[r] EXCEPT !.st = "pending", !.held = 0] ELSE row[r]]
=============================================================================
