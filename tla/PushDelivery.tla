---------------------------- MODULE PushDelivery ----------------------------
(***************************************************************************)
(* The runs that deliver push notifications (notification-deliver-cron.ts):*)
(* runNotificationDeliverCron, every few minutes and possibly several at a *)
(* time, and runNotificationDeliverForEvent, right after an event.  Both   *)
(* make the rows of the events they claim, then claim rows and send them.  *)
(* Between any two steps of a run others go on and time passes.            *)
(***************************************************************************)
EXTENDS PushTables

At(w, pc) == run[w].pc = pc
Cron(w) == run[w].kind = "cron"
Goto(w, r) == run' = [run EXCEPT ![w] = r]
End(w) == Goto(w, Idle)
Fault(kind) == kind \in Allowed /\ faults < MaxFaults /\ faults' = faults + 1
InTime(w) == run[w].ran < (IF Cron(w) THEN Budget ELSE NowBudget)

messages == <<copies, shown, lapsed>>

\* An event is written, by any part of the application, for some colleagues.
Emit(e) ==
    /\ event[e].st = "none"
    /\ \E to \in Audiences : event' = [event EXCEPT ![e].st = "new", ![e].to = to]
    /\ UNCHANGED <<row, messages, run, missed, faults>>

-----------------------------------------------------------------------------
(* From events to rows *)

CronStart(w) ==
    /\ At(w, "idle")
    /\ row' = ReleasedRows
    /\ event' = StaleUnlocked
    /\ Goto(w, [Idle EXCEPT !.kind = "cron", !.pc = "events"])
    /\ UNCHANGED <<messages, missed, faults>>

ClaimEvents(w) ==
    /\ At(w, "events")
    /\ LET es == {e \in Events : InTime(w) /\ Claimable(e)}
       IN  /\ event' = Taken(es)
           /\ Goto(w, [run[w] EXCEPT !.todo = es, !.one = 0,
                                     !.pc = IF es = {} THEN "claim" ELSE "fanout"])
    /\ UNCHANGED <<row, messages, missed, faults>>

NowStart(w, e) ==
    /\ At(w, "idle")
    /\ Claimable(e) /\ event[e].lock = Free
    /\ event' = Locked({e})
    /\ Goto(w, [Idle EXCEPT !.kind = "now", !.of = e, !.pc = "fanout", !.todo = {e}])
    /\ UNCHANGED <<row, messages, missed, faults>>

\* upsert of the rows that are not there yet (ignoreDuplicates)
Upserted(e) ==
    [r \in Rows |-> IF r \in RowsOf(e) /\ row[r].st = "none"
                    THEN [row[r] EXCEPT !.st = "pending"] ELSE row[r]]

\* Mutant: an event counts as done whatever came of it.
FanOutAnyway(w) ==
    /\ At(w, "fanout")
    /\ \E e \in run[w].todo :
          /\ \/ row' = Upserted(e) /\ UNCHANGED faults
             \/ Fault("upsertfails") /\ UNCHANGED row
          /\ Goto(w, [run[w] EXCEPT !.cur = e, !.pc = "finish"])
    /\ UNCHANGED <<event, messages, missed>>

\* fanOutEvent.  A colleague or preferences that cannot be read are none.
FanOut(w) ==
    /\ At(w, "fanout")
    /\ \E e \in run[w].todo :
          \/ /\ row' = Upserted(e)
             /\ Goto(w, [run[w] EXCEPT !.cur = e, !.pc = "finish"])
             /\ UNCHANGED <<missed, faults>>
          \/ /\ Fault("readfails")
             /\ Goto(w, [run[w] EXCEPT !.cur = e, !.pc = "finish"])
             /\ missed' = missed \cup {e}
             /\ UNCHANGED row
          \/ /\ Fault("upsertfails")
             /\ Goto(w, [run[w] EXCEPT !.cur = e, !.pc = "unlock"])
             /\ missed' = IF Cron(w) THEN missed \cup {e} ELSE missed
             /\ UNCHANGED row
    /\ UNCHANGED <<event, messages>>

\* The next event, or on to the rows; only the run of one event starts its
\* clock here.
NextEvent(w) ==
    LET todo == run[w].todo \ {run[w].cur}
    IN  [run[w] EXCEPT !.todo = todo, !.cur = None, !.pc = IF todo = {} THEN "claim" ELSE "fanout",
                       !.ran = IF Cron(w) THEN @ ELSE 0]

\* An event that cannot be completed, as all that the cron has claimed, is
\* counted as an error and its lock released.
Finish(w) ==
    /\ At(w, "finish")
    /\ IF Completable(run[w].cur)
       THEN /\ event' = [event EXCEPT ![run[w].cur].st = "processed", ![run[w].cur].lock = Free]
            /\ Goto(w, NextEvent(w))
       ELSE /\ Goto(w, [run[w] EXCEPT !.pc = "unlock"])
            /\ UNCHANGED event
    /\ UNCHANGED <<row, messages, missed, faults>>

Unlock(w) ==
    /\ At(w, "unlock")
    /\ event' = Unlocked(run[w].cur)
    /\ Goto(w, IF Cron(w) THEN NextEvent(w) ELSE Idle)
    /\ UNCHANGED <<row, messages, missed, faults>>

-----------------------------------------------------------------------------
(* From rows to messages *)

\* Mutant: what was tried before is not taken up again.
DueForFirst(w) ==
    {r \in Rows : InTime(w) /\ Due(r) /\ row[r].attempts = 0
                  /\ (Cron(w) \/ EventOf(r) = run[w].of)}

\* claim_notification_deliveries, or ..._for_event for the run of an event
DueFor(w) == {r \in Rows : InTime(w) /\ Due(r) /\ (Cron(w) \/ EventOf(r) = run[w].of)}

ClaimNone(w) ==
    /\ At(w, "claim")
    /\ DueFor(w) = {}
    /\ End(w)
    /\ UNCHANGED <<event, row, messages, missed, faults>>

Claim(w) ==
    /\ At(w, "claim")
    /\ \E rs \in SUBSET DueFor(w) :
          /\ rs # {}
          /\ Cardinality(rs) = Min({BatchSize, Cardinality(DueFor(w))})
          /\ row' = ClaimedRows(rs)
          /\ Goto(w, [run[w] EXCEPT
                !.pc = "batch", !.batch = rs, !.full = Cardinality(rs) = BatchSize,
                !.seen = [r \in Rows |-> IF r \in rs THEN row[r].attempts ELSE 0],
                !.from = run[w].ran, !.one = 0])
    /\ UNCHANGED <<event, messages, missed, faults>>

\* Out of time, or through: what is left of a batch stays claimed.
BatchEnd(w) ==
    /\ At(w, "batch")
    /\ run[w].batch = {} \/ ~ InTime(w)
    /\ IF run[w].full THEN Goto(w, [run[w] EXCEPT !.pc = "claim", !.batch = {}]) ELSE End(w)
    /\ UNCHANGED <<event, row, messages, missed, faults>>

\* deliverOne: without the event, an address or a number a row is given up.  A
\* message that may be out already is looked for in the chat before.
Start(w, r) ==
    /\ At(w, "batch")
    /\ r \in run[w].batch /\ InTime(w)
    /\ LET mine == [run[w] EXCEPT !.r = r, !.batch = @ \ {r}, !.one = 0]
       IN  \/ /\ "unaddressed" \in Allowed
              /\ Goto(w, [mine EXCEPT !.out = "failed", !.pc = "mark"])
           \/ Goto(w, [mine EXCEPT !.pc = IF ByMail(r) \/ run[w].seen[r] = 0 THEN "send" ELSE "prior"])
    /\ UNCHANGED <<event, row, messages, missed, faults>>

\* What the chat history can say of a row: a message that went out shows up
\* within the grace period, and the history may be out of reach.
Evidence(r) ==
    (IF copies[r] > 0 THEN {"confirmed"} ELSE {"absent"})
    \cup (IF copies[r] > 0 /\ shown[r] < Grace THEN {"absent"} ELSE {})
    \cup ({"unknown"} \cap Allowed)

\* Mutant: no answer is taken for no message.
DecideUnproven(w, evidence) ==
    IF row[run[w].r].age > Window THEN "give_up"
    ELSE IF run[w].ran - run[w].from < Grace THEN "wait" ELSE "retry_now"

\* decideWhatsappRetry, for a message that is not confirmed
Decide(w, evidence) ==
    LET claimed == run[w].ran - run[w].from
    IN  IF row[run[w].r].age > Window THEN "give_up"
        ELSE IF evidence = "absent" THEN (IF claimed < Grace THEN "wait" ELSE "retry_now")
        ELSE IF claimed < Hold THEN "wait" ELSE "give_up"

Mark(w, out) == Goto(w, [run[w] EXCEPT !.out = out, !.pc = "mark"])

Prior(w) ==
    /\ At(w, "prior")
    /\ \E ev \in Evidence(run[w].r) :
          LET decision == Decide(w, ev)
          IN  IF ev = "confirmed" THEN Mark(w, "sent")
              ELSE IF decision = "wait" THEN Mark(w, "defer")
              ELSE IF decision = "give_up" THEN Mark(w, "failed")
              ELSE Goto(w, [run[w] EXCEPT !.pc = "send"])
    /\ UNCHANGED <<event, row, messages, missed, faults>>

\* The message goes out, or not.
Out(w, goes) ==
    LET r == run[w].r
    IN  IF goes
        THEN /\ copies' = [copies EXCEPT ![r] = IF @ < 2 THEN @ + 1 ELSE @]
             /\ shown' = [shown EXCEPT ![r] = 0]
        ELSE UNCHANGED <<copies, shown>>

\* Of a mail that was not answered it cannot be told whether it went out.
Send(w) ==
    /\ At(w, "send")
    /\ LET r == run[w].r
       IN  \/ /\ Out(w, TRUE) /\ Mark(w, "sent")
              /\ UNCHANGED lapsed
           \/ /\ "error" \in Allowed
              /\ \E goes \in BOOLEAN :
                    /\ Out(w, goes)
                    /\ lapsed' = IF goes /\ ByMail(r) THEN lapsed \cup {r} ELSE lapsed
              /\ IF ByMail(r) THEN Mark(w, "retry") ELSE Goto(w, [run[w] EXCEPT !.pc = "errored"])
           \/ /\ "timeout" \in Allowed /\ ~ ByMail(r)
              /\ \E goes \in BOOLEAN : Out(w, goes)
              /\ Goto(w, [run[w] EXCEPT !.pc = "timedout"])
              /\ UNCHANGED lapsed
    /\ UNCHANGED <<event, row, missed, faults>>

\* After a WhatsApp message failed the history is asked before the row is put off.
Failure(w) ==
    /\ At(w, "errored") \/ At(w, "timedout")
    /\ \E ev \in Evidence(run[w].r) :
          LET unclear == At(w, "timedout") \/ ev # "absent"
          IN  IF ev = "confirmed" THEN Mark(w, "sent")
              ELSE IF unclear /\ Decide(w, ev) = "wait" THEN Mark(w, "late")
              ELSE IF unclear /\ Decide(w, ev) = "give_up" THEN Mark(w, "failed")
              ELSE Mark(w, IF At(w, "timedout") THEN "late" ELSE "retry")
    /\ UNCHANGED <<event, row, messages, missed, faults>>

\* Mutant: attempts are not limited.
OutcomeUnlimited(w) ==
    LET r == run[w].r
        attempts == run[w].seen[r] + 1
    IN  IF run[w].out \in {"defer", "retry", "late"}
        THEN [row[r] EXCEPT !.st = "pending", !.wait = Grace, !.held = 0,
                            !.attempts = IF run[w].out = "defer" THEN @ ELSE attempts]
        ELSE [row[r] EXCEPT !.st = run[w].out, !.attempts = attempts, !.wait = 0, !.age = 0,
                            !.held = 0]

\* markDeliveryOutcome: only "defer" does not count as an attempt.
Outcome(w) ==
    LET r == run[w].r
        attempts == run[w].seen[r] + 1
        delay == IF run[w].out = "late" /\ Grace > Backoff[attempts] THEN Grace
                 ELSE Backoff[attempts]
    IN  IF run[w].out = "defer"
        THEN [row[r] EXCEPT !.st = "pending", !.wait = Grace, !.held = 0]
        ELSE IF run[w].out \in {"retry", "late"} /\ attempts < MaxAttempts
        THEN [row[r] EXCEPT !.st = "pending", !.attempts = attempts, !.wait = delay, !.held = 0]
        ELSE [row[r] EXCEPT !.st = IF run[w].out = "sent" THEN "sent" ELSE "failed",
                            !.attempts = attempts, !.wait = 0, !.age = 0, !.held = 0]

\* A first sending, and every mail, is not looked for again once its record is lost.
Unrecorded(w) ==
    LET r == run[w].r
    IN  IF r \in Rows /\ run[w].pc \in {"errored", "timedout", "mark"} /\ copies[r] > 0
           /\ (ByMail(r) \/ run[w].seen[r] = 0)
        THEN lapsed \cup {r} ELSE lapsed

Record(w) ==
    /\ At(w, "mark")
    /\ \/ /\ row' = IF row[run[w].r].st = "processing" THEN [row EXCEPT ![run[w].r] = Outcome(w)]
                    ELSE row
          /\ UNCHANGED <<lapsed, faults>>
       \/ /\ Fault("markfails")
          /\ lapsed' = Unrecorded(w)
          /\ UNCHANGED row
    /\ Goto(w, [run[w] EXCEPT !.pc = "batch", !.r = None, !.out = "none"])
    /\ UNCHANGED <<event, copies, shown, missed>>

\* The process of a run ends, at any point.
Die(w) ==
    /\ Busy(w)
    /\ Fault("die")
    /\ End(w)
    /\ lapsed' = Unrecorded(w)
    /\ missed' = IF Cron(w) /\ At(w, "fanout") THEN missed \cup run[w].todo
                 ELSE IF Cron(w) THEN missed \cup (run[w].todo \ {run[w].cur}) ELSE missed
    /\ UNCHANGED <<event, row, copies, shown>>

-----------------------------------------------------------------------------
Working(w) ==
    \/ ClaimEvents(w) \/ FanOut(w) \/ Finish(w) \/ Unlock(w)
    \/ ClaimNone(w) \/ Claim(w) \/ BatchEnd(w) \/ (\E r \in Rows : Start(w, r))
    \/ Prior(w) \/ Send(w) \/ Failure(w) \/ Record(w)

Next ==
    \/ Tick
    \/ \E e \in Events : Emit(e) \/ \E w \in Workers : NowStart(w, e)
    \/ \E w \in Workers : CronStart(w) \/ Working(w) \/ Die(w)

\* The timer starts runs, and runs go on.  A run is not always so slow that its
\* time is up before it has claimed, or begun with, a row that is due.
Fairness ==
    /\ WF_vars(Tick)
    /\ WF_vars(\E w \in Workers : CronStart(w))
    /\ \A w \in Workers : WF_vars(Working(w))
    /\ SF_vars(\E w \in Workers : InTime(w) /\ ClaimEvents(w))
    /\ SF_vars(\E w \in Workers : Claim(w))
    /\ SF_vars(\E w \in Workers, r \in Rows : Start(w, r))

Spec == Init /\ [][Next]_vars
FairSpec == Spec /\ Fairness

-----------------------------------------------------------------------------
(* Properties *)

\* The rows a run has claimed and is not through with.
Mine(w) == run[w].batch \cup ({run[w].r} \ {None})

\* What a run works on is claimed, and by no other run: the release of stale
\* claims never takes a row from a run that still goes on
\* (release_stale_notification_deliveries, the deadlines of the runs).
HeldByOne ==
    \A w \in Workers :
        /\ \A r \in Mine(w) : row[r].st = "processing"
        /\ \A v \in Workers \ {w} : Mine(v) \cap Mine(w) = {}

\* A message goes out once, whatever is not answered, answered late or cannot
\* be looked up: unless a run broke off in, or could not record, the first
\* sending, or it was a mail, which cannot be looked up at all.
SentOnce == \A r \in Rows \ lapsed : copies[r] <= 1

\* What is recorded as sent did go out.
SentIsSent == \A r \in Rows : row[r].st = "sent" => copies[r] > 0

\* An event that counts as processed has its rows, as soon as no run works on
\* it: a run of one event that breaks off or fails leaves it to the cron.
NoneMissed ==
    \A e \in Events \ missed :
        event[e].st = "processed" /\ (\A w \in Workers : e \notin run[w].todo)
            => \A r \in RowsOf(e) : row[r].st # "none"

\* Every event ends in rows that are sent or given up, across runs that break
\* off, claims left behind, and a chat history that is out of reach.
Settles ==
    \A e \in Events :
        event[e].st # "none" ~> e \in missed \/ \A r \in RowsOf(e) : row[r].st \in Final
=============================================================================
