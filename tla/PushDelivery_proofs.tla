------------------------ MODULE PushDelivery_proofs -------------------------
(***************************************************************************)
(* Proofs about PushDelivery, for any events, targets, runs and times that *)
(* keep the assumptions of PushTables: the types are right, the rows a run *)
(* has claimed stay its own, what is recorded as sent went out, no         *)
(* processed event is without rows unless a run of the cron broke off, and *)
(* a message goes out once unless its first sending was not recorded.      *)
(***************************************************************************)
EXTENDS PushDelivery, TLAPS

Delivering == {"prior", "send", "errored", "timedout", "mark"}

EventRecord == [st: {"none", "new", "processed"}, lock: Nat \cup {Free}, to: SUBSET Targets]
RowRecord == [st: {"none", "pending", "processing"} \cup Final, attempts: 0 .. MaxAttempts,
              wait: Nat, age: Nat, held: Nat]

\* A row that is still open can be tried again.
Open(x) == x.st \notin Final => x.attempts < MaxAttempts

\* What a run holds where it is.
Sane(x) ==
    /\ x.pc \in Delivering => x.r \in Rows /\ x.r \notin x.batch /\ x.seen[x.r] < MaxAttempts
    /\ x.pc \notin Delivering => x.r = None
    /\ x.pc \notin Delivering \cup {"batch"} => x.batch = {}
    /\ x.pc \in {"finish", "unlock"} => x.cur \in x.todo
    /\ \A r \in x.batch : x.seen[r] < MaxAttempts

EventsOK == event \in [Events -> EventRecord]
RowsOK == row \in [Rows -> RowRecord] /\ \A r \in Rows : Open(row[r])
RunsOK == run \in [Workers -> Run] /\ \A w \in Workers : Sane(run[w])
MessagesOK == copies \in [Rows -> 0 .. 2] /\ shown \in [Rows -> Nat] /\ lapsed \subseteq Rows
RestOK == missed \subseteq Events /\ faults \in 0 .. MaxFaults

Types == EventsOK /\ RowsOK /\ RunsOK /\ MessagesOK /\ RestOK

\* A run has held its rows no longer than it runs, and it began with none of
\* them after its time was up.
Timely(w) ==
    /\ \A r \in Mine(w) : row[r].st = "processing" /\ row[r].held <= run[w].ran
    /\ run[w].pc \in Delivering \cup {"batch"} =>
           run[w].one <= OneMax /\ run[w].ran < Budget + run[w].one

Apart == \A v, w \in Workers : v # w => Mine(v) \cap Mine(w) = {}
Claims == Apart /\ \A w \in Workers : Timely(w)

\* A run that is about to record a row as sent has seen it go out.
Told == \A w \in Workers : run[w].pc = "mark" /\ run[w].out = "sent" => copies[run[w].r] > 0

Delivered == Told /\ SentIsSent

-----------------------------------------------------------------------------
(* Types *)

LEMMA TypesAreTypes == Types => TypeOK
BY DEF Types, TypeOK, EventsOK, RowsOK, RunsOK, MessagesOK, RestOK, EventRecord, RowRecord

LEMMA Numbers ==
    /\ Grace \in Nat /\ Hold \in Nat /\ Window \in Nat /\ StaleRow \in Nat /\ StaleLock \in Nat
    /\ Budget \in Nat /\ NowBudget \in Nat /\ OneMax \in Nat /\ MaxFaults \in Nat
    /\ MaxAttempts \in Nat /\ MaxAttempts > 0 /\ Backoff \in [1 .. MaxAttempts -> Nat]
BY TimesAreNat

LEMMA NoneIsNoRow == None \notin Rows /\ None \notin Events
BY NoneIsNoId

\* Only the run that takes the step changes.
LEMMA GotoOK ==
    ASSUME RunsOK, NEW w \in Workers, NEW x \in Run, Sane(x), Goto(w, x)
    PROVE  RunsOK'
BY DEF RunsOK, Goto

LEMMA GotoIs ==
    ASSUME RunsOK, NEW w \in Workers, NEW x, Goto(w, x)
    PROVE  run'[w] = x /\ \A v \in Workers \ {w} : run'[v] = run[v]
BY DEF RunsOK, Goto

LEMMA IdleOK == Idle \in Run /\ Sane(Idle)
<1>1. [r \in Rows |-> 0] \in [Rows -> 0 .. MaxAttempts]
    BY Numbers
<1>2. Idle \in Run
    BY <1>1 DEF Idle, Run, Pcs, Outcomes
<1>3. Sane(Idle)
    BY DEF Idle, Sane, Delivering
<1> QED
    BY <1>2, <1>3

\* A run that starts holds no row yet.
LEMMA BegunOK ==
    ASSUME NEW kind \in {"cron", "now"}, NEW of \in Events \cup {None},
           NEW pc \in {"events", "fanout"}, NEW todo \in SUBSET Events,
           NEW x \in {[Idle EXCEPT !.kind = kind, !.pc = pc],
                      [Idle EXCEPT !.kind = kind, !.of = of, !.pc = pc, !.todo = todo]}
    PROVE  x \in Run /\ Sane(x)
<1>1. Idle \in Run /\ Idle.r = None /\ Idle.batch = {}
    BY IdleOK DEF Idle
<1> QED
    BY <1>1 DEF Run, Pcs, Sane, Delivering

\* Another place in the code, another event.
LEMMA MovedOK ==
    ASSUME NEW y \in Run, NEW pc \in Pcs, NEW e \in Events \cup {None}, NEW todo \in SUBSET Events,
           NEW ran \in Nat, NEW one \in Nat
    PROVE  /\ [y EXCEPT !.pc = pc] \in Run
           /\ [y EXCEPT !.cur = e, !.pc = pc] \in Run
           /\ [y EXCEPT !.todo = todo, !.one = one, !.pc = pc] \in Run
           /\ [y EXCEPT !.todo = todo, !.cur = e, !.pc = pc, !.ran = ran] \in Run
BY DEF Run

LEMMA EndOK ==
    ASSUME RunsOK, NEW w \in Workers, End(w)
    PROVE  RunsOK'
BY GotoOK, IdleOK DEF End

LEMMA FaultOK == ASSUME RestOK, NEW k, Fault(k) PROVE faults' \in 0 .. MaxFaults
BY Numbers DEF RestOK, Fault

LEMMA OlderOK == ASSUME NEW a \in Nat, NEW c \in Nat PROVE Older(a, c) \in Nat /\ Older(a, c) <= a + 1
BY DEF Older

LEMMA EmitTypes == ASSUME Types, NEW e \in Events, Emit(e) PROVE Types'
<1>1. EventsOK'
  <2>1. PICK to \in Audiences : event' = [event EXCEPT ![e].st = "new", ![e].to = to]
      BY DEF Emit
  <2>2. event[e] \in EventRecord /\ to \in SUBSET Targets
      BY <2>1, AudiencesOfTargets DEF Types, EventsOK
  <2>3. [event[e] EXCEPT !.st = "new", !.to = to] \in EventRecord
      BY <2>2 DEF EventRecord
  <2> QED
      BY <2>1, <2>3 DEF Types, EventsOK
<1> QED
    BY <1>1 DEF Types, Emit, RowsOK, RunsOK, MessagesOK, RestOK, messages

LEMMA CronStartTypes == ASSUME Types, NEW w \in Workers, CronStart(w) PROVE Types'
<1>1. EventsOK'
    BY DEF Types, CronStart, EventsOK, EventRecord, StaleUnlocked, Free
<1>2. RowsOK'
    BY DEF Types, CronStart, RowsOK, RowRecord, ReleasedRows, Open, Final, Stale
<1>3. RunsOK'
  <2> DEFINE x == [Idle EXCEPT !.kind = "cron", !.pc = "events"]
  <2>1. x \in Run /\ Sane(x)
      BY BegunOK
  <2> QED
      BY <2>1, GotoOK DEF CronStart, Types
<1> QED
    BY <1>1, <1>2, <1>3 DEF Types, CronStart, MessagesOK, RestOK, messages

LEMMA ClaimEventsTypes == ASSUME Types, NEW w \in Workers, ClaimEvents(w) PROVE Types'
<1> DEFINE es == {e \in Events : InTime(w) /\ Claimable(e)}
           x == [run[w] EXCEPT !.todo = es, !.one = 0,
                               !.pc = IF es = {} THEN "claim" ELSE "fanout"]
<1>1. EventsOK'
  <2>1. event' = Taken(es)
      BY DEF ClaimEvents
  <2> HIDE DEF es
  <2> QED
      BY <2>1 DEF Types, EventsOK, EventRecord, Taken
<1>2. RunsOK'
  <2>1. Goto(w, x) /\ run[w].pc = "events"
      BY DEF ClaimEvents, At
  <2>2. es \subseteq Events
      OBVIOUS
  <2> HIDE DEF es
  <2>3. x \in Run /\ Sane(x)
      BY <2>1, <2>2 DEF Types, RunsOK, Run, Pcs, Sane, Delivering
  <2> QED
      BY <2>1, <2>3, GotoOK DEF Types
<1> QED
    BY <1>1, <1>2 DEF Types, ClaimEvents, MessagesOK, RowsOK, RestOK, messages

LEMMA NowStartTypes ==
    ASSUME Types, NEW w \in Workers, NEW e \in Events, NowStart(w, e)
    PROVE  Types'
<1>1. EventsOK'
    BY DEF Types, NowStart, EventsOK, EventRecord, Locked
<1>2. RunsOK'
  <2> DEFINE x == [Idle EXCEPT !.kind = "now", !.of = e, !.pc = "fanout", !.todo = {e}]
  <2>1. x \in Run /\ Sane(x)
      BY BegunOK
  <2> QED
      BY <2>1, GotoOK DEF NowStart, Types
<1> QED
    BY <1>1, <1>2 DEF Types, NowStart, MessagesOK, RowsOK, RestOK, messages

LEMMA UpsertedOK == ASSUME RowsOK, NEW e, row' = Upserted(e) PROVE RowsOK'
BY DEF RowsOK, RowRecord, Upserted, Open, Final

LEMMA FanOutTypes == ASSUME Types, NEW w \in Workers, FanOut(w) PROVE Types'
<1>1. PICK e \in run[w].todo : FanOut(w)!2!(e)
    BY DEF FanOut
<1>2. e \in Events
    BY DEF Types, RunsOK, Run
<1>3. RowsOK'
    BY <1>1, UpsertedOK DEF Types, RowsOK
<1>4. RunsOK'
  <2>1. PICK pc \in {"finish", "unlock"} : Goto(w, [run[w] EXCEPT !.cur = e, !.pc = pc])
      BY <1>1
  <2>2. [run[w] EXCEPT !.cur = e, !.pc = pc] \in Run
      BY <1>2, MovedOK DEF Types, RunsOK, Pcs
  <2>3. Sane([run[w] EXCEPT !.cur = e, !.pc = pc])
      BY <1>2 DEF Types, RunsOK, Run, Pcs, Sane, Delivering, FanOut, At
  <2> QED
      BY <2>1, <2>2, <2>3, GotoOK DEF Types
<1>5. RestOK'
    BY <1>1, <1>2, FaultOK DEF Types, RestOK
<1> QED
    BY <1>3, <1>4, <1>5 DEF Types, FanOut, EventsOK, MessagesOK, messages

LEMMA NextEventOK ==
    ASSUME RunsOK, NEW w \in Workers, run[w].pc \in {"finish", "unlock"}
    PROVE  NextEvent(w) \in Run /\ Sane(NextEvent(w))
<1> DEFINE todo == run[w].todo \ {run[w].cur}
           pc == IF todo = {} THEN "claim" ELSE "fanout"
           ran == IF Cron(w) THEN run[w].ran ELSE 0
<1>1. run[w] \in Run /\ todo \in SUBSET Events /\ pc \in Pcs /\ ran \in Nat
    BY DEF RunsOK, Run, Pcs
<1>2. NextEvent(w) = [run[w] EXCEPT !.todo = todo, !.cur = None, !.pc = pc, !.ran = ran]
    BY DEF NextEvent
<1>3. pc \in {"claim", "fanout"}
    OBVIOUS
<1> HIDE DEF todo, pc, ran
<1>4. NextEvent(w) \in Run
    BY <1>1, <1>2 DEF Run
<1>5. Sane(NextEvent(w))
    BY <1>1, <1>2, <1>3 DEF RunsOK, Run, Sane, Delivering
<1> QED
    BY <1>4, <1>5

LEMMA FinishTypes == ASSUME Types, NEW w \in Workers, Finish(w) PROVE Types'
<1>1. run[w].cur \in Events
    BY DEF Types, RunsOK, Run, Sane, Finish, At
<1>2. EventsOK'
    BY <1>1 DEF Types, Finish, EventsOK, EventRecord
<1>3. RunsOK'
  <2>1. [run[w] EXCEPT !.pc = "unlock"] \in Run /\ Sane([run[w] EXCEPT !.pc = "unlock"])
      BY DEF Types, RunsOK, Run, Pcs, Sane, Delivering, Finish, At
  <2> QED
      BY <2>1, NextEventOK, GotoOK DEF Types, Finish, At
<1> QED
    BY <1>2, <1>3 DEF Types, Finish, RowsOK, MessagesOK, RestOK, messages

LEMMA UnlockTypes == ASSUME Types, NEW w \in Workers, Unlock(w) PROVE Types'
<1>1. EventsOK'
    BY DEF Types, Unlock, EventsOK, EventRecord, Unlocked
<1>2. RunsOK'
    BY NextEventOK, IdleOK, GotoOK DEF Types, Unlock, At
<1> QED
    BY <1>1, <1>2 DEF Types, Unlock, RowsOK, MessagesOK, RestOK, messages

\* To be recorded, and back at the batch.
LEMMA MarkOK ==
    ASSUME RunsOK, NEW w \in Workers, run[w].pc \in Delivering, NEW out \in Outcomes, Mark(w, out)
    PROVE  RunsOK'
<1> DEFINE x == [run[w] EXCEPT !.out = out, !.pc = "mark"]
<1>1. run[w] \in Run /\ Sane(run[w])
    BY DEF RunsOK
<1>2. x \in Run
    BY <1>1 DEF Run, Pcs
<1>3. Sane(x)
    BY <1>1 DEF Run, Sane, Delivering
<1> QED
    BY <1>2, <1>3, GotoOK DEF Mark

LEMMA OnOK ==
    ASSUME RunsOK, NEW w \in Workers, run[w].pc \in Delivering, NEW pc \in Delivering,
           Goto(w, [run[w] EXCEPT !.pc = pc])
    PROVE  RunsOK'
<1> DEFINE x == [run[w] EXCEPT !.pc = pc]
<1>1. x \in Run /\ Sane(x)
    BY DEF RunsOK, Run, Pcs, Sane, Delivering
<1> QED
    BY <1>1, GotoOK

\* A tick keeps the state of a row and its attempts.
LEMMA AgedOK ==
    ASSUME RowsOK, NEW r \in Rows
    PROVE  /\ Aged(r) \in RowRecord
           /\ Aged(r).st = row[r].st /\ Aged(r).attempts = row[r].attempts
           /\ Aged(r).held <= row[r].held + 1
<1>1. row[r] \in RowRecord
    BY DEF RowsOK
<1>2. CASE row[r].st \notin {"pending", "processing"}
    BY <1>1, <1>2 DEF Aged, RowRecord
<1>3. CASE row[r].st \in {"pending", "processing"}
  <2> DEFINE wait == IF row[r].wait > 0 THEN row[r].wait - 1 ELSE 0
             age == Older(row[r].age, Window + 1)
             held == IF row[r].st = "processing" THEN Older(row[r].held, StaleRow + 1) ELSE 0
  <2>1. wait \in Nat /\ age \in Nat /\ held \in Nat /\ held <= row[r].held + 1
      BY <1>1, Numbers DEF RowRecord, Older
  <2>2. Aged(r) = [row[r] EXCEPT !.wait = wait, !.age = age, !.held = held]
      BY <1>3 DEF Aged
  <2> HIDE DEF wait, age, held
  <2> QED
      BY <1>1, <2>1, <2>2 DEF RowRecord
<1> QED
    BY <1>2, <1>3

LEMMA TickTypes == ASSUME Types, Tick PROVE Types'
<1>1. EventsOK'
  <2>1. ASSUME NEW e \in Events PROVE event'[e] \in EventRecord
    <3>1. event[e] \in EventRecord
        BY DEF Types, EventsOK
    <3> DEFINE lock == IF event[e].lock = Free THEN event[e].lock
                       ELSE Older(event[e].lock, StaleLock + 1)
    <3>2. lock \in Nat \cup {Free}
        BY <3>1, Numbers DEF EventRecord, Older, Free
    <3>3. event'[e] = [event[e] EXCEPT !.lock = lock]
        BY DEF Tick
    <3> HIDE DEF lock
    <3> QED
        BY <3>1, <3>2, <3>3 DEF EventRecord
  <2> QED
      BY <2>1 DEF Tick, EventsOK
<1>2. RowsOK'
  <2>1. ASSUME NEW r \in Rows PROVE row'[r] \in RowRecord /\ Open(row'[r])
      BY AgedOK DEF Types, Tick, RowsOK, Open
  <2> QED
      BY <2>1 DEF Tick, RowsOK
<1>3. RunsOK'
  <2>1. ASSUME NEW w \in Workers PROVE run'[w] \in Run /\ Sane(run'[w])
    <3>1. run[w] \in Run /\ Sane(run[w])
        BY DEF Types, RunsOK
    <3> DEFINE ran == run[w].ran + 1
               one == run[w].one + 1
               x == [run[w] EXCEPT !.ran = ran, !.one = one]
    <3>4. ran \in Nat /\ one \in Nat
        BY <3>1 DEF Run
    <3>5. run'[w] \in {run[w], x}
        BY DEF Tick
    <3> HIDE DEF ran, one
    <3>2. x \in Run
        BY <3>1, <3>4 DEF Run
    <3>3. Sane(x)
        BY <3>1 DEF Run, Sane, Delivering
    <3> QED
        BY <3>1, <3>2, <3>3, <3>5
  <2> QED
      BY <2>1 DEF Tick, RunsOK
<1>4. MessagesOK'
  <2>1. ASSUME NEW r \in Rows PROVE shown'[r] \in Nat
    <3>1. shown[r] \in Nat
        BY DEF Types, MessagesOK
    <3> QED
        BY <3>1, OlderOK, Numbers DEF Tick
  <2> QED
      BY <2>1 DEF Types, Tick, MessagesOK
<1> QED
    BY <1>1, <1>2, <1>3, <1>4 DEF Types, Tick, RestOK

LEMMA ClaimNoneTypes == ASSUME Types, NEW w \in Workers, ClaimNone(w) PROVE Types'
BY EndOK DEF Types, ClaimNone, EventsOK, RowsOK, MessagesOK, RestOK, messages

LEMMA ClaimTypes == ASSUME Types, NEW w \in Workers, Claim(w) PROVE Types'
<1>1. PICK rs \in SUBSET DueFor(w) :
          /\ row' = ClaimedRows(rs)
          /\ Goto(w, [run[w] EXCEPT
                !.pc = "batch", !.batch = rs, !.full = Cardinality(rs) = BatchSize,
                !.seen = [r \in Rows |-> IF r \in rs THEN row[r].attempts ELSE 0],
                !.from = run[w].ran, !.one = 0])
    BY DEF Claim
<1>2. rs \subseteq Rows /\ \A r \in rs : row[r].st = "pending"
    BY DEF DueFor, Due
<1>3. RowsOK'
  <2>1. ASSUME NEW r \in Rows PROVE row'[r] \in RowRecord /\ Open(row'[r])
      BY <1>1, <1>2 DEF Types, RowsOK, RowRecord, ClaimedRows, Open, Final
  <2> QED
      BY <1>1, <2>1 DEF RowsOK, ClaimedRows
<1> DEFINE seen == [r \in Rows |-> IF r \in rs THEN row[r].attempts ELSE 0]
           full == Cardinality(rs) = BatchSize
<1>4. seen \in [Rows -> 0 .. MaxAttempts] /\ \A r \in rs : seen[r] < MaxAttempts
  <2>1. ASSUME NEW r \in Rows PROVE row[r].attempts \in 0 .. MaxAttempts
      BY DEF Types, RowsOK, RowRecord
  <2>2. ASSUME NEW r \in rs PROVE row[r].attempts < MaxAttempts
      BY <1>2 DEF Types, RowsOK, Open, Final
  <2> QED
      BY <1>2, <2>1, <2>2, Numbers
<1>5. full \in BOOLEAN
    OBVIOUS
<1>6. Goto(w, [run[w] EXCEPT !.pc = "batch", !.batch = rs, !.full = full, !.seen = seen,
                             !.from = run[w].ran, !.one = 0])
    BY <1>1
<1> HIDE DEF seen, full
<1> DEFINE x == [run[w] EXCEPT !.pc = "batch", !.batch = rs, !.full = full, !.seen = seen,
                               !.from = run[w].ran, !.one = 0]
<1>7. run[w] \in Run /\ run[w].r = None
    BY DEF Types, RunsOK, Sane, Claim, At, Delivering
<1>8. x \in Run
    BY <1>2, <1>4, <1>5, <1>7 DEF Run, Pcs
<1>9. Sane(x)
    BY <1>4, <1>7 DEF Run, Sane, Delivering
<1>10. RunsOK'
    BY <1>6, <1>8, <1>9, GotoOK DEF Types
<1> QED
    BY <1>3, <1>10 DEF Types, Claim, EventsOK, MessagesOK, RestOK, messages

LEMMA BatchEndTypes == ASSUME Types, NEW w \in Workers, BatchEnd(w) PROVE Types'
<1> DEFINE x == [run[w] EXCEPT !.pc = "claim", !.batch = {}]
<1>1. x \in Run /\ Sane(x)
    BY DEF Types, RunsOK, Run, Pcs, Sane, Delivering, BatchEnd, At
<1>2. RunsOK'
    BY <1>1, GotoOK, EndOK DEF Types, BatchEnd
<1> QED
    BY <1>2 DEF Types, BatchEnd, EventsOK, RowsOK, MessagesOK, RestOK, messages

LEMMA StartTypes ==
    ASSUME Types, NEW w \in Workers, NEW r \in Rows, Start(w, r)
    PROVE  Types'
<1> DEFINE mine == [run[w] EXCEPT !.r = r, !.batch = @ \ {r}, !.one = 0]
<1>1. run[w] \in Run /\ Sane(run[w]) /\ r \in run[w].batch /\ run[w].pc = "batch"
    BY DEF Types, RunsOK, Start, At
<1>2. mine \in Run /\ mine.r = r /\ r \notin mine.batch /\ mine.batch \subseteq run[w].batch
          /\ mine.seen = run[w].seen
    BY <1>1 DEF Run
<1>3. \/ Goto(w, [mine EXCEPT !.out = "failed", !.pc = "mark"])
      \/ \E pc \in {"send", "prior"} : Goto(w, [mine EXCEPT !.pc = pc])
    BY DEF Start
<1> HIDE DEF mine
<1>4. ASSUME NEW pc \in Delivering
      PROVE  [mine EXCEPT !.pc = pc] \in Run /\ Sane([mine EXCEPT !.pc = pc])
    BY <1>1, <1>2 DEF Run, Pcs, Sane, Delivering
<1>5. LET x == [mine EXCEPT !.out = "failed", !.pc = "mark"] IN x \in Run /\ Sane(x)
    BY <1>1, <1>2 DEF Run, Pcs, Outcomes, Sane, Delivering
<1>6. RunsOK'
    BY <1>3, <1>4, <1>5, GotoOK DEF Types, Delivering
<1> QED
    BY <1>6 DEF Types, Start, EventsOK, RowsOK, MessagesOK, RestOK, messages

LEMMA PriorTypes == ASSUME Types, NEW w \in Workers, Prior(w) PROVE Types'
<1>1. \/ \E out \in Outcomes : Mark(w, out)
      \/ Goto(w, [run[w] EXCEPT !.pc = "send"])
    BY DEF Prior, Outcomes
<1>2. run[w].pc \in Delivering
    BY DEF Prior, At, Delivering
<1>3. RunsOK'
    BY <1>1, <1>2, MarkOK, OnOK DEF Types, Delivering
<1> QED
    BY <1>3 DEF Types, Prior, EventsOK, RowsOK, MessagesOK, RestOK, messages

LEMMA SendTypes == ASSUME Types, NEW w \in Workers, Send(w) PROVE Types'
<1>1. \/ \E out \in Outcomes : Mark(w, out)
      \/ \E pc \in {"errored", "timedout"} : Goto(w, [run[w] EXCEPT !.pc = pc])
    BY DEF Send, Outcomes
<1>2. run[w].pc \in Delivering /\ run[w].r \in Rows
    BY DEF Types, RunsOK, Sane, Send, At, Delivering
<1>3. RunsOK'
    BY <1>1, <1>2, MarkOK, OnOK DEF Types, Delivering
<1>4. \E goes \in BOOLEAN : Out(w, goes)
    BY DEF Send
<1>5. copies' \in [Rows -> 0 .. 2] /\ shown' \in [Rows -> Nat]
    BY <1>2, <1>4 DEF Types, MessagesOK, Out
<1>6. lapsed' \subseteq Rows
    BY <1>2 DEF Types, MessagesOK, Send
<1> QED
    BY <1>3, <1>5, <1>6 DEF Types, Send, EventsOK, RowsOK, MessagesOK, RestOK

LEMMA FailureTypes == ASSUME Types, NEW w \in Workers, Failure(w) PROVE Types'
<1>1. \E out \in Outcomes : Mark(w, out)
    BY DEF Failure, Outcomes
<1>2. run[w].pc \in Delivering
    BY DEF Failure, At, Delivering
<1>3. RunsOK'
    BY <1>1, <1>2, MarkOK DEF Types
<1> QED
    BY <1>3 DEF Types, Failure, EventsOK, RowsOK, MessagesOK, RestOK, messages

LEMMA OutcomeOK ==
    ASSUME Types, NEW w \in Workers, run[w].pc = "mark", row[run[w].r].st = "processing"
    PROVE  Outcome(w) \in RowRecord /\ Open(Outcome(w))
<1> DEFINE r == run[w].r
           attempts == run[w].seen[r] + 1
<1>1. r \in Rows /\ row[r] \in RowRecord /\ Open(row[r]) /\ attempts \in 1 .. MaxAttempts
    BY Numbers DEF Types, RowsOK, RunsOK, Run, Sane, Delivering
<1>2. Backoff[attempts] \in Nat /\ Grace \in Nat /\ attempts \in 0 .. MaxAttempts
    BY <1>1, Numbers
<1> DEFINE delay == IF run[w].out = "late" /\ Grace > Backoff[attempts] THEN Grace
                    ELSE Backoff[attempts]
<1>3. delay \in Nat
    BY <1>2
<1>4. Outcome(w) =
          IF run[w].out = "defer"
          THEN [row[r] EXCEPT !.st = "pending", !.wait = Grace, !.held = 0]
          ELSE IF run[w].out \in {"retry", "late"} /\ attempts < MaxAttempts
          THEN [row[r] EXCEPT !.st = "pending", !.attempts = attempts, !.wait = delay, !.held = 0]
          ELSE [row[r] EXCEPT !.st = IF run[w].out = "sent" THEN "sent" ELSE "failed",
                              !.attempts = attempts, !.wait = 0, !.age = 0, !.held = 0]
    BY DEF Outcome
<1>5. row[r].attempts < MaxAttempts
    BY <1>1 DEF Open, Final
<1> HIDE DEF r, attempts, delay
<1>6. [row[r] EXCEPT !.st = "pending", !.wait = Grace, !.held = 0] \in RowRecord
    BY <1>1, <1>2 DEF RowRecord
<1>7. [row[r] EXCEPT !.st = "pending", !.attempts = attempts, !.wait = delay, !.held = 0] \in RowRecord
    BY <1>1, <1>2, <1>3 DEF RowRecord
<1>8. ASSUME NEW st \in Final
      PROVE  [row[r] EXCEPT !.st = st, !.attempts = attempts, !.wait = 0, !.age = 0, !.held = 0]
                 \in RowRecord
    BY <1>1, <1>2 DEF RowRecord, Final
<1>9. Outcome(w) \in RowRecord
    BY <1>4, <1>6, <1>7, <1>8 DEF Final
<1>10. Open(Outcome(w))
    BY <1>1, <1>4, <1>5 DEF RowRecord, Open, Final
<1> QED
    BY <1>9, <1>10

LEMMA RecordTypes == ASSUME Types, NEW w \in Workers, Record(w) PROVE Types'
<1>1. run[w] \in Run /\ Sane(run[w]) /\ run[w].pc = "mark" /\ run[w].r \in Rows
    BY DEF Types, RunsOK, Record, At, Sane, Delivering
<1>2. RowsOK'
    BY <1>1, OutcomeOK DEF Types, RowsOK, Record
<1>3. RunsOK'
  <2> DEFINE x == [run[w] EXCEPT !.pc = "batch", !.r = None, !.out = "none"]
  <2>1. x \in Run
      BY <1>1 DEF Run, Pcs, Outcomes
  <2>2. Sane(x)
      BY <1>1 DEF Run, Sane, Delivering
  <2> QED
      BY <2>1, <2>2, GotoOK DEF Types, Record
<1>4. lapsed' \subseteq Rows
    BY <1>1 DEF Types, MessagesOK, Record, Unrecorded
<1>5. faults' \in 0 .. MaxFaults
    BY FaultOK DEF Types, RestOK, Record
<1> QED
    BY <1>2, <1>3, <1>4, <1>5 DEF Types, Record, EventsOK, MessagesOK, RestOK

LEMMA DieTypes == ASSUME Types, NEW w \in Workers, Die(w) PROVE Types'
<1>1. RunsOK'
    BY EndOK DEF Types, Die
<1>2. lapsed' \subseteq Rows
    BY DEF Types, MessagesOK, Die, Unrecorded
<1>3. run[w].todo \subseteq Events
    BY DEF Types, RunsOK, Run
<1>4. RestOK'
    BY <1>3, FaultOK DEF Types, RestOK, Die
<1> QED
    BY <1>1, <1>2, <1>4 DEF Types, Die, EventsOK, RowsOK, MessagesOK

LEMMA InitTypes == Init => Types
<1> SUFFICES ASSUME Init PROVE Types
    OBVIOUS
<1>1. EventsOK
    BY DEF Init, EventsOK, EventRecord
<1>2. RowsOK
    BY Numbers DEF Init, RowsOK, RowRecord, Open, Final
<1>3. RunsOK
    BY IdleOK DEF Init, RunsOK
<1> QED
    BY <1>1, <1>2, <1>3, Numbers DEF Init, Types, MessagesOK, RestOK

LEMMA NextTypes == ASSUME Types, [Next]_vars PROVE Types'
<1>1. ASSUME NEW w \in Workers, Working(w) PROVE Types'
    BY <1>1, ClaimEventsTypes, FanOutTypes, FinishTypes, UnlockTypes, ClaimNoneTypes, ClaimTypes,
       BatchEndTypes, StartTypes, PriorTypes, SendTypes, FailureTypes, RecordTypes
    DEF Working
<1>2. CASE UNCHANGED vars
    BY <1>2 DEF vars, Types, EventsOK, RowsOK, RunsOK, MessagesOK, RestOK
<1> QED
    BY <1>1, <1>2, TickTypes, EmitTypes, NowStartTypes, CronStartTypes, DieTypes DEF Next

\* The tables, the messages and what every run holds have their types, and no
\* row is tried more often than NOTIFICATION_DELIVER_MAX_ATTEMPTS.
THEOREM TypeCorrect == Spec => []TypeOK
<1>1. Types /\ [Next]_vars => Types'
    BY NextTypes
<1>2. Spec => []Types
    BY <1>1, InitTypes, PTL DEF Spec
<1> QED
    BY <1>2, TypesAreTypes, PTL

-----------------------------------------------------------------------------
(* Claims *)

\* A row a run holds is not stale.
LEMMA NotStale ==
    ASSUME Types, NEW w \in Workers, Timely(w), NEW r \in Mine(w)
    PROVE  r \in Rows /\ row[r].held <= run[w].ran /\ row[r].st = "processing" /\ ~ Stale(r)
<1>1. run[w] \in Run /\ Sane(run[w])
    BY DEF Types, RunsOK
<1>2. run[w].pc \in Delivering \cup {"batch"} /\ r \in Rows
    BY <1>1 DEF Mine, Sane, Run
<1>3. row[r].held \in Nat /\ run[w].ran \in Nat /\ run[w].one \in Nat
    BY <1>1, <1>2 DEF Types, RowsOK, RowRecord, Run
<1>4. row[r].held <= StaleRow
    BY <1>2, <1>3, RunsEnd, Numbers DEF Timely
<1> QED
    BY <1>2, <1>3, <1>4, Numbers DEF Timely, Stale

\* What a step leaves alone of the rows a run holds it holds as before.
LEMMA StaysTimely ==
    ASSUME NEW v \in Workers, Timely(v), run'[v] = run[v], \A r \in Mine(v) : row'[r] = row[r]
    PROVE  Timely(v)' /\ Mine(v)' = Mine(v)
BY DEF Timely, Mine

\* A step of one run that takes no rows and touches only its own.
LEMMA ClaimsKept ==
    ASSUME Types, Claims, NEW w \in Workers, NEW x, Goto(w, x), Mine(w)' \subseteq Mine(w), Timely(w)',
           \A v \in Workers \ {w} : \A r \in Mine(v) : row'[r] = row[r]
    PROVE  Claims'
<1>1. ASSUME NEW v \in Workers \ {w} PROVE Timely(v)' /\ Mine(v)' = Mine(v)
  <2>1. run'[v] = run[v]
      BY DEF Types, RunsOK, Goto
  <2> QED
      BY <2>1, StaysTimely DEF Claims
<1>2. Apart'
    BY <1>1 DEF Claims, Apart
<1> QED
    BY <1>1, <1>2 DEF Claims

\* A run that holds nothing afterwards.
LEMMA HoldsNone ==
    ASSUME Types, Types', Claims, NEW w \in Workers, NEW x, Goto(w, x),
           x.pc \notin Delivering \cup {"batch"},
           \A v \in Workers \ {w} : \A r \in Mine(v) : row'[r] = row[r]
    PROVE  Claims'
<1>1. run'[w] = x /\ Sane(run'[w])
    BY DEF Types, RunsOK, Goto
<1>2. Mine(w)' = {}
    BY <1>1 DEF Mine, Sane
<1>3. Timely(w)'
    BY <1>1, <1>2 DEF Timely
<1> QED
    BY <1>2, <1>3, ClaimsKept

\* A run that goes on with what it holds, or with less.
LEMMA HoldsLess ==
    ASSUME Types, Claims, NEW w \in Workers, NEW x, Goto(w, x), UNCHANGED row,
           x.batch \cup ({x.r} \ {None}) \subseteq Mine(w),
           run[w].pc \in Delivering \cup {"batch"},
           x.ran = run[w].ran, x.one = run[w].one
    PROVE  Claims'
<1>1. run'[w] = x
    BY DEF Types, RunsOK, Goto
<1>2. Mine(w)' \subseteq Mine(w)
    BY <1>1 DEF Mine
<1>3. Timely(w)'
    BY <1>1, <1>2 DEF Claims, Timely
<1> QED
    BY <1>2, <1>3, ClaimsKept

LEMMA CronStartClaims ==
    ASSUME Types, Types', Claims, NEW w \in Workers, CronStart(w)
    PROVE  Claims'
<1> DEFINE x == [Idle EXCEPT !.kind = "cron", !.pc = "events"]
<1>1. ASSUME NEW v \in Workers \ {w}, NEW r \in Mine(v) PROVE row'[r] = row[r]
    BY <1>1, NotStale DEF Claims, CronStart, ReleasedRows
<1>2. Goto(w, x) /\ x.pc = "events"
    BY DEF CronStart, Idle
<1> HIDE DEF x
<1> QED
    BY <1>1, <1>2, HoldsNone DEF Delivering

\* The steps from events to rows, and those that give all rows up.
LEMMA NoClaims ==
    ASSUME Types, Types', Claims, NEW w \in Workers,
           \/ ClaimEvents(w) \/ FanOut(w) \/ Finish(w) \/ Unlock(w) \/ ClaimNone(w) \/ Die(w)
           \/ \E e \in Events : NowStart(w, e)
    PROVE  Claims'
<1> DEFINE x == run'[w]
<1>1. run \in [Workers -> Run] /\ Idle.pc = "idle"
    BY DEF Types, RunsOK, Idle
<1>2. Goto(w, x) /\ x.pc \in {"idle", "fanout", "claim", "finish", "unlock"}
  <2>1. CASE ClaimEvents(w)
      BY <1>1, <2>1 DEF ClaimEvents, Goto, Run
  <2>2. CASE FanOut(w)
      BY <1>1, <2>2 DEF FanOut, Goto, Run
  <2>3. NextEvent(w).pc \in {"claim", "fanout"}
      BY <1>1 DEF NextEvent, Run
  <2>4. CASE Finish(w)
      BY <1>1, <2>3, <2>4 DEF Finish, Goto, Run
  <2>5. CASE Unlock(w)
      BY <1>1, <2>3, <2>5 DEF Unlock, Goto
  <2>6. CASE ClaimNone(w) \/ Die(w)
      BY <1>1, <2>6 DEF ClaimNone, Die, End, Goto
  <2>7. CASE \E e \in Events : NowStart(w, e)
      BY <1>1, <2>7 DEF NowStart, Goto, Idle
  <2> QED
      BY <2>1, <2>2, <2>4, <2>5, <2>6, <2>7
<1>3. ASSUME NEW v \in Workers \ {w}, NEW r \in Mine(v) PROVE row'[r] = row[r]
  <2>1. r \in Rows /\ row[r].st = "processing"
      BY <1>3, NotStale DEF Claims
  <2>2. CASE FanOut(w)
      BY <2>1, <2>2 DEF FanOut, Upserted
  <2>3. CASE UNCHANGED row
      BY <2>3
  <2> QED
      BY <2>2, <2>3 DEF ClaimEvents, Finish, Unlock, ClaimNone, Die, NowStart
<1> HIDE DEF x
<1> QED
    BY <1>2, <1>3, HoldsNone DEF Delivering

\* What is claimed was nobody's, and is held no longer than the run goes on.
LEMMA ClaimClaims == ASSUME Types, Types', Claims, NEW w \in Workers, Claim(w) PROVE Claims'
<1>1. PICK rs \in SUBSET DueFor(w) :
          /\ rs # {}
          /\ row' = ClaimedRows(rs)
          /\ Goto(w, [run[w] EXCEPT
                !.pc = "batch", !.batch = rs, !.full = Cardinality(rs) = BatchSize,
                !.seen = [r \in Rows |-> IF r \in rs THEN row[r].attempts ELSE 0],
                !.from = run[w].ran, !.one = 0])
    BY DEF Claim
<1>2. rs \subseteq Rows /\ InTime(w) /\ \A r \in rs : row[r].st = "pending"
    BY <1>1 DEF DueFor, Due
<1>3. run[w] \in Run /\ run[w].r = None
    BY DEF Types, RunsOK, Sane, Claim, At, Delivering
<1>4. /\ run'[w].pc = "batch" /\ run'[w].batch = rs /\ run'[w].r = None
      /\ run'[w].ran = run[w].ran /\ run'[w].one = 0
    BY <1>1, <1>3 DEF Types, RunsOK, Run, Goto
<1>5. Mine(w)' = rs
    BY <1>4, <1>2, NoneIsNoRow DEF Mine
<1>6. Timely(w)'
  <2>1. run[w].ran \in Nat /\ run[w].ran < Budget
      BY <1>2, <1>3, RunsEnd, Numbers DEF Run, InTime
  <2>2. ASSUME NEW r \in rs PROVE row'[r].st = "processing" /\ row'[r].held = 0
      BY <1>1, <1>2 DEF Types, RowsOK, RowRecord, ClaimedRows
  <2> QED
      BY <1>4, <1>5, <2>1, <2>2, Numbers DEF Timely
<1>7. ASSUME NEW v \in Workers \ {w}
      PROVE  Timely(v)' /\ Mine(v)' = Mine(v) /\ Mine(v) \cap rs = {}
  <2>1. run'[v] = run[v]
      BY <1>1 DEF Types, RunsOK, Goto
  <2>2. ASSUME NEW r \in Mine(v) PROVE r \notin rs /\ row'[r] = row[r]
    <3>1. r \in Rows /\ row[r].st = "processing"
        BY NotStale DEF Claims
    <3> QED
        BY <1>1, <1>2, <3>1 DEF ClaimedRows
  <2> QED
      BY <2>1, <2>2, StaysTimely DEF Claims
<1> QED
    BY <1>5, <1>6, <1>7 DEF Claims, Apart

LEMMA BatchEndClaims ==
    ASSUME Types, Types', Claims, NEW w \in Workers, BatchEnd(w)
    PROVE  Claims'
<1> DEFINE x == run'[w]
<1>1. Goto(w, x) /\ x.pc \in {"idle", "claim"}
  <2>1. run \in [Workers -> Run] /\ Idle.pc = "idle"
      BY DEF Types, RunsOK, Idle
  <2>2. CASE End(w)
      BY <2>1, <2>2 DEF End, Goto
  <2>3. CASE Goto(w, [run[w] EXCEPT !.pc = "claim", !.batch = {}])
      BY <2>1, <2>3 DEF Run, Goto
  <2> QED
      BY <2>2, <2>3 DEF BatchEnd
<1> HIDE DEF x
<1> QED
    BY <1>1, HoldsNone DEF Delivering, BatchEnd

LEMMA StartClaims ==
    ASSUME Types, Claims, NEW w \in Workers, NEW r \in Rows, Start(w, r)
    PROVE  Claims'
<1> DEFINE x == run'[w]
<1>1. run[w] \in Run /\ r \in run[w].batch /\ run[w].pc = "batch" /\ InTime(w)
    BY DEF Types, RunsOK, Start, At
<1>2. /\ Goto(w, x) /\ x.r = r /\ x.batch = run[w].batch \ {r}
      /\ x.ran = run[w].ran /\ x.one = 0
  <2> DEFINE mine == [run[w] EXCEPT !.r = r, !.batch = @ \ {r}, !.one = 0]
  <2>1. /\ mine.r = r /\ mine.batch = run[w].batch \ {r} /\ mine.ran = run[w].ran /\ mine.one = 0
        /\ DOMAIN mine = DOMAIN run[w]
      BY <1>1 DEF Run
  <2>2. PICK y \in {[mine EXCEPT !.out = "failed", !.pc = "mark"], [mine EXCEPT !.pc = "send"],
                    [mine EXCEPT !.pc = "prior"]} : Goto(w, y)
      BY DEF Start
  <2> HIDE DEF mine
  <2>3. y.r = mine.r /\ y.batch = mine.batch /\ y.ran = mine.ran /\ y.one = mine.one
      BY <1>1, <2>1 DEF Run
  <2>4. run'[w] = y
      BY <2>2 DEF Types, RunsOK, Goto
  <2> QED
      BY <2>1, <2>2, <2>3, <2>4
<1>3. UNCHANGED row
    BY DEF Start
<1> HIDE DEF x
<1>4. run'[w] = x
    BY DEF x
<1>5. Mine(w)' \subseteq Mine(w)
    BY <1>1, <1>2, <1>4 DEF Mine
<1>6. Timely(w)'
  <2>1. run[w].ran \in Nat /\ run[w].ran < Budget
      BY <1>1, RunsEnd, Numbers DEF Run, InTime
  <2> QED
      BY <1>2, <1>3, <1>4, <1>5, <2>1, Numbers DEF Claims, Timely
<1> QED
    BY <1>2, <1>3, <1>5, <1>6, ClaimsKept

LEMMA DeliveryClaims ==
    ASSUME Types, Claims, NEW w \in Workers, Prior(w) \/ Send(w) \/ Failure(w)
    PROVE  Claims'
<1> DEFINE x == run'[w]
<1>1. run[w] \in Run /\ run[w].pc \in Delivering
    BY DEF Types, RunsOK, Prior, Send, Failure, At, Delivering
<1>2. \/ \E out : Mark(w, out)
      \/ \E pc : Goto(w, [run[w] EXCEPT !.pc = pc])
    BY DEF Prior, Send, Failure
<1>3. /\ Goto(w, x) /\ x.r = run[w].r /\ x.batch = run[w].batch
      /\ x.ran = run[w].ran /\ x.one = run[w].one
  <2>1. PICK y : Goto(w, y) /\ \/ \E out : y = [run[w] EXCEPT !.out = out, !.pc = "mark"]
                                \/ \E pc : y = [run[w] EXCEPT !.pc = pc]
      BY <1>2 DEF Mark
  <2>2. y.r = run[w].r /\ y.batch = run[w].batch /\ y.ran = run[w].ran /\ y.one = run[w].one
      BY <1>1, <2>1 DEF Run
  <2>3. run'[w] = y
      BY <2>1 DEF Types, RunsOK, Goto
  <2> QED
      BY <2>1, <2>2, <2>3
<1>4. UNCHANGED row
    BY DEF Prior, Send, Failure
<1> HIDE DEF x
<1> QED
    BY <1>1, <1>3, <1>4, HoldsLess DEF Mine

LEMMA RecordClaims == ASSUME Types, Claims, NEW w \in Workers, Record(w) PROVE Claims'
<1>1. run[w] \in Run /\ Sane(run[w]) /\ run[w].pc = "mark" /\ run[w].r \in Rows
    BY DEF Types, RunsOK, Record, At, Sane, Delivering
<1> DEFINE x == [run[w] EXCEPT !.pc = "batch", !.r = None, !.out = "none"]
<1>2. Goto(w, x) /\ x.r = None /\ x.batch = run[w].batch /\ x.ran = run[w].ran /\ x.one = run[w].one
    BY <1>1 DEF Record, Run
<1> HIDE DEF x
<1>3. run'[w] = x
    BY <1>2 DEF Types, RunsOK, Goto
<1>4. Mine(w)' = run[w].batch /\ run[w].r \notin run[w].batch /\ run[w].r \in Mine(w)
    BY <1>1, <1>2, <1>3, NoneIsNoRow DEF Run, Mine, Sane, Delivering
<1>5. \A r \in Rows \ {run[w].r} : row'[r] = row[r]
    BY DEF Types, RowsOK, Record
<1>6. Timely(w)'
  <2>1. \A r \in run[w].batch : r \in Rows /\ row'[r] = row[r] /\ r \in Mine(w)
      BY <1>1, <1>4, <1>5 DEF Run, Mine
  <2> QED
      BY <1>1, <1>2, <1>3, <1>4, <2>1 DEF Claims, Timely, Delivering
<1>7. ASSUME NEW v \in Workers \ {w}, NEW r \in Mine(v) PROVE row'[r] = row[r]
  <2>1. r \in Rows /\ r # run[w].r
      BY <1>4, <1>7, NotStale DEF Claims, Apart
  <2> QED
      BY <1>5, <2>1
<1>8. Mine(w)' \subseteq Mine(w)
    BY <1>4 DEF Mine
<1> QED
    BY <1>2, <1>6, <1>7, <1>8, ClaimsKept

\* Time passes for a run and for its rows alike.
LEMMA TickClaims == ASSUME Types, Claims, Tick PROVE Claims'
<1>1. ASSUME NEW w \in Workers PROVE Timely(w)' /\ Mine(w)' = Mine(w)
  <2>1. run[w] \in Run /\ Sane(run[w])
      BY DEF Types, RunsOK
  <2>2. CASE Mine(w) = {} /\ run[w].pc \notin Delivering \cup {"batch"}
    <3>1. run'[w].pc = run[w].pc /\ run'[w].batch = run[w].batch /\ run'[w].r = run[w].r
        BY <2>1 DEF Tick, Run
    <3> QED
        BY <2>2, <3>1 DEF Timely, Mine
  <2>3. CASE run[w].pc \in Delivering \cup {"batch"}
    <3>1. Busy(w) /\ run[w].one < OneMax
        BY <2>3 DEF Tick, Busy, Delivering
    <3>2. /\ run'[w].pc = run[w].pc /\ run'[w].batch = run[w].batch /\ run'[w].r = run[w].r
          /\ run'[w].ran = run[w].ran + 1 /\ run'[w].one = run[w].one + 1
        BY <2>1, <3>1 DEF Tick, Run
    <3>3. ASSUME NEW r \in Mine(w)
          PROVE  row'[r].st = "processing" /\ row'[r].held <= run[w].ran + 1
      <4>1. r \in Rows /\ row[r].held <= run[w].ran /\ row[r].st = "processing"
          BY NotStale DEF Claims
      <4>2. Aged(r) \in RowRecord /\ Aged(r).st = "processing" /\ Aged(r).held <= row[r].held + 1
          BY <4>1, AgedOK DEF Types
      <4>3. row'[r] = Aged(r) /\ row[r].held \in Nat /\ run[w].ran \in Nat
          BY <2>1, <4>1 DEF Types, RowsOK, RowRecord, Tick, Run
      <4> QED
          BY <4>1, <4>2, <4>3 DEF RowRecord
    <3>4. run[w].ran \in Nat /\ run[w].one \in Nat /\ run[w].ran < Budget + run[w].one
        BY <2>1, <2>3 DEF Claims, Timely, Run
    <3> QED
        BY <2>3, <3>1, <3>2, <3>3, <3>4, Numbers DEF Timely, Mine
  <2> QED
      BY <2>1, <2>2, <2>3 DEF Mine, Sane
<1> QED
    BY <1>1 DEF Claims, Apart

LEMMA InitClaims == Init => Claims
BY DEF Init, Idle, Claims, Apart, Timely, Mine, Delivering

LEMMA NextClaims == ASSUME Types, Claims, [Next]_vars PROVE Claims'
<1>1. Types'
    BY NextTypes
<1>2. CASE UNCHANGED <<row, run>>
    BY <1>2 DEF Claims, Apart, Timely, Mine
<1>3. ASSUME NEW w \in Workers, Working(w) PROVE Claims'
    BY <1>1, <1>3, NoClaims, ClaimClaims, BatchEndClaims, StartClaims, DeliveryClaims, RecordClaims
    DEF Working
<1>4. ASSUME NEW e \in Events, Emit(e) PROVE Claims'
    BY <1>2, <1>4 DEF Emit
<1> QED
    BY <1>1, <1>2, <1>3, <1>4, TickClaims, NoClaims, CronStartClaims DEF Next, vars

\* What a run works on is claimed and by no other run, whatever the times, as
\* long as a run and one delivery end before a claim is stale: the release of
\* stale claims (release_stale_notification_deliveries) gives nothing away.
THEOREM ClaimsExclusive == Spec => []HeldByOne
<1>1. Types /\ Claims /\ [Next]_vars => Types' /\ Claims'
    BY NextTypes, NextClaims
<1>2. Claims => HeldByOne
    BY DEF Claims, Timely, Apart, HeldByOne
<1>3. Spec => [](Types /\ Claims)
    BY <1>1, InitTypes, InitClaims, PTL DEF Spec
<1> QED
    BY <1>2, <1>3, PTL

-----------------------------------------------------------------------------
(* What is recorded as sent *)

LEMMA CopiesStay == ASSUME Types, [Next]_vars, NEW r \in Rows PROVE copies'[r] >= copies[r]
<1>1. copies[r] \in Nat
    BY DEF Types, MessagesOK
<1>2. CASE copies' = copies
    BY <1>1, <1>2
<1>3. ASSUME NEW w \in Workers, NEW goes, Out(w, goes) PROVE copies'[r] >= copies[r]
    BY <1>1, <1>3 DEF Types, MessagesOK, Out
<1>4. ASSUME NEW w \in Workers, Working(w), copies' # copies PROVE Send(w)
    BY <1>4 DEF Working, ClaimEvents, FanOut, Finish, Unlock, ClaimNone, Claim, BatchEnd, Start,
       Prior, Failure, Record, messages
<1>5. ASSUME NEW w \in Workers, Send(w) PROVE \E goes : Out(w, goes)
    BY <1>5 DEF Send
<1> QED
    BY <1>2, <1>3, <1>4, <1>5 DEF Next, vars, Tick, Emit, NowStart, CronStart, Die, messages

\* Only a run that records it makes a row sent.
LEMMA NewlySent ==
    ASSUME Types, [Next]_vars, NEW r \in Rows, row'[r].st = "sent", row[r].st # "sent"
    PROVE  \E w \in Workers : run[w].pc = "mark" /\ run[w].out = "sent" /\ run[w].r = r
<1>1. ~ Tick
    BY AgedOK DEF Types, Tick
<1>2. ASSUME NEW w \in Workers PROVE ~ CronStart(w) /\ ~ FanOut(w) /\ ~ Claim(w)
  <2>1. row[r] \in RowRecord
      BY DEF Types, RowsOK
  <2>2. ~ CronStart(w)
      BY <2>1 DEF CronStart, ReleasedRows, RowRecord
  <2>3. ~ FanOut(w)
      BY <2>1 DEF FanOut, Upserted, RowRecord
  <2>4. ~ Claim(w)
      BY <2>1 DEF Claim, ClaimedRows, RowRecord
  <2> QED
      BY <2>2, <2>3, <2>4
<1>3. row' # row
    OBVIOUS
<1>4. PICK w \in Workers : Record(w)
    BY <1>1, <1>2, <1>3 DEF Next, vars, Emit, NowStart, Die, Working, ClaimEvents, Finish, Unlock,
       ClaimNone, BatchEnd, Start, Prior, Send, Failure
<1>5. run[w].pc = "mark" /\ run[w].r \in Rows
    BY <1>4 DEF Types, RunsOK, Record, At, Sane, Delivering
<1>6. run[w].r = r /\ row' = [row EXCEPT ![r] = Outcome(w)]
    BY <1>4, <1>5 DEF Types, RowsOK, Record
<1>7. row'[r] = Outcome(w)
    BY <1>6 DEF Types, RowsOK
<1>8. row[r] \in RowRecord
    BY DEF Types, RowsOK
<1>9. run[w].out = "sent"
    BY <1>6, <1>7, <1>8 DEF Outcome, RowRecord
<1> QED
    BY <1>5, <1>6, <1>9

\* Only evidence, or the answer, makes a run take a message for sent.
LEMMA NewlyTold ==
    ASSUME Types, Told, [Next]_vars, NEW w \in Workers, run'[w].pc = "mark", run'[w].out = "sent"
    PROVE  copies'[run'[w].r] > 0
<1>1. run[w] \in Run /\ Sane(run[w]) /\ run \in [Workers -> Run]
    BY DEF Types, RunsOK
<1>2. CASE run'[w] = run[w]
  <2>1. run[w].r \in Rows /\ copies[run[w].r] > 0
      BY <1>1, <1>2 DEF Told, Sane, Delivering
  <2>2. copies[run[w].r] \in Nat /\ copies'[run[w].r] >= copies[run[w].r]
      BY <2>1, CopiesStay DEF Types, MessagesOK
  <2>3. copies' \in [Rows -> 0 .. 2]
      BY NextTypes DEF Types, MessagesOK
  <2> QED
      BY <1>2, <2>1, <2>2, <2>3
<1>3. CASE Tick
  <2>1. run'[w].pc = run[w].pc /\ run'[w].out = run[w].out /\ run'[w].r = run[w].r
      BY <1>1, <1>3 DEF Tick, Run
  <2> QED
      BY <1>1, <1>3, <2>1 DEF Tick, Told, Sane, Delivering
<1>4. CASE Prior(w) \/ Failure(w)
  <2>1. PICK ev \in Evidence(run[w].r), out \in Outcomes \cup {"on"} :
            /\ IF out = "on" THEN Goto(w, [run[w] EXCEPT !.pc = "send"]) ELSE Mark(w, out)
            /\ out = "sent" => ev = "confirmed"
      BY <1>4 DEF Prior, Failure, Outcomes
  <2>2. out = "sent" /\ run'[w].r = run[w].r
      BY <1>1, <2>1 DEF Mark, Goto, Run
  <2>3. run[w].r \in Rows /\ copies' = copies /\ copies[run[w].r] > 0
      BY <1>1, <1>4, <2>1, <2>2 DEF Evidence, Prior, Failure, At, Sane, Delivering, messages
  <2> QED
      BY <2>2, <2>3
<1>5. CASE Send(w)
  <2>1. PICK out : Mark(w, out) \/ \E pc \in {"errored", "timedout"} : Goto(w, [run[w] EXCEPT !.pc = pc])
      BY <1>5 DEF Send
  <2>4. PICK y : Goto(w, y) /\ \/ y = [run[w] EXCEPT !.out = out, !.pc = "mark"]
                                \/ \E pc : y = [run[w] EXCEPT !.pc = pc]
      BY <2>1 DEF Mark
  <2>5. y.r = run[w].r
      BY <1>1, <2>4 DEF Run
  <2>2. run[w].r \in Rows /\ run'[w].r = run[w].r
      BY <1>1, <1>5, <2>4, <2>5, GotoIs DEF Types, Send, At, Sane, Delivering
  <2>3. Out(w, TRUE)
      BY <1>1, <1>5 DEF Send, Mark, Goto, Run
  <2> QED
      BY <2>2, <2>3 DEF Types, MessagesOK, Out
<1>6. ASSUME NEW r \in Rows PROVE ~ Start(w, r)
  <2>1. SUFFICES ASSUME Start(w, r) PROVE FALSE
      OBVIOUS
  <2> DEFINE mine == [run[w] EXCEPT !.r = r, !.batch = @ \ {r}, !.one = 0]
  <2>2. PICK y \in {[mine EXCEPT !.out = "failed", !.pc = "mark"], [mine EXCEPT !.pc = "send"],
                    [mine EXCEPT !.pc = "prior"]} : Goto(w, y)
      BY <2>1 DEF Start
  <2>3. mine \in Run
      BY <1>1 DEF Run
  <2> HIDE DEF mine
  <2>4. y.pc # "mark" \/ y.out # "sent"
      BY <2>2, <2>3 DEF Run
  <2> QED
      BY <1>1, <2>2, <2>4 DEF Goto
<1>7. CASE \/ ClaimEvents(w) \/ FanOut(w) \/ Finish(w) \/ Unlock(w) \/ ClaimNone(w) \/ Die(w)
           \/ (\E e \in Events : NowStart(w, e)) \/ CronStart(w) \/ Claim(w) \/ BatchEnd(w) \/ Record(w)
  <2>1. NextEvent(w).pc \in {"claim", "fanout"}
      BY <1>1 DEF NextEvent, Run
  <2>2. CASE ClaimEvents(w)
      BY <1>1, <2>2 DEF ClaimEvents, Goto, Run
  <2>3. CASE FanOut(w)
      BY <1>1, <2>3 DEF FanOut, Goto, Run
  <2>4. CASE Finish(w) \/ Unlock(w)
      BY <1>1, <2>1, <2>4 DEF Finish, Unlock, Goto, Run, Idle
  <2>5. CASE ClaimNone(w) \/ Die(w) \/ (\E e \in Events : NowStart(w, e)) \/ CronStart(w)
    <3>1. PICK y : Goto(w, y) /\ \/ y = Idle \/ y = [Idle EXCEPT !.kind = "cron", !.pc = "events"]
                                  \/ \E e \in Events : y = [Idle EXCEPT !.kind = "now", !.of = e,
                                                               !.pc = "fanout", !.todo = {e}]
        BY <2>5 DEF ClaimNone, Die, NowStart, CronStart, End
    <3>2. y.pc # "mark"
      <4>1. Idle \in Run /\ Idle.pc = "idle"
          BY IdleOK DEF Idle
      <4> QED
          BY <3>1, <4>1 DEF Run
    <3> QED
        BY <3>1, <3>2, GotoIs DEF Types
  <2>6. CASE Claim(w)
      BY <1>1, <2>6 DEF Claim, Goto, Run
  <2>7. CASE BatchEnd(w) \/ Record(w)
    <3>1. PICK y : Goto(w, y) /\ \/ y = Idle \/ y = [run[w] EXCEPT !.pc = "claim", !.batch = {}]
                                  \/ y = [run[w] EXCEPT !.pc = "batch", !.r = None, !.out = "none"]
        BY <2>7 DEF BatchEnd, Record, End
    <3>2. y.pc # "mark"
      <4>1. Idle \in Run /\ Idle.pc = "idle"
          BY IdleOK DEF Idle
      <4> QED
          BY <1>1, <3>1, <4>1 DEF Run
    <3> QED
        BY <3>1, <3>2, GotoIs DEF Types
  <2> QED
      BY <1>7, <2>2, <2>3, <2>4, <2>5, <2>6, <2>7
<1>8. ASSUME NEW v \in Workers \ {w},
             Working(v) \/ Die(v) \/ CronStart(v) \/ \E e \in Events : NowStart(v, e)
      PROVE  run'[w] = run[w]
    BY <1>1, <1>8 DEF Working, ClaimEvents, FanOut, Finish, Unlock, ClaimNone, Claim, BatchEnd, Start,
       Prior, Send, Failure, Record, Mark, Die, CronStart, NowStart, End, Goto
<1>9. CASE UNCHANGED run
    BY <1>2, <1>9
<1>10. ASSUME NEW v \in Workers,
              Working(v) \/ Die(v) \/ CronStart(v) \/ \E e \in Events : NowStart(v, e)
       PROVE  copies'[run'[w].r] > 0
  <2>1. CASE v # w
      BY <1>2, <1>8, <1>10, <2>1
  <2>2. CASE v = w
      BY <1>4, <1>5, <1>6, <1>7, <1>10, <2>2 DEF Working
  <2> QED
      BY <2>1, <2>2
<1>11. UNCHANGED vars \/ (\E e \in Events : Emit(e)) => UNCHANGED run
    BY DEF vars, Emit
<1> QED
    BY <1>3, <1>9, <1>10, <1>11 DEF Next

\* A row is recorded as sent only when its message went out, however the
\* answers and the chat history lag (deliverOne, markDeliveryOutcome).
THEOREM SentWentOut == Spec => []SentIsSent
<1>1. ASSUME Types, Delivered, [Next]_vars PROVE Types' /\ Delivered'
  <2>1. Told'
      BY <1>1, NewlyTold DEF Delivered, Told
  <2>2. ASSUME NEW r \in Rows, row'[r].st = "sent" PROVE copies'[r] > 0
    <3>1. copies[r] > 0
        BY <1>1, <2>2, NewlySent DEF Delivered, Told, SentIsSent
    <3>2. copies[r] \in Nat /\ copies'[r] >= copies[r] /\ copies'[r] \in Nat
        BY <1>1, CopiesStay, NextTypes DEF Types, MessagesOK
    <3> QED
        BY <3>1, <3>2
  <2> QED
      BY <1>1, <2>1, <2>2, NextTypes DEF Delivered, SentIsSent
<1>2. Init => Delivered
    BY DEF Init, Idle, Delivered, Told, SentIsSent
<1>3. Spec => [](Types /\ Delivered)
    BY <1>1, <1>2, InitTypes, PTL DEF Spec
<1> QED
    BY <1>3, PTL DEF Delivered

-----------------------------------------------------------------------------
(* Processed events *)

Handled(e) == (\A r \in RowsOf(e) : row[r].st # "none") \/ e \in missed

\* A run of the cron that has still to make the rows of an event.
Ahead(w, e) ==
    /\ Cron(w) /\ e \in run[w].todo
    /\ run[w].pc = "fanout" \/ (run[w].pc \in {"finish", "unlock"} /\ run[w].cur # e)

EventsSafe ==
    \A e \in Events : event[e].st = "processed" => Handled(e) \/ \E w \in Workers : Ahead(w, e)

\* What a run has done with the event it is at.
SafeAt(w) ==
    /\ run[w].pc = "events" => Cron(w)
    /\ run[w].pc \notin {"fanout", "finish", "unlock"} => run[w].todo = {}
    /\ \A e \in run[w].todo : event[e].st # "none"
    /\ run[w].pc = "finish" \/ (run[w].pc = "unlock" /\ Cron(w)) => Handled(run[w].cur)

Safe == EventsSafe /\ \A w \in Workers : SafeAt(w)

LEMMA SafeIsNoneMissed == Types /\ Safe => NoneMissed
BY DEF Safe, EventsSafe, Ahead, Handled, NoneMissed

\* An event that was written stays so, for the same colleagues, and no row goes.
LEMMA Stays ==
    ASSUME Types, [Next]_vars
    PROVE  /\ \A r \in Rows : row[r].st # "none" => row'[r].st # "none"
           /\ \A e \in Events : event[e].st # "none" =>
                  event'[e].st # "none" /\ event'[e].to = event[e].to
           /\ missed \subseteq missed'
<1>1. ASSUME NEW r \in Rows, row[r].st # "none" PROVE row'[r].st # "none"
  <2>1. row[r] \in RowRecord
      BY DEF Types, RowsOK
  <2>2. CASE Tick
      BY <1>1, <2>2, AgedOK DEF Types, Tick
  <2>3. ASSUME NEW w \in Workers, CronStart(w) \/ FanOut(w) \/ Claim(w) PROVE row'[r].st # "none"
    <3>1. CASE CronStart(w)
        BY <1>1, <2>1, <3>1 DEF CronStart, ReleasedRows, RowRecord
    <3>2. CASE FanOut(w)
        BY <1>1, <2>1, <3>2 DEF FanOut, Upserted, RowRecord
    <3>3. CASE Claim(w)
        BY <1>1, <2>1, <3>3 DEF Claim, ClaimedRows, RowRecord
    <3> QED
        BY <2>3, <3>1, <3>2, <3>3
  <2>4. ASSUME NEW w \in Workers, Record(w) PROVE row'[r].st # "none"
    <3>1. run[w].r \in Rows /\ row[run[w].r] \in RowRecord
        BY <2>4 DEF Types, RunsOK, RowsOK, Record, At, Sane, Delivering
    <3>2. Outcome(w).st # "none"
        BY <3>1 DEF Outcome, RowRecord
    <3> QED
        BY <1>1, <2>4, <3>1, <3>2 DEF Types, RowsOK, Record
  <2>5. CASE row' = row
      BY <1>1, <2>5
  <2> QED
      BY <2>2, <2>3, <2>4, <2>5 DEF Next, vars, Emit, NowStart, Die, Working, ClaimEvents, Finish,
         Unlock, ClaimNone, BatchEnd, Start, Prior, Send, Failure
<1>2. ASSUME NEW e \in Events, event[e].st # "none"
      PROVE  event'[e].st # "none" /\ event'[e].to = event[e].to
  <2>1. event[e] \in EventRecord /\ event \in [Events -> EventRecord]
      BY DEF Types, EventsOK
  <2>2. CASE Tick
      BY <1>2, <2>1, <2>2 DEF Tick, EventRecord
  <2>3. ASSUME NEW f \in Events, Emit(f) PROVE event'[e] = event[e]
      BY <1>2, <2>1, <2>3 DEF Emit
  <2>4. ASSUME NEW w \in Workers,
               CronStart(w) \/ ClaimEvents(w) \/ (\E f \in Events : NowStart(w, f)) \/ Unlock(w)
        PROVE  event'[e].st # "none" /\ event'[e].to = event[e].to
    <3>1. CASE CronStart(w)
        BY <1>2, <2>1, <3>1 DEF CronStart, StaleUnlocked, EventRecord
    <3>2. CASE ClaimEvents(w)
      <4>1. PICK es : event' = Taken(es)
          BY <3>2 DEF ClaimEvents
      <4> QED
          BY <1>2, <2>1, <4>1 DEF Taken, EventRecord
    <3>3. CASE \E f \in Events : NowStart(w, f)
        BY <1>2, <2>1, <3>3 DEF NowStart, Locked, EventRecord
    <3>4. CASE Unlock(w)
        BY <1>2, <2>1, <3>4 DEF Unlock, Unlocked, EventRecord
    <3> QED
        BY <2>4, <3>1, <3>2, <3>3, <3>4
  <2>5. ASSUME NEW w \in Workers, Finish(w)
        PROVE  event'[e].st # "none" /\ event'[e].to = event[e].to
      BY <1>2, <2>1, <2>5 DEF Finish, EventRecord
  <2>6. CASE event' = event
      BY <1>2, <2>6
  <2> QED
      BY <1>2, <2>2, <2>3, <2>4, <2>5, <2>6 DEF Next, vars, Die, Working, FanOut, ClaimNone, Claim,
         BatchEnd, Start, Prior, Send, Failure, Record
<1>3. missed \subseteq missed'
    BY DEF Next, vars, Tick, Emit, NowStart, CronStart, Die, Working, ClaimEvents, FanOut, Finish,
       Unlock, ClaimNone, Claim, BatchEnd, Start, Prior, Send, Failure, Record
<1> QED
    BY <1>1, <1>2, <1>3

LEMMA HandledStays ==
    ASSUME Types, [Next]_vars, NEW e \in Events, Handled(e), event[e].st # "none"
    PROVE  Handled(e)'
<1>1. RowsOf(e) \subseteq Rows /\ RowsOf(e)' = RowsOf(e)
    BY Stays DEF Types, EventsOK, EventRecord, RowsOf, Rows
<1> QED
    BY <1>1, Stays DEF Handled

LEMMA AtFanOut ==
    ASSUME NEW w \in Workers, NEW e, run'[w].kind = "cron", run'[w].pc = "fanout", e \in run'[w].todo
    PROVE  Ahead(w, e)'
BY DEF Ahead, Cron

\* A step of one run: the others are as safe as before.
LEMMA SafeKept ==
    ASSUME Types, Safe, [Next]_vars, NEW w \in Workers, NEW x, Goto(w, x), SafeAt(w)',
           \A e \in Events : event'[e].st = "processed" =>
               \/ event[e].st = "processed" /\ (Ahead(w, e) => Ahead(w, e)' \/ Handled(e)')
               \/ Handled(e)' \/ Ahead(w, e)'
    PROVE  Safe'
<1>1. ASSUME NEW v \in Workers \ {w} PROVE run'[v] = run[v]
    BY GotoIs DEF Types
<1>2. ASSUME NEW v \in Workers \ {w} PROVE SafeAt(v)'
  <2>1. run[v] \in Run /\ Sane(run[v]) /\ SafeAt(v)
      BY DEF Types, RunsOK, Safe
  <2>2. ASSUME NEW e \in run[v].todo PROVE event'[e].st # "none"
      BY <2>1, Stays DEF Run, SafeAt
  <2>3. ASSUME run[v].pc = "finish" \/ (run[v].pc = "unlock" /\ Cron(v)) PROVE Handled(run[v].cur)'
    <3>1. run[v].cur \in run[v].todo /\ run[v].cur \in Events
        BY <2>1, <2>3 DEF Run, Sane
    <3>2. Handled(run[v].cur)
        BY <2>1, <2>3 DEF SafeAt
    <3>3. event[run[v].cur].st # "none"
        BY <2>1, <3>1 DEF SafeAt
    <3> DEFINE e == run[v].cur
    <3>4. Handled(e)'
      <4>1. RowsOf(e) \subseteq Rows /\ event'[e].to = event[e].to
          BY <3>1, <3>3, Stays DEF Types, EventsOK, EventRecord, RowsOf, Rows
      <4>2. run'[v].cur = run[v].cur
          BY <1>1
      <4> QED
          BY <3>2, <4>1, <4>2, Stays DEF Handled, RowsOf
    <3> QED
        BY <3>4
  <2> QED
      BY <1>1, <2>1, <2>2, <2>3 DEF SafeAt, Cron
<1>3. ASSUME NEW e \in Events, event'[e].st = "processed"
      PROVE  Handled(e)' \/ \E v \in Workers : Ahead(v, e)'
  <2>1. CASE event[e].st = "processed" /\ Handled(e)
      BY <2>1, HandledStays
  <2>2. ASSUME NEW v \in Workers \ {w}, Ahead(v, e) PROVE Ahead(v, e)'
      BY <1>1, <2>2 DEF Ahead, Cron
  <2> QED
      BY <1>3, <2>1, <2>2 DEF Safe, EventsSafe
<1> QED
    BY <1>2, <1>3 DEF Safe, EventsSafe

\* A run that is at no event, before and after, and takes none.
LEMMA SafeElsewhere ==
    ASSUME Types, Safe, [Next]_vars, NEW w \in Workers, NEW x, Goto(w, x),
           x.pc \notin {"events", "fanout", "finish", "unlock"}, x.todo = {},
           run[w].pc \notin {"fanout", "finish", "unlock"},
           \A e \in Events : event'[e].st = "processed" => event[e].st = "processed"
    PROVE  Safe'
<1>1. run'[w] = x
    BY GotoIs DEF Types
<1>2. SafeAt(w)'
    BY <1>1 DEF SafeAt
<1>3. \A e : ~ Ahead(w, e)
    BY DEF Ahead
<1> QED
    BY <1>2, <1>3, SafeKept

LEMMA CronStartSafe == ASSUME Types, Safe, NEW w \in Workers, CronStart(w), [Next]_vars PROVE Safe'
<1> DEFINE x == [Idle EXCEPT !.kind = "cron", !.pc = "events"]
<1>1. Goto(w, x) /\ x.kind = "cron" /\ x.pc = "events" /\ x.todo = {}
    BY DEF CronStart, Idle
<1> HIDE DEF x
<1>2. SafeAt(w)'
    BY <1>1, GotoIs DEF Types, SafeAt, Cron
<1>3. ASSUME NEW e \in Events, event'[e].st = "processed"
      PROVE  event[e].st = "processed" /\ ~ Ahead(w, e)
    BY <1>3 DEF Types, EventsOK, EventRecord, CronStart, At, StaleUnlocked, Ahead
<1> QED
    BY <1>1, <1>2, <1>3, SafeKept

LEMMA ClaimEventsSafe ==
    ASSUME Types, Safe, NEW w \in Workers, ClaimEvents(w), [Next]_vars
    PROVE  Safe'
<1> DEFINE es == {e \in Events : InTime(w) /\ Claimable(e)}
           x == [run[w] EXCEPT !.todo = es, !.one = 0, !.pc = IF es = {} THEN "claim" ELSE "fanout"]
<1>1. Goto(w, x) /\ event' = Taken(es) /\ run[w].pc = "events" /\ run[w] \in Run /\ SafeAt(w)
    BY DEF Types, RunsOK, Safe, ClaimEvents, At
<1>2. es \subseteq Events
    OBVIOUS
<1> HIDE DEF es
<1>3. x.kind = run[w].kind /\ x.todo = es /\ x.pc = (IF es = {} THEN "claim" ELSE "fanout")
    BY <1>1 DEF Run
<1> HIDE DEF x
<1>4. run'[w] = x
    BY <1>1, GotoIs DEF Types
<1>5. SafeAt(w)'
  <2>1. ASSUME NEW e \in es PROVE event'[e].st # "none"
      BY <1>1, <1>2 DEF Types, EventsOK, EventRecord, Taken
  <2> QED
      BY <1>3, <1>4, <2>1 DEF SafeAt
<1>6. ASSUME NEW e \in Events, event'[e].st = "processed"
      PROVE  (event[e].st = "processed" /\ ~ Ahead(w, e)) \/ Ahead(w, e)'
  <2>1. CASE e \in es
    <3>1. run'[w].kind = "cron" /\ run'[w].todo = es
        BY <1>1, <1>3, <1>4 DEF SafeAt, Cron
    <3>2. run'[w].pc = "fanout"
        BY <1>3, <1>4, <2>1
    <3>3. e \in run'[w].todo
        BY <2>1, <3>1
    <3> QED
        BY <3>1, <3>2, <3>3, AtFanOut
  <2>2. CASE e \notin es
      BY <1>1, <1>6, <2>2 DEF Types, EventsOK, EventRecord, Taken, Ahead
  <2> QED
      BY <2>1, <2>2
<1> QED
    BY <1>1, <1>5, <1>6, SafeKept

LEMMA NowStartSafe ==
    ASSUME Types, Safe, NEW w \in Workers, NEW f \in Events, NowStart(w, f), [Next]_vars
    PROVE  Safe'
<1> DEFINE x == [Idle EXCEPT !.kind = "now", !.of = f, !.pc = "fanout", !.todo = {f}]
<1>1. Goto(w, x) /\ x.kind = "now" /\ x.pc = "fanout" /\ x.todo = {f} /\ event[f].st = "new"
    BY DEF NowStart, Idle, Claimable
<1> HIDE DEF x
<1>2. SafeAt(w)'
    BY <1>1, GotoIs, Stays DEF Types, SafeAt, Cron
<1>3. ASSUME NEW e \in Events, event'[e].st = "processed"
      PROVE  event[e].st = "processed" /\ ~ Ahead(w, e)
    BY <1>3 DEF Types, EventsOK, EventRecord, NowStart, At, Locked, Ahead
<1> QED
    BY <1>1, <1>2, <1>3, SafeKept

LEMMA FanOutSafe == ASSUME Types, Safe, NEW w \in Workers, FanOut(w), [Next]_vars PROVE Safe'
<1>1. PICK e \in run[w].todo : FanOut(w)!2!(e)
    BY DEF FanOut
<1>2. PICK pc \in {"finish", "unlock"} : /\ Goto(w, [run[w] EXCEPT !.cur = e, !.pc = pc])
                                         /\ pc = "finish" \/ Cron(w) => row' = Upserted(e) \/ e \in missed'
    BY <1>1
<1>3. run[w] \in Run /\ run[w].pc = "fanout" /\ SafeAt(w) /\ e \in Events /\ event[e].st # "none"
    BY DEF Types, RunsOK, Run, Safe, SafeAt, FanOut, At
<1> DEFINE x == [run[w] EXCEPT !.cur = e, !.pc = pc]
<1>4. x.kind = run[w].kind /\ x.todo = run[w].todo /\ x.cur = e /\ x.pc = pc
    BY <1>3 DEF Run
<1>5. Goto(w, x)
    BY <1>2
<1> HIDE DEF x
<1>6. run'[w] = x
    BY <1>5, GotoIs DEF Types
<1>7. event' = event
    BY DEF FanOut
<1>8. ASSUME pc = "finish" \/ Cron(w) PROVE Handled(e)'
  <2>1. CASE row' = Upserted(e)
    <3>1. RowsOf(e) \subseteq Rows /\ RowsOf(e)' = RowsOf(e)
        BY <1>3, <1>7 DEF Types, EventsOK, EventRecord, RowsOf, Rows
    <3>2. ASSUME NEW r \in RowsOf(e) PROVE row'[r].st # "none"
        BY <2>1, <3>1 DEF Types, RowsOK, RowRecord, Upserted
    <3> QED
        BY <3>1, <3>2 DEF Handled
  <2>2. CASE e \in missed'
      BY <2>2 DEF Handled
  <2> QED
      BY <1>2, <1>8, <2>1, <2>2
<1>9. SafeAt(w)'
  <2>1. run'[w].cur = e
      BY <1>4, <1>6
  <2>2. ASSUME run'[w].pc = "finish" \/ (run'[w].pc = "unlock" /\ Cron(w)') PROVE Handled(run[w].cur)'
    <3>1. pc = "finish" \/ Cron(w)
        BY <1>4, <1>6, <2>2 DEF Cron
    <3> QED
        BY <1>8, <2>1, <3>1 DEF Handled, RowsOf
  <2> QED
      BY <1>2, <1>3, <1>4, <1>6, <1>7, <2>2 DEF SafeAt
<1>10. ASSUME NEW f \in Events, event'[f].st = "processed"
       PROVE  event[f].st = "processed" /\ (Ahead(w, f) => Ahead(w, f)' \/ Handled(f)')
  <2>1. CASE f = e
      BY <1>7, <1>8, <1>10, <2>1 DEF Ahead
  <2>2. CASE f # e
      BY <1>2, <1>4, <1>6, <1>7, <1>10, <2>2 DEF Ahead, Cron
  <2> QED
      BY <2>1, <2>2
<1> QED
    BY <1>5, <1>9, <1>10, SafeKept

\* On to the next event: those that are ahead stay ahead.
LEMMA NextEventSafe ==
    ASSUME Types, Safe, [Next]_vars, NEW w \in Workers, run[w].pc \in {"finish", "unlock"},
           Goto(w, NextEvent(w))
    PROVE  SafeAt(w)' /\ \A e : Ahead(w, e) => Ahead(w, e)'
<1> DEFINE todo == run[w].todo \ {run[w].cur}
           pc == IF todo = {} THEN "claim" ELSE "fanout"
<1>1. run[w] \in Run /\ SafeAt(w) /\ run'[w] = NextEvent(w)
    BY GotoIs DEF Types, RunsOK, Safe
<1>2. run'[w].kind = run[w].kind /\ run'[w].todo = todo /\ run'[w].pc = pc
    BY <1>1 DEF NextEvent, Run
<1>3. ASSUME NEW e \in todo PROVE event'[e].st # "none"
    BY <1>1, Stays DEF Run, SafeAt
<1>4. SafeAt(w)'
    BY <1>2, <1>3 DEF SafeAt
<1>5. ASSUME NEW e, Ahead(w, e) PROVE Ahead(w, e)'
  <2>1. e \in run[w].todo /\ e # run[w].cur /\ run[w].kind = "cron"
      BY <1>5 DEF Ahead, Cron
  <2>2. run'[w].kind = "cron" /\ run'[w].pc = "fanout" /\ e \in run'[w].todo
      BY <1>2, <2>1
  <2> QED
      BY <2>2, AtFanOut
<1> QED
    BY <1>4, <1>5

LEMMA FinishSafe == ASSUME Types, Safe, NEW w \in Workers, Finish(w), [Next]_vars PROVE Safe'
<1>1. run[w] \in Run /\ Sane(run[w]) /\ run[w].pc = "finish" /\ SafeAt(w)
    BY DEF Types, RunsOK, Safe, Finish, At
<1>2. PICK c \in Events : c = run[w].cur
    BY <1>1 DEF Run, Sane
<1>3. c \in run[w].todo /\ Handled(c) /\ event[c].st # "none"
  <2>1. c \in run[w].todo /\ Handled(run[w].cur)
      BY <1>1, <1>2 DEF Sane, SafeAt
  <2> QED
      BY <1>1, <1>2, <2>1 DEF SafeAt
<1>4. Handled(c)'
    BY <1>3, HandledStays
<1>5. CASE Completable(c)
  <2>1. /\ event' = [event EXCEPT ![c].st = "processed", ![c].lock = Free]
        /\ Goto(w, NextEvent(w))
      BY <1>2, <1>5 DEF Finish
  <2>2. SafeAt(w)' /\ \A e : Ahead(w, e) => Ahead(w, e)'
      BY <1>1, <2>1, NextEventSafe
  <2>3. ASSUME NEW e \in Events, event'[e].st = "processed", e # c PROVE event[e].st = "processed"
      BY <2>1, <2>3 DEF Types, EventsOK
  <2>4. ASSUME NEW e \in Events, event'[e].st = "processed"
        PROVE  (event[e].st = "processed" /\ (Ahead(w, e) => Ahead(w, e)')) \/ Handled(e)'
      BY <1>4, <2>2, <2>3, <2>4
  <2> QED
      BY <2>1, <2>2, <2>4, SafeKept
<1>6. CASE ~ Completable(c)
  <2> DEFINE x == [run[w] EXCEPT !.pc = "unlock"]
  <2>1. event' = event /\ Goto(w, x)
      BY <1>2, <1>6 DEF Finish
  <2>2. x.kind = run[w].kind /\ x.todo = run[w].todo /\ x.cur = c /\ x.pc = "unlock"
      BY <1>1, <1>2 DEF Run
  <2> HIDE DEF x
  <2>3. run'[w] = x
      BY <2>1, GotoIs DEF Types
  <2>4. Handled(run[w].cur)'
      BY <1>4, <2>2, <2>3 DEF Handled, RowsOf
  <2>5. SafeAt(w)'
      BY <1>1, <2>1, <2>2, <2>3, <2>4 DEF SafeAt
  <2>6. ASSUME NEW e, Ahead(w, e) PROVE Ahead(w, e)'
      BY <1>1, <1>2, <2>2, <2>3, <2>6 DEF Ahead, Cron
  <2> QED
      BY <2>1, <2>5, <2>6, SafeKept
<1> QED
    BY <1>5, <1>6

LEMMA UnlockSafe == ASSUME Types, Safe, NEW w \in Workers, Unlock(w), [Next]_vars PROVE Safe'
<1>1. run[w].pc = "unlock"
    BY DEF Unlock, At
<1>2. \A e \in Events : event'[e].st = event[e].st
    BY DEF Types, EventsOK, EventRecord, Unlock, Unlocked
<1>3. CASE Cron(w)
    BY <1>1, <1>2, <1>3, NextEventSafe, SafeKept DEF Unlock
<1>4. CASE ~ Cron(w)
  <2>1. Goto(w, Idle) /\ Idle.pc = "idle" /\ Idle.todo = {}
      BY <1>4 DEF Unlock, Idle
  <2>2. SafeAt(w)'
      BY <2>1, GotoIs DEF Types, SafeAt
  <2> QED
      BY <1>2, <1>4, <2>1, <2>2, SafeKept DEF Ahead
<1> QED
    BY <1>3, <1>4

LEMMA DieSafe == ASSUME Types, Safe, NEW w \in Workers, Die(w), [Next]_vars PROVE Safe'
<1>1. Goto(w, Idle) /\ Idle.pc = "idle" /\ Idle.todo = {} /\ event' = event
    BY DEF Die, End, Idle
<1>2. SafeAt(w)'
    BY <1>1, GotoIs DEF Types, SafeAt
<1>3. ASSUME NEW e, Ahead(w, e) PROVE Handled(e)'
    BY <1>3 DEF Die, At, Ahead, Handled
<1> QED
    BY <1>1, <1>2, <1>3, SafeKept

\* The steps from rows to messages.
LEMMA DeliverySafe ==
    ASSUME Types, Safe, [Next]_vars, NEW w \in Workers,
           \/ ClaimNone(w) \/ Claim(w) \/ BatchEnd(w) \/ (\E r \in Rows : Start(w, r))
           \/ Prior(w) \/ Send(w) \/ Failure(w) \/ Record(w)
    PROVE  Safe'
<1>1. run[w] \in Run /\ Sane(run[w]) /\ SafeAt(w)
    BY DEF Types, RunsOK, Safe
<1>2. run[w].pc \in Delivering \cup {"batch", "claim"} /\ event' = event
    BY DEF ClaimNone, Claim, BatchEnd, Start, Prior, Send, Failure, Record, At, Delivering
<1>3. run[w].todo = {}
    BY <1>1, <1>2 DEF SafeAt, Delivering
<1>4. PICK x : Goto(w, x) /\ x.pc \in Delivering \cup {"batch", "claim", "idle"} /\ x.todo = {}
  <2>1. Idle \in Run /\ Idle.pc = "idle" /\ Idle.todo = {}
      BY IdleOK DEF Idle
  <2>2. CASE ClaimNone(w) \/ BatchEnd(w)
    <3>1. PICK x : Goto(w, x) /\ x \in {Idle, [run[w] EXCEPT !.pc = "claim", !.batch = {}]}
        BY <2>2 DEF ClaimNone, BatchEnd, End
    <3>2. x.pc \in {"idle", "claim"} /\ x.todo = {}
      <4>1. CASE x = Idle
          BY <2>1, <4>1
      <4>2. CASE x = [run[w] EXCEPT !.pc = "claim", !.batch = {}]
          BY <1>1, <1>3, <4>2 DEF Run
      <4> QED
          BY <3>1, <4>1, <4>2
    <3> QED
        BY <3>1, <3>2
  <2>3. CASE Claim(w)
    <3>1. PICK rs : Goto(w, [run[w] EXCEPT
                !.pc = "batch", !.batch = rs, !.full = Cardinality(rs) = BatchSize,
                !.seen = [r \in Rows |-> IF r \in rs THEN row[r].attempts ELSE 0],
                !.from = run[w].ran, !.one = 0])
        BY <2>3 DEF Claim
    <3> DEFINE y == [run[w] EXCEPT
                !.pc = "batch", !.batch = rs, !.full = Cardinality(rs) = BatchSize,
                !.seen = [r \in Rows |-> IF r \in rs THEN row[r].attempts ELSE 0],
                !.from = run[w].ran, !.one = 0]
    <3>2. y.pc = "batch" /\ y.todo = {}
        BY <1>1, <1>3 DEF Run
    <3>3. Goto(w, y)
        BY <3>1
    <3> HIDE DEF y
    <3> QED
        BY <3>2, <3>3
  <2>4. CASE \E r \in Rows : Start(w, r)
    <3>1. PICK r \in Rows : Start(w, r)
        BY <2>4
    <3> DEFINE mine == [run[w] EXCEPT !.r = r, !.batch = @ \ {r}, !.one = 0]
    <3>2. PICK y \in {[mine EXCEPT !.out = "failed", !.pc = "mark"], [mine EXCEPT !.pc = "send"],
                      [mine EXCEPT !.pc = "prior"]} : Goto(w, y)
        BY <3>1 DEF Start
    <3>3. y.pc \in {"mark", "send", "prior"} /\ y.todo = {}
        BY <1>1, <1>3, <3>2 DEF Run
    <3> QED
        BY <3>2, <3>3 DEF Delivering
  <2>5. CASE Prior(w) \/ Send(w) \/ Failure(w)
    <3>1. PICK y : Goto(w, y) /\ \/ \E out : y = [run[w] EXCEPT !.out = out, !.pc = "mark"]
                                  \/ \E pc \in Delivering : y = [run[w] EXCEPT !.pc = pc]
        BY <2>5 DEF Prior, Send, Failure, Mark, Delivering
    <3>2. CASE \E out : y = [run[w] EXCEPT !.out = out, !.pc = "mark"]
      <4>1. y.pc = "mark" /\ y.todo = {}
          BY <1>1, <1>3, <3>2 DEF Run
      <4> QED
          BY <3>1, <4>1 DEF Delivering
    <3>3. CASE \E pc \in Delivering : y = [run[w] EXCEPT !.pc = pc]
      <4>1. y.pc \in Delivering /\ y.todo = {}
          BY <1>1, <1>3, <3>3 DEF Run
      <4> QED
          BY <3>1, <4>1
    <3> QED
        BY <3>1, <3>2, <3>3
  <2>6. CASE Record(w)
    <3> DEFINE y == [run[w] EXCEPT !.pc = "batch", !.r = None, !.out = "none"]
    <3>1. Goto(w, y)
        BY <2>6 DEF Record
    <3>2. y.pc = "batch" /\ y.todo = {}
        BY <1>1, <1>3 DEF Run
    <3> HIDE DEF y
    <3> QED
        BY <3>1, <3>2
  <2> QED
      BY <2>2, <2>3, <2>4, <2>5, <2>6
<1> QED
    BY <1>2, <1>4, SafeElsewhere DEF Delivering

LEMMA TickSafe == ASSUME Types, Safe, Tick, [Next]_vars PROVE Safe'
<1>1. ASSUME NEW w \in Workers
      PROVE  /\ run'[w].kind = run[w].kind /\ run'[w].todo = run[w].todo
             /\ run'[w].pc = run[w].pc /\ run'[w].cur = run[w].cur
    BY DEF Types, RunsOK, Run, Tick
<1>2. \A e \in Events : event'[e].st = event[e].st /\ event'[e].to = event[e].to
    BY DEF Types, EventsOK, EventRecord, Tick
<1>3. \A e \in Events : event[e].st # "none" /\ Handled(e) => Handled(e)'
    BY HandledStays
<1>4. \A w \in Workers : \A e : Ahead(w, e) => Ahead(w, e)'
    BY <1>1 DEF Ahead, Cron
<1>5. ASSUME NEW w \in Workers PROVE SafeAt(w)'
  <2>1. run[w] \in Run /\ Sane(run[w]) /\ SafeAt(w)
      BY DEF Types, RunsOK, Safe
  <2>2. ASSUME run[w].pc = "finish" \/ (run[w].pc = "unlock" /\ Cron(w)) PROVE Handled(run[w].cur)'
    <3>1. run[w].cur \in Events /\ Handled(run[w].cur) /\ event[run[w].cur].st # "none"
        BY <2>1, <2>2 DEF Run, Sane, SafeAt
    <3>2. RowsOf(run[w].cur) \subseteq Rows /\ missed' = missed
        BY <3>1 DEF Types, EventsOK, EventRecord, RowsOf, Rows, Tick
    <3> QED
        BY <1>1, <1>2, <3>1, <3>2, Stays DEF Handled, RowsOf
  <2> QED
      BY <1>1, <1>2, <2>1, <2>2 DEF SafeAt, Cron, Run
<1> QED
    BY <1>2, <1>3, <1>4, <1>5 DEF Safe, EventsSafe

LEMMA EmitSafe == ASSUME Types, Safe, NEW e \in Events, Emit(e), [Next]_vars PROVE Safe'
<1>1. run' = run /\ missed' = missed /\ row' = row
    BY DEF Emit
<1>2. \A f \in Events : f # e => event'[f] = event[f]
    BY DEF Types, EventsOK, Emit
<1>3. event[e].st = "none" /\ event'[e].st = "new"
    BY DEF Types, EventsOK, EventRecord, Emit
<1>4. ASSUME NEW w \in Workers PROVE SafeAt(w)'
  <2>1. run[w] \in Run /\ Sane(run[w]) /\ SafeAt(w)
      BY DEF Types, RunsOK, Safe
  <2>2. run[w].pc \in {"finish", "unlock"} => run[w].cur \in Events /\ run[w].cur # e
      BY <1>3, <2>1 DEF Run, Sane, SafeAt
  <2> QED
      BY <1>1, <1>2, <1>3, <2>1, <2>2 DEF SafeAt, Handled, RowsOf, Cron, Run
<1>5. EventsSafe'
    BY <1>1, <1>2, <1>3 DEF Safe, EventsSafe, Handled, Ahead, Cron, RowsOf
<1> QED
    BY <1>4, <1>5 DEF Safe

LEMMA NextSafe == ASSUME Types, Safe, [Next]_vars PROVE Safe'
<1>1. ASSUME NEW w \in Workers, Working(w) PROVE Safe'
    BY <1>1, ClaimEventsSafe, FanOutSafe, FinishSafe, UnlockSafe, DeliverySafe DEF Working
<1>2. CASE UNCHANGED vars
    BY <1>2 DEF vars, Safe, EventsSafe, SafeAt, Handled, Ahead, Cron, RowsOf
<1> QED
    BY <1>1, <1>2, TickSafe, EmitSafe, NowStartSafe, CronStartSafe, DieSafe DEF Next

\* An event that counts as processed has its rows, unless a run of the cron
\* broke off or failed before it made them, or the colleagues could not be read.
THEOREM NoneIsMissed == Spec => []NoneMissed
<1>1. Types /\ Safe /\ [Next]_vars => Types' /\ Safe'
    BY NextTypes, NextSafe
<1>2. Init => Safe
    BY DEF Init, Idle, Safe, EventsSafe, SafeAt
<1>3. Spec => [](Types /\ Safe)
    BY <1>1, <1>2, InitTypes, PTL DEF Spec
<1> QED
    BY <1>3, SafeIsNoneMissed, PTL
-----------------------------------------------------------------------------
(* A message goes out once *)

\* The message of the row went out, and that is not forgotten.
IsOut(r) == r \notin lapsed /\ copies[r] > 0

\* If it went out before the claim, the chat history shows it by the time the
\* run would send again.
Late(x, r) == shown[r] >= Grace \/ shown[r] >= x.ran - x.from

\* At these statements a run knows of a message that it sent.
Looked == {"errored", "timedout", "mark"}

\* What a run knows of its rows: how often they were tried, as long as it holds
\* them; of a row whose message is out, that it was tried before and is no mail.
Holds(x) == x.batch \cup ({x.r} \ {None})
Work(x) ==
    /\ \A r \in Holds(x) : x.seen[r] = row[r].attempts
    /\ \A r \in x.batch : IsOut(r) => ~ ByMail(r) /\ row[r].attempts > 0 /\ Late(x, r)
    /\ x.pc = "prior" =>
          ~ ByMail(x.r) /\ row[x.r].attempts > 0 /\ (IsOut(x.r) => Late(x, x.r))
    /\ x.pc = "send" => ~ IsOut(x.r)
    /\ x.pc \in {"errored", "timedout"} => ~ ByMail(x.r)
    /\ x.pc = "mark" /\ x.out = "defer" => ~ ByMail(x.r) /\ row[x.r].attempts > 0
    /\ x.pc = "mark" /\ ByMail(x.r) /\ IsOut(x.r) => x.out = "sent"

\* A message that is out is recorded, was tried, or is known to the run that sent it.
SentRow(r) ==
    IsOut(r) =>
        /\ copies[r] = 1
        /\ \/ row[r].st \in Final
           \/ ~ ByMail(r) /\ row[r].attempts > 0
           \/ \E w \in Workers : run[w].r = r /\ run[w].pc \in Looked

Once == (\A w \in Workers : Work(run[w])) /\ \A r \in Rows : SentRow(r)

LEMMA HoldsIsMine == \A w \in Workers : Holds(run[w]) = Mine(w)
BY DEF Holds, Mine

LEMMA RunIs ==
    ASSUME Types, NEW w \in Workers
    PROVE  run[w] \in Run /\ Sane(run[w])
BY DEF Types, RunsOK

\* A step of one run, that touches its own rows only.
LEMMA OnceKept ==
    ASSUME Types, Claims, Once, NEW w \in Workers, NEW x \in Run, Goto(w, x), lapsed \subseteq lapsed',
           \A v \in Workers \ {w} : \A r \in Mine(v) :
              row'[r] = row[r] /\ copies'[r] = copies[r] /\ shown'[r] = shown[r],
           Work(x)',
           \A r \in Rows :
              \/ SentRow(r)'
              \/ /\ copies'[r] = copies[r] /\ row'[r].attempts = row[r].attempts
                 /\ row[r].st \in Final => row'[r].st \in Final
                 /\ ~ (run[w].r = r /\ run[w].pc \in Looked)
    PROVE  Once'
<1>1. run'[w] = x /\ \A v \in Workers \ {w} : run'[v] = run[v]
    BY GotoIs DEF Types
<1>2. ASSUME NEW v \in Workers PROVE Work(run[v])'
    <2>1. CASE v = w
        BY <1>1, <2>1 DEF Work, IsOut, Late
    <2>2. CASE v # w
        <3>1. PICK y \in Run : y = run[v] /\ Sane(y)
            BY RunIs
        <3>2. run'[v] = y /\ Work(y) /\ Holds(y) = Mine(v)
            BY <1>1, <2>2, <3>1, HoldsIsMine DEF Once
        <3>3. \A r \in Holds(y) : row'[r] = row[r] /\ copies'[r] = copies[r] /\ shown'[r] = shown[r]
            BY <2>2, <3>2
        <3>4. \A r \in Holds(y) : (IsOut(r)' => IsOut(r)) /\ (Late(y, r) => Late(y, r)')
            BY <3>3 DEF IsOut, Late
        <3>5. y.pc \in Delivering => y.r \in Holds(y)
            BY <3>1, NoneIsNoRow DEF Sane, Holds
        <3>6. Work(y)'
            BY <3>2, <3>3, <3>4, <3>5 DEF Work, Holds, Delivering
        <3> QED
            BY <3>2, <3>6 DEF Work, IsOut, Late
    <2> QED
        BY <2>1, <2>2
<1>3. ASSUME NEW r \in Rows PROVE SentRow(r)'
    <2>1. CASE /\ copies'[r] = copies[r] /\ row'[r].attempts = row[r].attempts
               /\ row[r].st \in Final => row'[r].st \in Final
               /\ ~ (run[w].r = r /\ run[w].pc \in Looked)
        <3> SUFFICES ASSUME IsOut(r)'
                     PROVE  /\ copies'[r] = 1
                            /\ \/ row'[r].st \in Final
                               \/ ~ ByMail(r) /\ row'[r].attempts > 0
                               \/ \E v \in Workers : run'[v].r = r /\ run'[v].pc \in Looked
            BY DEF SentRow
        <3>1. IsOut(r)
            BY <2>1 DEF IsOut
        <3>2. SentRow(r)
            BY DEF Once
        <3>3. CASE \E v \in Workers : run[v].r = r /\ run[v].pc \in Looked
            <4>1. PICK v \in Workers : run[v].r = r /\ run[v].pc \in Looked
                BY <3>3
            <4>2. v # w
                BY <2>1, <4>1
            <4>3. run'[v] = run[v]
                BY <1>1, <4>2
            <4> QED
                BY <2>1, <3>1, <3>2, <4>1, <4>3 DEF SentRow
        <3> QED
            BY <2>1, <3>1, <3>2, <3>3 DEF SentRow
    <2> QED
        BY <2>1
<1> QED
    BY <1>2, <1>3 DEF Once

\* A run that holds no rows, before and after.
LEMMA OnceAside ==
    ASSUME Types, Types', Claims, Once, NEW w \in Workers, NEW x \in Run, Goto(w, x),
           x.pc \notin Delivering \cup {"batch"}, run[w].pc \notin Looked,
           UNCHANGED <<copies, shown>>, lapsed \subseteq lapsed',
           \A v \in Workers \ {w} : \A r \in Mine(v) : row'[r] = row[r],
           \A r \in Rows : /\ row'[r].attempts = row[r].attempts
                           /\ row[r].st \in Final => row'[r].st \in Final
    PROVE  Once'
<1>1. run'[w] = x
    BY GotoIs DEF Types
<1>2. Sane(x)
    BY <1>1 DEF Types, RunsOK
<1>3. x.batch = {} /\ x.r = None
    BY <1>2 DEF Sane
<1>4. Holds(x) = {}
    BY <1>3 DEF Holds
<1>5. Work(x)'
    BY <1>3, <1>4 DEF Work, Holds, Delivering
<1> QED
    BY <1>5, OnceKept

\* Every step of a run is a step of its own.
LEMMA AsideGoes ==
    ASSUME Types, NEW w \in Workers,
           \/ CronStart(w) \/ ClaimEvents(w) \/ FanOut(w) \/ Finish(w) \/ Unlock(w) \/ ClaimNone(w)
           \/ BatchEnd(w) \/ Die(w) \/ \E e \in Events : NowStart(w, e)
    PROVE  Goto(w, run'[w]) /\ run'[w].pc \in {"idle", "events", "fanout", "claim", "finish", "unlock"}
<1>1. run \in [Workers -> Run] /\ Idle.pc = "idle"
    BY DEF Types, RunsOK, Idle
<1>2. NextEvent(w).pc \in {"claim", "fanout"}
    BY <1>1 DEF NextEvent, Run
<1>3. CASE CronStart(w)
    BY <1>1, <1>3 DEF CronStart, Goto, Idle
<1>4. CASE ClaimEvents(w)
    BY <1>1, <1>4 DEF ClaimEvents, Goto, Run
<1>5. CASE FanOut(w)
    BY <1>1, <1>5 DEF FanOut, Goto, Run
<1>6. CASE Finish(w)
    BY <1>1, <1>2, <1>6 DEF Finish, Goto, Run
<1>7. CASE Unlock(w)
    BY <1>1, <1>2, <1>7 DEF Unlock, Goto
<1>8. CASE ClaimNone(w) \/ Die(w)
    BY <1>1, <1>8 DEF ClaimNone, Die, End, Goto
<1>9. CASE BatchEnd(w)
    <2>1. CASE End(w)
        BY <1>1, <2>1 DEF End, Goto
    <2>2. CASE Goto(w, [run[w] EXCEPT !.pc = "claim", !.batch = {}])
        <3>1. PICK y \in Run : y = run[w]
            BY <1>1
        <3>2. run' = [run EXCEPT ![w] = [y EXCEPT !.pc = "claim", !.batch = {}]]
            BY <2>2, <3>1 DEF Goto
        <3>3. run'[w] = [y EXCEPT !.pc = "claim", !.batch = {}]
            BY <1>1, <3>2
        <3>4. run'[w].pc = "claim"
            BY <3>1, <3>3 DEF Run
        <3>5. run' = [run EXCEPT ![w] = run'[w]]
            BY <3>2, <3>3
        <3> QED
            BY <3>4, <3>5 DEF Goto
    <2> QED
        BY <1>9, <2>1, <2>2 DEF BatchEnd
<1>10. CASE \E e \in Events : NowStart(w, e)
    BY <1>1, <1>10 DEF NowStart, Goto, Idle
<1> QED
    BY <1>3, <1>4, <1>5, <1>6, <1>7, <1>8, <1>9, <1>10

LEMMA AsideOnce ==
    ASSUME Types, Types', Claims, Once, NEW w \in Workers,
           \/ CronStart(w) \/ ClaimEvents(w) \/ FanOut(w) \/ Finish(w) \/ Unlock(w) \/ ClaimNone(w)
           \/ BatchEnd(w) \/ \E e \in Events : NowStart(w, e)
    PROVE  Once'
<1>1. PICK x \in Run : x = run'[w]
    BY DEF Types, RunsOK
<1>2. Goto(w, x) /\ x.pc \notin Delivering \cup {"batch"}
    BY <1>1, AsideGoes DEF Delivering
<1>3. run[w].pc \notin Looked
    BY DEF CronStart, ClaimEvents, FanOut, Finish, Unlock, ClaimNone, BatchEnd, NowStart, At, Looked
<1>4. UNCHANGED <<copies, shown, lapsed>>
    BY DEF CronStart, ClaimEvents, FanOut, Finish, Unlock, ClaimNone, BatchEnd, NowStart, messages
<1>5. /\ \A v \in Workers \ {w} : \A r \in Mine(v) : row'[r] = row[r]
      /\ \A r \in Rows : /\ row'[r].attempts = row[r].attempts
                         /\ row[r].st \in Final => row'[r].st \in Final
    <2>1. \A v \in Workers : \A r \in Mine(v) : r \in Rows /\ row[r].st = "processing" /\ ~ Stale(r)
        BY NotStale DEF Claims
    <2>2. CASE CronStart(w)
        BY <2>1, <2>2 DEF CronStart, ReleasedRows, Stale, Types, RowsOK, RowRecord, Final
    <2>3. CASE FanOut(w)
        <3>1. \A r \in Rows : \/ row'[r] = row[r]
                              \/ row[r].st = "none" /\ row'[r].attempts = row[r].attempts
            BY <2>3 DEF FanOut, Upserted, Types, RowsOK, RowRecord
        <3> QED
            BY <2>1, <3>1 DEF Final
    <2>4. CASE UNCHANGED row
        BY <2>4
    <2> QED
        BY <2>2, <2>3, <2>4 DEF ClaimEvents, Finish, Unlock, ClaimNone, BatchEnd, NowStart
<1> QED
    BY <1>2, <1>3, <1>4, <1>5, OnceAside

\* A run that ends: what it knew of a first sending, or of a mail, is lost.
LEMMA DieOnce ==
    ASSUME Types, Types', Claims, Once, NEW w \in Workers, Die(w)
    PROVE  Once'
<1>1. PICK x \in Run : x = run'[w]
    BY DEF Types, RunsOK
<1>2. Goto(w, x) /\ x.pc = "idle" /\ Sane(x)
    BY <1>1 DEF Types, RunsOK, Die, End, Goto, Idle
<1>3. Holds(x) = {} /\ x.batch = {}
    BY <1>2 DEF Sane, Holds, Delivering
<1>4. Work(x)'
    BY <1>2, <1>3 DEF Work, Holds
<1>5. UNCHANGED <<copies, shown, row>> /\ lapsed' = Unrecorded(w)
    BY DEF Die
<1>6. lapsed \subseteq lapsed'
    BY <1>5 DEF Unrecorded
<1>7. ASSUME NEW r \in Rows, run[w].r = r, run[w].pc \in Looked PROVE SentRow(r)'
    <2> SUFFICES ASSUME IsOut(r)' PROVE copies'[r] = 1 /\ ~ ByMail(r) /\ row'[r].attempts > 0
        BY DEF SentRow
    <2>1. r \notin lapsed' /\ copies[r] > 0
        BY <1>5 DEF IsOut
    <2>2. ~ ByMail(r) /\ run[w].seen[r] # 0
        BY <1>5, <1>7, <2>1 DEF Unrecorded, Looked
    <2>3. run[w].seen[r] = row[r].attempts
        BY <1>7, NoneIsNoRow DEF Once, Work, Holds
    <2>4. copies[r] = 1
        BY <1>6, <2>1 DEF Once, SentRow, IsOut
    <2>5. row[r].attempts \in Nat
        BY DEF Types, RowsOK, RowRecord
    <2> QED
        BY <1>5, <2>2, <2>3, <2>4, <2>5
<1> QED
    BY <1>2, <1>4, <1>5, <1>6, <1>7, OnceKept

\* What is claimed was not held: a row whose message is out was tried.
LEMMA ClaimOnce == ASSUME Types, Types', Claims, Once, NEW w \in Workers, Claim(w) PROVE Once'
<1>1. PICK rs \in SUBSET DueFor(w) :
          /\ row' = ClaimedRows(rs)
          /\ Goto(w, [run[w] EXCEPT
                !.pc = "batch", !.batch = rs, !.full = Cardinality(rs) = BatchSize,
                !.seen = [r \in Rows |-> IF r \in rs THEN row[r].attempts ELSE 0],
                !.from = run[w].ran, !.one = 0])
    BY DEF Claim
<1>2. rs \subseteq Rows /\ \A r \in rs : row[r].st = "pending"
    BY DEF DueFor, Due
<1> DEFINE seen == [r \in Rows |-> IF r \in rs THEN row[r].attempts ELSE 0]
           full == Cardinality(rs) = BatchSize
<1>3. PICK y \in Run : y = run[w] /\ y.r = None /\ y.pc = "claim"
    BY RunIs DEF Sane, Claim, At, Delivering
<1>4. \A r \in rs : seen[r] = row[r].attempts
    BY <1>2
<1>5. PICK x \in Run : x = run'[w]
    BY DEF Types, RunsOK
<1>6. Goto(w, [y EXCEPT !.pc = "batch", !.batch = rs, !.full = full, !.seen = seen,
                        !.from = y.ran, !.one = 0])
    BY <1>1, <1>3
<1> HIDE DEF seen, full
<1>7. x = [y EXCEPT !.pc = "batch", !.batch = rs, !.full = full, !.seen = seen,
                    !.from = y.ran, !.one = 0]
    BY <1>5, <1>6 DEF Types, RunsOK, Goto
<1>8. /\ x.pc = "batch" /\ x.batch = rs /\ x.seen = seen /\ x.from = x.ran /\ x.r = None
      /\ x.ran \in Nat
    BY <1>3, <1>7 DEF Run
<1>9. Goto(w, x)
    BY <1>6, <1>7
<1>10. UNCHANGED <<copies, shown, lapsed>>
    BY DEF Claim, messages
<1>11. \A r \in Rows : /\ row'[r].attempts = row[r].attempts
                       /\ r \notin rs => row'[r] = row[r]
                       /\ row[r].st \in Final => row'[r].st \in Final
    BY <1>1, <1>2 DEF ClaimedRows, Types, RowsOK, RowRecord, Final
<1>12. \A v \in Workers : \A r \in Mine(v) : r \in Rows /\ r \notin rs
    <2>1. \A v \in Workers : \A r \in Mine(v) : r \in Rows /\ row[r].st = "processing"
        BY NotStale DEF Claims
    <2> QED
        BY <1>2, <2>1
<1>13. ASSUME NEW r \in rs, IsOut(r) PROVE ~ ByMail(r) /\ row[r].attempts > 0
    <2>1. r \in Rows /\ row[r].st \notin Final
        BY <1>2 DEF Final
    <2>2. ASSUME NEW v \in Workers, run[v].r = r PROVE FALSE
        <3>1. r \in Mine(v)
            BY <2>1, <2>2, NoneIsNoRow DEF Mine
        <3> QED
            BY <1>12, <3>1
    <2> QED
        BY <1>13, <2>1, <2>2 DEF Once, SentRow
<1>14. Work(x)'
    <2>1. Holds(x) = rs
        BY <1>8 DEF Holds
    <2>2. \A r \in rs : Late(x, r)'
        <3> SUFFICES ASSUME NEW r \in rs PROVE shown'[r] >= x.ran - x.from
            BY DEF Late
        <3>1. shown[r] \in Nat
            BY <1>2 DEF Types, MessagesOK
        <3> QED
            BY <1>8, <1>10, <3>1
    <2> QED
        BY <1>2, <1>4, <1>8, <1>10, <1>11, <1>13, <2>1, <2>2 DEF Work, IsOut
<1>15. run[w].pc \notin Looked
    BY <1>3 DEF Looked
<1> QED
    BY <1>9, <1>10, <1>11, <1>12, <1>14, <1>15, OnceKept

\* A mail, and a first sending, goes out at once: nothing of it is out.
LEMMA StartOnce ==
    ASSUME Types, Types', Claims, Once, NEW w \in Workers, NEW r \in Rows, Start(w, r)
    PROVE  Once'
<1>1. PICK y \in Run : y = run[w] /\ Sane(y) /\ r \in y.batch /\ y.pc = "batch" /\ y.r = None
    BY RunIs DEF Start, At, Sane, Delivering
<1>2. PICK mine : mine = [y EXCEPT !.r = r, !.batch = @ \ {r}, !.one = 0]
    OBVIOUS
<1>3. /\ mine.r = r /\ mine.batch = y.batch \ {r} /\ mine.ran = y.ran /\ mine.from = y.from
      /\ mine.seen = y.seen /\ mine.out = y.out /\ DOMAIN mine = DOMAIN y
    BY <1>1, <1>2 DEF Run
<1>4. PICK x \in Run : x = run'[w]
    BY DEF Types, RunsOK
<1>5. \/ x = [mine EXCEPT !.out = "failed", !.pc = "mark"]
      \/ x = [mine EXCEPT !.pc = IF ByMail(r) \/ y.seen[r] = 0 THEN "send" ELSE "prior"]
    BY <1>1, <1>2, <1>4 DEF Start, Goto, Types, RunsOK
<1>6. /\ x.r = r /\ x.batch = y.batch \ {r} /\ x.ran = y.ran /\ x.from = y.from /\ x.seen = y.seen
      /\ \/ x.pc = "mark" /\ x.out = "failed"
         \/ x.pc = "send" /\ (ByMail(r) \/ y.seen[r] = 0)
         \/ x.pc = "prior" /\ ~ ByMail(r) /\ y.seen[r] # 0
    BY <1>1, <1>3, <1>5 DEF Run
<1>7. Goto(w, x)
    BY <1>1, <1>2, <1>4 DEF Start, Goto, Types, RunsOK
<1>8. UNCHANGED <<row, copies, shown, lapsed>>
    BY DEF Start, messages
<1>9. Holds(x) \subseteq Holds(y) /\ r \in Holds(y)
    BY <1>1, <1>6 DEF Holds
<1>10. Work(y)
    BY <1>1 DEF Once
<1>11. y.seen[r] = row[r].attempts /\ row[r].attempts \in Nat
    BY <1>9, <1>10 DEF Work, Types, RowsOK, RowRecord
<1>12. IsOut(r) => ~ ByMail(r) /\ row[r].attempts > 0 /\ Late(y, r)
    BY <1>1, <1>10 DEF Work
<1>13. \A q : (IsOut(q)' <=> IsOut(q)) /\ (Late(y, q) => Late(x, q)')
    BY <1>6, <1>8 DEF IsOut, Late
<1>14. Work(x)'
    BY <1>1, <1>6, <1>8, <1>9, <1>10, <1>11, <1>12, <1>13 DEF Work
<1>15. run[w].pc \notin Looked
    BY <1>1 DEF Looked
<1> QED
    BY <1>7, <1>8, <1>14, <1>15, OnceKept

\* A run that looks, or takes a decision: nothing goes out.
LEMMA LookOnce ==
    ASSUME Types, Types', Claims, Once, NEW w \in Workers, NEW r \in Rows, run[w].r = r,
           run[w].pc \in Delivering, NEW x \in Run, Goto(w, x),
           x.r = r, x.batch = run[w].batch, x.seen = run[w].seen, x.ran = run[w].ran,
           x.from = run[w].from, UNCHANGED <<row, copies, shown, lapsed>>,
           \/ x.pc = "send" /\ ~ IsOut(r) /\ run[w].pc = "prior"
           \/ /\ x.pc = "mark"
              /\ ~ ByMail(r)
              /\ x.out = "defer" => row[r].attempts > 0
    PROVE  Once'
<1>1. PICK y \in Run : y = run[w] /\ Sane(y) /\ Work(y)
    BY RunIs DEF Once
<1>2. Holds(x) = Holds(y)
    BY <1>1 DEF Holds
<1>3. \A q : (IsOut(q)' <=> IsOut(q)) /\ (Late(y, q) <=> Late(x, q)')
    BY <1>1 DEF IsOut, Late
<1>4. Work(x)'
    BY <1>1, <1>2, <1>3 DEF Work
<1>5. run'[w] = x
    BY GotoIs DEF Types
<1>6. ASSUME NEW q \in Rows, run[w].r = q, run[w].pc \in Looked PROVE SentRow(q)'
    <2>1. x.pc \in Looked /\ x.r = q
        BY <1>6 DEF Looked
    <2>2. IsOut(q)' => copies'[q] = 1
        BY <1>3 DEF Once, SentRow
    <2> QED
        BY <1>5, <2>1, <2>2 DEF SentRow
<1> QED
    BY <1>4, <1>6, OnceKept

\* The claim is old enough to send again only when the history shows what went
\* out before it.
LEMMA PriorOnce == ASSUME Types, Types', Claims, Once, NEW w \in Workers, Prior(w) PROVE Once'
<1>1. PICK y \in Run : y = run[w] /\ Sane(y) /\ Work(y) /\ y.pc = "prior"
    BY RunIs DEF Once, Prior, At
<1>2. PICK r \in Rows : y.r = r
    BY <1>1 DEF Sane, Delivering
<1>3. ~ ByMail(r) /\ row[r].attempts > 0 /\ (IsOut(r) => Late(y, r))
    BY <1>1, <1>2 DEF Work
<1>4. PICK x \in Run : x = run'[w]
    BY DEF Types, RunsOK
<1>5. UNCHANGED <<row, copies, shown, lapsed>>
    BY DEF Prior, messages
<1>6. PICK ev \in Evidence(r) :
          IF ev = "confirmed" THEN Mark(w, "sent")
          ELSE IF Decide(w, ev) = "wait" THEN Mark(w, "defer")
          ELSE IF Decide(w, ev) = "give_up" THEN Mark(w, "failed")
          ELSE Goto(w, [run[w] EXCEPT !.pc = "send"])
    BY <1>1, <1>2 DEF Prior
<1>7. CASE \E out : Mark(w, out)
    <2>1. PICK out : Goto(w, [y EXCEPT !.out = out, !.pc = "mark"])
        BY <1>1, <1>7 DEF Mark
    <2>2. x = [y EXCEPT !.out = out, !.pc = "mark"]
        BY <1>4, <2>1, GotoIs DEF Types
    <2>3. Goto(w, x)
        BY <2>1, <2>2
    <2>4. /\ x.pc = "mark" /\ x.r = r /\ x.batch = y.batch /\ x.seen = y.seen
          /\ x.ran = y.ran /\ x.from = y.from
        BY <1>1, <1>2, <2>2 DEF Run
    <2> QED
        BY <1>1, <1>2, <1>3, <1>5, <2>3, <2>4, LookOnce DEF Delivering
<1>8. CASE ~ \E out : Mark(w, out)
    <2>1. ev # "confirmed" /\ Decide(w, ev) \notin {"wait", "give_up"}
        BY <1>6, <1>8
    <2>2. Goto(w, [y EXCEPT !.pc = "send"])
        BY <1>1, <1>6, <2>1
    <2>3. ev = "absent" /\ ~ (y.ran - y.from < Grace)
        BY <1>1, <2>1 DEF Decide
    <2>4. ~ IsOut(r)
        <3> SUFFICES ASSUME IsOut(r) PROVE FALSE
            OBVIOUS
        <3>1. shown[r] < Grace
            BY <1>6, <2>3 DEF Evidence, IsOut
        <3>2. shown[r] >= y.ran - y.from
            BY <1>3, <3>1, Numbers DEF Late, Types, MessagesOK
        <3> QED
            BY <2>3, <3>1, <3>2, Numbers DEF Types, MessagesOK, Run
    <2>5. x = [y EXCEPT !.pc = "send"]
        BY <1>4, <2>2, GotoIs DEF Types
    <2>6. Goto(w, x)
        BY <2>2, <2>5
    <2>7. /\ x.pc = "send" /\ x.r = r /\ x.batch = y.batch /\ x.seen = y.seen
          /\ x.ran = y.ran /\ x.from = y.from
        BY <1>1, <1>2, <2>5 DEF Run
    <2> QED
        BY <1>1, <1>2, <1>5, <2>4, <2>6, <2>7, LookOnce DEF Delivering
<1> QED
    BY <1>7, <1>8

LEMMA FailureOnce == ASSUME Types, Types', Claims, Once, NEW w \in Workers, Failure(w) PROVE Once'
<1>1. PICK y \in Run : y = run[w] /\ Sane(y) /\ Work(y) /\ y.pc \in {"errored", "timedout"}
    BY RunIs DEF Once, Failure, At
<1>2. PICK r \in Rows : y.r = r
    BY <1>1 DEF Sane, Delivering
<1>3. ~ ByMail(r)
    BY <1>1, <1>2 DEF Work
<1>4. PICK x \in Run : x = run'[w]
    BY DEF Types, RunsOK
<1>5. UNCHANGED <<row, copies, shown, lapsed>>
    BY DEF Failure, messages
<1>6. PICK out \in {"sent", "late", "failed", "retry"} : Mark(w, out)
    BY DEF Failure
<1>7. Goto(w, [y EXCEPT !.out = out, !.pc = "mark"])
    BY <1>1, <1>6 DEF Mark
<1>8. x = [y EXCEPT !.out = out, !.pc = "mark"]
    BY <1>4, <1>7, GotoIs DEF Types
<1>9. Goto(w, x)
    BY <1>7, <1>8
<1>10. /\ x.pc = "mark" /\ x.out = out /\ x.r = r /\ x.batch = y.batch /\ x.seen = y.seen
       /\ x.ran = y.ran /\ x.from = y.from
    BY <1>1, <1>2, <1>8 DEF Run
<1> QED
    BY <1>1, <1>2, <1>3, <1>5, <1>6, <1>9, <1>10, LookOnce DEF Delivering

\* What a step of another run touches is its own row.
LEMMA OnlyMine ==
    ASSUME Types, Claims, NEW w \in Workers, NEW r \in Rows, run[w].r = r
    PROVE  /\ row[r].st = "processing"
           /\ \A v \in Workers \ {w} : \A q \in Mine(v) : q \in Rows /\ q # r
<1>1. r \in Mine(w)
    BY NoneIsNoRow DEF Mine
<1>2. row[r].st = "processing"
    BY <1>1, NotStale DEF Claims
<1>3. \A v \in Workers \ {w} : \A q \in Mine(v) : q \in Rows /\ q # r
    BY <1>1, NotStale DEF Claims, Apart
<1> QED
    BY <1>2, <1>3

\* What goes out was not out, and the run that sent it knows.
LEMMA SendingOnce == ASSUME Types, Types', Claims, Once, NEW w \in Workers, Send(w) PROVE Once'
<1>1. PICK y \in Run : y = run[w] /\ Sane(y) /\ Work(y) /\ y.pc = "send"
    BY RunIs DEF Once, Send, At
<1>2. PICK r \in Rows : y.r = r /\ r \notin y.batch
    BY <1>1 DEF Sane, Delivering
<1>3. ~ IsOut(r)
    BY <1>1, <1>2 DEF Work
<1>4. PICK x \in Run : x = run'[w]
    BY DEF Types, RunsOK
<1>5. PICK goes \in BOOLEAN :
        /\ Out(w, goes)
        /\ \/ Mark(w, "sent") /\ lapsed' = lapsed
           \/ Mark(w, "retry") /\ ByMail(r) /\ lapsed' = IF goes THEN lapsed \cup {r} ELSE lapsed
           \/ /\ Goto(w, [run[w] EXCEPT !.pc = "errored"]) \/ Goto(w, [run[w] EXCEPT !.pc = "timedout"])
              /\ ~ ByMail(r) /\ lapsed' = lapsed
    BY <1>1, <1>2 DEF Send
<1>6. PICK z \in {[y EXCEPT !.out = "sent", !.pc = "mark"], [y EXCEPT !.out = "retry", !.pc = "mark"],
                  [y EXCEPT !.pc = "errored"], [y EXCEPT !.pc = "timedout"]} :
        /\ Goto(w, z)
        /\ \/ z = [y EXCEPT !.out = "sent", !.pc = "mark"] /\ lapsed' = lapsed
           \/ /\ z = [y EXCEPT !.out = "retry", !.pc = "mark"]
              /\ ByMail(r) /\ lapsed' = IF goes THEN lapsed \cup {r} ELSE lapsed
           \/ /\ z \in {[y EXCEPT !.pc = "errored"], [y EXCEPT !.pc = "timedout"]}
              /\ ~ ByMail(r) /\ lapsed' = lapsed
    BY <1>1, <1>5 DEF Mark
<1>7. x = z /\ Goto(w, x)
    BY <1>4, <1>6, GotoIs DEF Types
<1>8. /\ x.r = r /\ x.batch = y.batch /\ x.seen = y.seen /\ x.ran = y.ran /\ x.from = y.from
      /\ \/ x.pc = "mark" /\ x.out = "sent" /\ lapsed' = lapsed
         \/ /\ x.pc = "mark" /\ x.out = "retry"
            /\ ByMail(r) /\ lapsed' = IF goes THEN lapsed \cup {r} ELSE lapsed
         \/ x.pc \in {"errored", "timedout"} /\ ~ ByMail(r) /\ lapsed' = lapsed
    BY <1>2, <1>6, <1>7 DEF Run
<1>9. \A q \in Rows \ {r} : copies'[q] = copies[q] /\ shown'[q] = shown[q]
    BY <1>1, <1>2, <1>5 DEF Out, Types, MessagesOK
<1>10. UNCHANGED row
    BY DEF Send
<1>11. lapsed \subseteq lapsed'
    BY <1>8
<1>12. IsOut(r)' => copies'[r] = 1 /\ (x.pc = "mark" /\ ByMail(r) => x.out = "sent")
    <2> SUFFICES ASSUME IsOut(r)' PROVE copies'[r] = 1 /\ (x.pc = "mark" /\ ByMail(r) => x.out = "sent")
        OBVIOUS
    <2>1. r \notin lapsed /\ r \notin lapsed' /\ copies[r] \in Nat /\ copies'[r] > 0
        BY <1>11 DEF IsOut, Types, MessagesOK
    <2>2. copies[r] = 0
        BY <1>3, <2>1 DEF IsOut
    <2>3. goes
        BY <1>1, <1>2, <1>5, <2>1, <2>2 DEF Out
    <2>4. copies'[r] = 1
        BY <1>1, <1>2, <1>5, <2>2, <2>3 DEF Out, Types, MessagesOK
    <2> QED
        BY <1>8, <2>1, <2>3, <2>4
<1>13. Work(x)'
    <2>1. Holds(x) = Holds(y)
        BY <1>2, <1>8 DEF Holds
    <2>2. \A q \in y.batch : q \in Rows \ {r}
        BY <1>1, <1>2 DEF Run
    <2>3. \A q \in y.batch : (IsOut(q)' => IsOut(q)) /\ (Late(y, q) => Late(x, q)')
        BY <1>8, <1>9, <1>11, <2>2 DEF IsOut, Late
    <2> QED
        BY <1>1, <1>8, <1>10, <1>12, <2>1, <2>3 DEF Work
<1>14. \A v \in Workers \ {w} : \A q \in Mine(v) : q \in Rows \ {r}
    BY <1>1, <1>2, OnlyMine
<1>15. ASSUME NEW q \in Rows
       PROVE  \/ SentRow(q)'
              \/ q # r
    <2>1. CASE q = r
        <3>1. run'[w].r = r /\ run'[w].pc \in Looked
            BY <1>4, <1>8 DEF Looked
        <3> QED
            BY <1>12, <2>1, <3>1 DEF SentRow
    <2> QED
        BY <2>1
<1> QED
    BY <1>1, <1>2, <1>7, <1>9, <1>10, <1>11, <1>13, <1>14, <1>15, OnceKept

\* What is recorded is final, or counts as tried.
LEMMA RecordOnce == ASSUME Types, Types', Claims, Once, NEW w \in Workers, Record(w) PROVE Once'
<1>1. PICK y \in Run : y = run[w] /\ Sane(y) /\ Work(y) /\ y.pc = "mark"
    BY RunIs DEF Once, Record, At
<1>2. PICK r \in Rows : y.r = r /\ r \notin y.batch
    BY <1>1 DEF Sane, Delivering
<1>3. row[r].st = "processing" /\ \A v \in Workers \ {w} : \A q \in Mine(v) : q \in Rows /\ q # r
    BY <1>1, <1>2, OnlyMine
<1>4. PICK x \in Run : x = run'[w]
    BY DEF Types, RunsOK
<1>5. Goto(w, [y EXCEPT !.pc = "batch", !.r = None, !.out = "none"])
    BY <1>1 DEF Record
<1>6. x = [y EXCEPT !.pc = "batch", !.r = None, !.out = "none"]
    BY <1>4, <1>5, GotoIs DEF Types
<1>7. Goto(w, x)
    BY <1>5, <1>6
<1>8. /\ x.pc = "batch" /\ x.r = None /\ x.batch = y.batch /\ x.seen = y.seen
      /\ x.ran = y.ran /\ x.from = y.from
    BY <1>6 DEF Run
<1>9. UNCHANGED <<copies, shown>>
    BY DEF Record
<1>10. \/ row' = [row EXCEPT ![r] = Outcome(w)] /\ lapsed' = lapsed
       \/ row' = row /\ lapsed' = Unrecorded(w)
    BY <1>1, <1>2, <1>3 DEF Record
<1>11. lapsed \subseteq lapsed'
    BY <1>10 DEF Unrecorded
<1>12. \A q \in Rows \ {r} : row'[q] = row[q]
    BY <1>10 DEF Types, RowsOK
<1>13. Work(x)'
    <2>1. \A q \in Holds(x) : q \in y.batch
        BY <1>8 DEF Holds
    <2>2. \A q \in y.batch : q \in Rows \ {r} /\ q \in Holds(y)
        BY <1>1, <1>2 DEF Run, Holds
    <2>3. \A q \in y.batch : (IsOut(q)' => IsOut(q)) /\ (Late(y, q) => Late(x, q)')
        BY <1>8, <1>9, <1>11 DEF IsOut, Late
    <2>4. \A q \in y.batch : row'[q] = row[q] /\ x.seen[q] = y.seen[q]
        BY <1>8, <1>12, <2>2
    <2> QED
        BY <1>1, <1>8, <2>1, <2>2, <2>3, <2>4 DEF Work
<1>14. y.seen[r] = row[r].attempts
    BY <1>1, <1>2, NoneIsNoRow DEF Work, Holds
<1>15. row[r] \in RowRecord
    BY DEF Types, RowsOK
<1>16. SentRow(r)'
    <2> SUFFICES ASSUME IsOut(r)'
                 PROVE  /\ copies'[r] = 1
                        /\ row'[r].st \in Final \/ (~ ByMail(r) /\ row'[r].attempts > 0)
        BY DEF SentRow
    <2>1. IsOut(r)
        BY <1>9, <1>11 DEF IsOut
    <2>2. copies'[r] = 1
        BY <1>9, <2>1 DEF Once, SentRow
    <2>3. CASE row' = [row EXCEPT ![r] = Outcome(w)] /\ lapsed' = lapsed
        <3>1. row'[r] = Outcome(w)
            BY <2>3 DEF Types, RowsOK
        <3>2. PICK c \in RowRecord : c = row[r]
            BY <1>15
        <3> DEFINE attempts == y.seen[r] + 1
                   delay == IF y.out = "late" /\ Grace > Backoff[attempts] THEN Grace
                            ELSE Backoff[attempts]
        <3>3. row'[r] =
                IF y.out = "defer" THEN [c EXCEPT !.st = "pending", !.wait = Grace, !.held = 0]
                ELSE IF y.out \in {"retry", "late"} /\ attempts < MaxAttempts
                THEN [c EXCEPT !.st = "pending", !.attempts = attempts, !.wait = delay, !.held = 0]
                ELSE [c EXCEPT !.st = IF y.out = "sent" THEN "sent" ELSE "failed",
                               !.attempts = attempts, !.wait = 0, !.age = 0, !.held = 0]
            BY <1>1, <1>2, <3>1, <3>2 DEF Outcome
        <3>4. attempts > 0
            BY <1>14, <1>15 DEF RowRecord
        <3> HIDE DEF attempts, delay
        <3>5. CASE y.out = "defer"
            <4>1. ~ ByMail(r) /\ row[r].attempts > 0
                BY <1>1, <1>2, <3>5 DEF Work
            <4>2. row'[r].attempts = c.attempts
                BY <3>3, <3>5 DEF RowRecord
            <4> QED
                BY <2>2, <3>2, <4>1, <4>2
        <3>6. CASE y.out # "defer"
            <4>1. ByMail(r) => y.out = "sent"
                BY <1>1, <1>2, <2>1 DEF Work
            <4>2. row'[r].attempts = attempts
                BY <3>3, <3>6 DEF RowRecord
            <4>3. y.out = "sent" => row'[r].st = "sent"
                BY <3>3, <3>6 DEF RowRecord
            <4> QED
                BY <2>2, <3>4, <4>1, <4>2, <4>3 DEF Final
        <3> QED
            BY <3>5, <3>6
    <2>4. CASE row' = row /\ lapsed' = Unrecorded(w)
        <3>1. r \notin Unrecorded(w) /\ copies[r] > 0
            BY <1>9, <2>4 DEF IsOut
        <3>2. ~ ByMail(r) /\ y.seen[r] # 0
            BY <1>1, <1>2, <3>1 DEF Unrecorded
        <3>3. row'[r].attempts > 0
            BY <1>14, <1>15, <2>4, <3>2 DEF RowRecord
        <3> QED
            BY <2>2, <3>2, <3>3
    <2> QED
        BY <1>10, <2>3, <2>4
<1> QED
    BY <1>1, <1>2, <1>3, <1>7, <1>9, <1>11, <1>12, <1>13, <1>16, OnceKept

\* The run and what went out before its claim grow older alike.
LEMMA TickOnce == ASSUME Types, Claims, Once, Tick PROVE Once'
<1>1. UNCHANGED <<copies, lapsed>>
    BY DEF Tick
<1>2. \A r : IsOut(r)' <=> IsOut(r)
    BY <1>1 DEF IsOut
<1>3. \A r \in Rows : row'[r].st = row[r].st /\ row'[r].attempts = row[r].attempts
    BY AgedOK DEF Types, Tick
<1>4. ASSUME NEW w \in Workers
      PROVE  \E x \in Run, d \in {0, 1} :
                /\ run'[w] = x /\ x.pc = run[w].pc /\ x.r = run[w].r /\ x.batch = run[w].batch
                /\ x.seen = run[w].seen /\ x.out = run[w].out /\ x.from = run[w].from
                /\ x.ran = run[w].ran + d
    <2>1. PICK y \in Run : y = run[w]
        BY RunIs
    <2>2. y.ran \in Nat /\ y.one \in Nat
        BY <2>1 DEF Run
    <2>3. CASE Busy(w)
        <3>1. PICK a \in Nat, b \in Nat : a = y.ran + 1 /\ b = y.one + 1
            BY <2>2
        <3>2. run'[w] = [y EXCEPT !.ran = a, !.one = b]
            BY <2>1, <2>3, <3>1 DEF Tick
        <3>3. PICK x : x = [y EXCEPT !.ran = a, !.one = b]
            OBVIOUS
        <3>4. x \in Run
            BY <3>1, <3>3 DEF Run
        <3>5. /\ x.pc = y.pc /\ x.r = y.r /\ x.batch = y.batch /\ x.seen = y.seen
              /\ x.out = y.out /\ x.from = y.from /\ x.ran = y.ran + 1
            BY <3>1, <3>3 DEF Run
        <3> QED
            BY <2>1, <3>2, <3>3, <3>4, <3>5
    <2>4. CASE ~ Busy(w)
        <3>1. run'[w] = y
            BY <2>1, <2>4 DEF Tick
        <3> QED
            BY <2>1, <2>2, <3>1
    <2> QED
        BY <2>3, <2>4
<1>5. ASSUME NEW w \in Workers PROVE Work(run[w])'
    <2>1. PICK y \in Run : y = run[w] /\ Sane(y) /\ Work(y)
        BY RunIs DEF Once
    <2>2. PICK x \in Run, d \in {0, 1} :
                /\ run'[w] = x /\ x.pc = y.pc /\ x.r = y.r /\ x.batch = y.batch
                /\ x.seen = y.seen /\ x.out = y.out /\ x.from = y.from
                /\ x.ran = y.ran + d
        BY <1>4, <2>1
    <2>3. Holds(x) = Holds(y) /\ Holds(y) = Mine(w)
        BY <2>1, <2>2 DEF Holds, Mine
    <2>4. \A r \in Holds(y) : r \in Rows /\ row[r].st = "processing"
        BY <2>3, NotStale DEF Claims
    <2>5. ASSUME NEW r \in Holds(y), IsOut(r), Late(y, r) PROVE Late(x, r)'
        <3>1. r \in Rows /\ row[r].st \notin Final
            BY <2>4, <2>5 DEF Final
        <3>2. shown[r] \in Nat /\ copies[r] \in Nat
            BY <3>1 DEF Types, MessagesOK
        <3>3. copies[r] # 0
            BY <2>5, <3>2 DEF IsOut
        <3>4. r \in Rows /\ shown'[r] = Older(shown[r], Grace) /\ shown[r] \in Nat
            BY <3>1, <3>2, <3>3 DEF Tick
        <3>5. shown'[r] >= Grace \/ shown'[r] = shown[r] + 1
            BY <3>4, Numbers DEF Older
        <3>6. shown[r] >= Grace => shown'[r] >= Grace
            BY <3>4, Numbers DEF Older
        <3>7. y.ran \in Nat /\ y.from \in Nat
            BY <2>1 DEF Run
        <3>8. shown[r] >= y.ran - y.from => shown'[r] >= Grace \/ shown'[r] >= x.ran - x.from
            BY <2>2, <3>4, <3>5, <3>7
        <3> QED
            BY <2>5, <3>6, <3>8 DEF Late
    <2>6. y.pc \in Delivering => y.r \in Holds(y)
        BY <2>1, NoneIsNoRow DEF Sane, Holds
    <2>7. \A r \in y.batch : r \in Holds(y)
        BY DEF Holds
    <2>8. \A r \in Holds(y) : row'[r].attempts = row[r].attempts
        BY <1>3, <2>4
    <2>9. Work(x)'
        BY <1>2, <2>1, <2>2, <2>3, <2>5, <2>6, <2>7, <2>8 DEF Work, Delivering
    <2> QED
        BY <2>2, <2>9 DEF Work, IsOut, Late
<1>6. ASSUME NEW r \in Rows PROVE SentRow(r)'
    <2>1. SentRow(r)
        BY DEF Once
    <2>2. \A w \in Workers : run'[w].r = run[w].r /\ run'[w].pc = run[w].pc
        BY <1>4
    <2> QED
        BY <1>1, <1>2, <1>3, <2>1, <2>2 DEF SentRow
<1> QED
    BY <1>5, <1>6 DEF Once

LEMMA NextOnce == ASSUME Types, Claims, Once, [Next]_vars PROVE Once'
<1>1. Types'
    BY NextTypes
<1>2. ASSUME NEW w \in Workers, Working(w) PROVE Once'
    BY <1>1, <1>2, AsideOnce, ClaimOnce, StartOnce, PriorOnce, SendingOnce, FailureOnce, RecordOnce
    DEF Working
<1>3. CASE UNCHANGED <<row, copies, shown, run, lapsed>>
    BY <1>3 DEF Once, Work, SentRow, IsOut, Late
<1>4. ASSUME NEW e \in Events, Emit(e) PROVE Once'
    BY <1>3, <1>4 DEF Emit, messages
<1> QED
    BY <1>1, <1>2, <1>3, <1>4, TickOnce, AsideOnce, DieOnce DEF Next, vars

LEMMA InitOnce == Init => Once
<1> SUFFICES ASSUME Init PROVE Once
    OBVIOUS
<1>1. \A r \in Rows : ~ IsOut(r)
    BY DEF Init, IsOut
<1>2. \A w \in Workers : run[w] = Idle
    BY DEF Init
<1>3. Idle.pc = "idle" /\ Idle.batch = {} /\ Idle.r = None
    BY DEF Idle
<1>4. Work(Idle)
    BY <1>3 DEF Work, Holds
<1> QED
    BY <1>1, <1>2, <1>4 DEF Once, SentRow

\* A message goes out once, whatever is not answered, answered late or cannot be
\* looked up, for any times: unless the first sending was not recorded, or it
\* was a mail without an answer (decideWhatsappRetry, deliverOne).
THEOREM GoesOutOnce == Spec => []SentOnce
<1>1. Types /\ Claims /\ Once /\ [Next]_vars => Types' /\ Claims' /\ Once'
    BY NextTypes, NextClaims, NextOnce
<1>2. Spec => [](Types /\ Claims /\ Once)
    BY <1>1, InitTypes, InitClaims, InitOnce, PTL DEF Spec
<1>3. Types /\ Once => SentOnce
    <2> SUFFICES ASSUME Types, Once, NEW r \in Rows \ lapsed PROVE copies[r] <= 1
        BY DEF SentOnce
    <2>1. copies[r] \in Nat /\ SentRow(r)
        BY DEF Types, MessagesOK, Once
    <2> QED
        BY <2>1 DEF SentRow, IsOut
<1> QED
    BY <1>2, <1>3, PTL
=============================================================================
