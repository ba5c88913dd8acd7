---------------------------- MODULE SyncService -----------------------------
(***************************************************************************)
(* The Nest side of the outbox: SyncService.ingest (apps/pos-api/src/sync) *)
(* with the table pos_sync_events, and the services applyEvent calls.      *)
(* Requests run concurrently and every await of ingest is a step of its    *)
(* own: the lookup of the key, applyEvent, and the insert of the key.  The *)
(* services are one step each here; NestFloor takes them apart.            *)
(***************************************************************************)
EXTENDS HubChannel

VARIABLES
    sess,       \* pos_table_sessions: Clouds -> [table, st]
    register,   \* is a pos_register_sessions row open?
    log,        \* pos_sync_events: the keys and their stored results
    effects     \* history: the events that were carried out, in order

nestVars == <<sess, register, log, effects>>

NoSession == [table |-> None, st |-> "none"]
Session == [table: Tables, st: {"open", "paid", "closed"}]

NestTypeOK ==
    /\ sess \in [Clouds -> Session \cup {NoSession}]
    /\ register \in BOOLEAN
    /\ log \subseteq [key: Keys, sid: Clouds \cup {None}]
    /\ effects \in Seq([id: Nat, kind: Kinds, sid: Clouds])

NestInit ==
    /\ sess = [c \in Clouds |-> NoSession]
    /\ register = TRUE
    /\ log = {}
    /\ effects = <<>>

Exists(r) == r \in Clouds /\ sess[r].st # "none"
IsActive(c) == sess[c].st \in {"open", "paid"}
ActiveAt(t) == {c \in Clouds : IsActive(c) /\ sess[c].table = t}

\* Mutant: the lookup never finds anything.
LoggedNever(k) == FALSE

\* Is the key stored in pos_sync_events?
Logged(k) == \E e \in log : e.key = k

-----------------------------------------------------------------------------
(* ingest *)

\* The lookup is over and applyEvent is called.
Proceed(h) == calls' = [calls EXCEPT ![h].stage = "checked"]

\* applyEvent has returned.
Return(h, ok, sid) ==
    calls' = [calls EXCEPT ![h].stage = "applied", ![h].ok = ok, ![h].sid = sid]

\* The answer is ready.
Finish(h, status, sid) ==
    calls' = [calls EXCEPT ![h].stage = "done", ![h].status = status, ![h].sid = sid]

\* A key that is already stored is answered with its result.
LookupHit(h) ==
    /\ calls[h].stage = "received"
    /\ \E e \in log :
          /\ e.key = Key(calls[h].item)
          /\ Finish(h, "duplicate", e.sid)
    /\ UNCHANGED <<nestVars, conn, reply, faults>>

LookupMiss(h) ==
    /\ calls[h].stage = "received"
    /\ ~Logged(Key(calls[h].item))
    /\ Proceed(h)
    /\ UNCHANGED <<nestVars, conn, reply, faults>>

\* ingest reads only "data" of the lookup: a failed query looks like a miss.
LookupError(h) ==
    /\ calls[h].stage = "received"
    /\ Fault("dberror")
    /\ Proceed(h)
    /\ UNCHANGED <<nestVars, conn, reply>>

Changed(i, c) ==
    effects' = Append(effects, [id |-> i.id, kind |-> i.kind, sid |-> c])

Applying(h, kind) == calls[h].stage = "checked" /\ calls[h].item.kind = kind

\* SessionsService.open: the active session of the table, or a new row.
ApplyOpen(h) ==
    LET i == calls[h].item
    IN  /\ Applying(h, "open")
        /\ register
        /\ \/ \E c \in ActiveAt(i.table) :
                 /\ Return(h, TRUE, c)
                 /\ Changed(i, c)
                 /\ UNCHANGED sess
           \/ /\ ActiveAt(i.table) = {}
              /\ \E c \in Clouds :
                    /\ sess[c].st = "none"
                    /\ sess' = [sess EXCEPT ![c] = [table |-> i.table, st |-> "open"]]
                    /\ Return(h, TRUE, c)
                    /\ Changed(i, c)
        /\ UNCHANGED <<register, log, conn, reply, faults>>

\* OrdersService.createOrder
ApplyOrder(h) ==
    LET i == calls[h].item
    IN  /\ Applying(h, "order")
        /\ register
        /\ Exists(i.ref) /\ sess[i.ref].st = "open"
        /\ Return(h, TRUE, None)
        /\ Changed(i, i.ref)
        /\ UNCHANGED <<sess, register, log, conn, reply, faults>>

\* PaymentsService.collectCash: the amounts are not modelled here, so the
\* payment may settle the session or leave something open.
ApplyPayment(h) ==
    LET i == calls[h].item
    IN  /\ Applying(h, "pay")
        /\ register
        /\ Exists(i.ref) /\ sess[i.ref].st = "open"
        /\ \E st \in {"open", "paid"} : sess' = [sess EXCEPT ![i.ref].st = st]
        /\ Return(h, TRUE, None)
        /\ Changed(i, i.ref)
        /\ UNCHANGED <<register, log, conn, reply, faults>>

\* OrdersService.fireCourse looks at the orders only: an unknown session has
\* none and the event succeeds without firing anything.
ApplyFire(h) ==
    LET i == calls[h].item
    IN  /\ Applying(h, "fire")
        /\ Return(h, TRUE, None)
        /\ IF Exists(i.ref) THEN Changed(i, i.ref) ELSE UNCHANGED effects
        /\ UNCHANGED <<sess, register, log, conn, reply, faults>>

\* SessionsService.moveTable
ApplyMove(h) ==
    LET i == calls[h].item
    IN  /\ Applying(h, "move")
        /\ Exists(i.ref) /\ IsActive(i.ref)
        /\ ActiveAt(i.table) = {}
        /\ sess' = [sess EXCEPT ![i.ref].table = i.table]
        /\ Return(h, TRUE, None)
        /\ Changed(i, i.ref)
        /\ UNCHANGED <<register, log, conn, reply, faults>>

\* Mutant: the session is released without being closed.
ApplyReleaseKeeping(h) ==
    LET i == calls[h].item
    IN  /\ Applying(h, "release")
        /\ Exists(i.ref) /\ IsActive(i.ref)
        /\ Return(h, TRUE, None)
        /\ Changed(i, i.ref)
        /\ UNCHANGED <<sess, register, log, conn, reply, faults>>

\* SessionsService.release
ApplyRelease(h) ==
    LET i == calls[h].item
    IN  /\ Applying(h, "release")
        /\ Exists(i.ref) /\ IsActive(i.ref)
        /\ sess' = [sess EXCEPT ![i.ref].st = "closed"]
        /\ Return(h, TRUE, None)
        /\ Changed(i, i.ref)
        /\ UNCHANGED <<register, log, conn, reply, faults>>

\* The refusals of the services: register_closed, session_not_found,
\* session_not_orderable, session_not_active, target_occupied, and, for a
\* payment, the refusals that depend on lines and amounts.
Refusal(i) ==
    \/ i.kind \in {"open", "order", "pay"} /\ ~register
    \/ i.kind \in {"order", "pay"} /\ ~(Exists(i.ref) /\ sess[i.ref].st = "open")
    \/ i.kind = "pay"
    \/ i.kind \in {"move", "release"} /\ ~(Exists(i.ref) /\ IsActive(i.ref))
    \/ i.kind = "move" /\ ActiveAt(i.table) # {}

ApplyRefused(h) ==
    /\ calls[h].stage = "checked"
    /\ Refusal(calls[h].item)
    /\ Return(h, FALSE, None)
    /\ UNCHANGED <<nestVars, conn, reply, faults>>

\* pos_sync_events.session_id references pos_table_sessions.
ForeignKeyHolds(i) == i.kind = "open" \/ Exists(i.ref)

\* The insert of the key, after the event was applied - or refused.
InsertKey(h) ==
    LET i == calls[h].item
    IN  /\ calls[h].stage = "applied"
        /\ ForeignKeyHolds(i)
        /\ ~Logged(Key(i))
        /\ log' = log \cup {[key |-> Key(i), sid |-> calls[h].sid]}
        /\ Finish(h, IF calls[h].ok THEN "applied" ELSE "rejected", calls[h].sid)
        /\ UNCHANGED <<sess, register, effects, conn, reply, faults>>

\* Mutant: the loser of the race answers with its own result.
LateResultOwn(h) == calls[h].sid

\* The result that goes with a 23505: none.
LateResult(h) == None

\* 23505: somebody stored the key first; the answer carries no result.
InsertDuplicate(h) ==
    /\ calls[h].stage = "applied"
    /\ Logged(Key(calls[h].item))
    /\ Finish(h, "duplicate", LateResult(h))
    /\ UNCHANGED <<nestVars, conn, reply, faults>>

\* Any other insert error is answered as a rejection; nothing is stored.
InsertFails(h) ==
    /\ calls[h].stage = "applied"
    /\ ~Logged(Key(calls[h].item))
    /\ \/ ~ForeignKeyHolds(calls[h].item) /\ UNCHANGED faults
       \/ Fault("dberror")
    /\ Finish(h, "rejected", None)
    /\ UNCHANGED <<nestVars, conn, reply>>

\* The answer reaches the hub only if it still waits for this request.
Answer(h) ==
    /\ calls[h].stage = "done"
    /\ calls' = [calls EXCEPT ![h] = IdleCall]
    /\ reply' = IF conn = h
                THEN [status |-> calls[h].status, sid |-> calls[h].sid]
                ELSE reply
    /\ UNCHANGED <<nestVars, conn, faults>>

\* The Nest process dies: its requests are gone, the database stays.
NestCrash ==
    /\ \E h \in Handlers : calls[h].stage # "idle"
    /\ Fault("nestcrash")
    /\ calls' = [h \in Handlers |-> IdleCall]
    /\ reply' = IF conn # None /\ calls[conn].stage # "idle"
                THEN [status |-> "reset", sid |-> None] ELSE reply
    /\ UNCHANGED <<nestVars, conn>>

\* The till is opened and closed by the web application.
CloseRegister ==
    /\ register
    /\ Fault("register")
    /\ register' = FALSE
    /\ UNCHANGED <<sess, log, effects, calls, conn, reply>>

OpenRegister ==
    /\ ~register
    /\ register' = TRUE
    /\ UNCHANGED <<sess, log, effects, channelVars>>

Ingest(h) ==
    \/ LookupHit(h) \/ LookupMiss(h)
    \/ ApplyOpen(h) \/ ApplyOrder(h) \/ ApplyPayment(h) \/ ApplyFire(h)
    \/ ApplyMove(h) \/ ApplyRelease(h) \/ ApplyRefused(h)
    \/ InsertKey(h) \/ InsertDuplicate(h) \/ InsertFails(h)
    \/ Answer(h)

NestFaults == NestCrash \/ (\E h \in Handlers : LookupError(h))
=============================================================================
