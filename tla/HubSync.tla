------------------------------ MODULE HubSync -------------------------------
(***************************************************************************)
(* The outbox as a whole: the hub (PosSyncQueue) and Nest (SyncService)    *)
(* with requests in flight between them.  The properties are about what    *)
(* the idempotency convention of docs/plans/kellner-event-protocol.md is   *)
(* for: what the waiters did on the hub arrives in the cloud, once.        *)
(***************************************************************************)
EXTENDS PosSyncQueue, SyncService

vars == <<hubVars, nestVars, channelVars>>

TypeOK == HubTypeOK /\ NestTypeOK /\ ChannelTypeOK

Init == HubInit /\ NestInit /\ ChannelInit

\* PosRuntime.pullCloudBootstrap: applyBootstrap replaces the floor by the
\* active sessions of the cloud.
PullBootstrap ==
    /\ Fault("pull")
    /\ floor' = {<<c, sess[c].table>> : c \in {d \in Clouds : IsActive(d)}}
    /\ UNCHANGED <<items, flush, idMap, asked, acked, nestVars, calls, conn, reply>>

HubStep == (Enqueuing \/ Flushing \/ HubFaults) /\ UNCHANGED nestVars
NestStep ==
    ((\E h \in Handlers : Ingest(h)) \/ NestFaults \/ CloseRegister \/ OpenRegister)
    /\ UNCHANGED hubVars

Next == HubStep \/ NestStep \/ PullBootstrap

Spec == Init /\ [][Next]_vars

\* The flush is started again and again (startPeriodicFlush, every 20 s), its
\* loop goes on while the app lives, Nest works on what it was sent, and a
\* closed till is opened the next day.
Fairness ==
    /\ WF_vars(Flushing /\ UNCHANGED nestVars)
    /\ \A h \in Handlers : WF_vars(Ingest(h) /\ UNCHANGED hubVars)
    /\ WF_vars(OpenRegister /\ UNCHANGED hubVars)

FairSpec == Spec /\ Fairness

-----------------------------------------------------------------------------
(* Safety *)

Ids(s) == {s[n].id : n \in 1 .. Len(s)}
Increasing(s) == \A m, n \in 1 .. Len(s) : m < n => s[m].id < s[n].id
Before(s, t) == \A m \in 1 .. Len(s), n \in 1 .. Len(t) : s[m].id < t[n].id

\* The queue keeps the order in which the waiters acted, with no entry twice,
\* across flushes that keep some entries, stop offline, or are cut off by a
\* crash; so does what a running flush has kept and has still to send.
QueueInOrder ==
    /\ Increasing(items)
    /\ Increasing(flush.kept)
    /\ Increasing(flush.rest)
    /\ Before(flush.kept, flush.rest)

\* An entry is dropped as synced only when Nest has stored its key, so a
\* retry after a crash can never find the key unknown.
AckedIsLogged ==
    \A n \in acked :
        \E e \in log : \E r \in Refs : e.key = Key([asked[n] EXCEPT !.ref = r])

\* An event Nest applied to a session was meant for that session: what the
\* waiter booked on a local session is never booked on another table's.
NoCrossBooking ==
    \A k \in 1 .. Len(effects) :
        LET e == effects[k]
            a == asked[e.id]
        IN  e.kind # "open" => e.sid = a.ref \/ e.sid = idMap[a.ref]

\* No event is carried out twice, whatever is retried (ingest and its key).
AppliedAtMostOnce ==
    \A j, k \in 1 .. Len(effects) : effects[j].id = effects[k].id => j = k

\* What the hub drops as synced has been carried out by Nest.
AckedIsApplied ==
    \A n \in acked : \E k \in 1 .. Len(effects) : effects[k].id = n

\* Two parties, opened on the hub one after the other, never share a session
\* of the cloud (and so never a bill).
SessionsStaySeparate ==
    \A a, b \in Locals : idMap[a] # None /\ idMap[a] = idMap[b] => a = b

\* Nothing a waiter did disappears: it is in the queue, or Nest has it.
NothingLost ==
    \A n \in 1 .. Len(asked) :
        n \in acked \cup Ids(items) \cup Ids(flush.kept) \cup Ids(flush.rest)

-----------------------------------------------------------------------------
(* Steps *)

\* A session id, once mapped, keeps its meaning.
MappingIsStable ==
    [][\A r \in Refs : idMap[r] # None => idMap'[r] = idMap[r]]_vars

\* The promise of the outbox: what was asked for is carried out, in the order
\* in which it was asked for, each thing once, and in the end all of it.
Promise == INSTANCE OutboxPromise
           WITH carried <- [k \in 1 .. Len(effects) |-> effects[k].id]

PromiseKept == Promise!FairSpec

(* Liveness *)

\* When the faults end, the queue gets empty.
QueueDrains == <>[](items = <<>>)
=============================================================================
