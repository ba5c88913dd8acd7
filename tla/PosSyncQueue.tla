---------------------------- MODULE PosSyncQueue ----------------------------
(***************************************************************************)
(* The hub side of the outbox: PosSyncQueue, PosSessionIdMap and the floor *)
(* of PosHubState (apps/pos/Sources/Store), with the callers in PosRuntime *)
(* that put entries into the queue.  All of it runs on the main actor, so  *)
(* what happens between two awaits is one step; every POST to Nest is an   *)
(* await, during which the other handlers of the hub may run.              *)
(***************************************************************************)
EXTENDS HubChannel

CONSTANTS
    UserOps,    \* the operations the waiters perform in this instance
    MaxItems    \* how many entries are enqueued in a behaviour (bound)

ASSUME MaxItemsAssumption == MaxItems \in Nat

VARIABLES
    floor,      \* PosHubState.bootstrap.floor.openSessions: <<session, table>>
    items,      \* PosSyncQueue.items, equal to sync-queue.json
    flush,      \* the local variables of a running flushIfPossible
    idMap,      \* PosSessionIdMap.localToCloud
    asked,      \* history: what the waiters did, in order
    acked       \* history: ids of the entries a flush counted as synced

hubVars == <<floor, items, flush, idMap, asked, acked>>

Phases == {"idle", "step", "waiting"}
NoFlush == [phase |-> "idle", rest |-> <<>>, kept |-> <<>>]

HubTypeOK ==
    /\ floor \subseteq Refs \X Tables
    /\ items \in Seq(Item)
    /\ flush \in [phase: Phases, rest: Seq(Item), kept: Seq(Item)]
    /\ idMap \in [Refs -> Refs \cup {None}]
    /\ asked \in Seq(Item)
    /\ acked \subseteq Nat

HubInit ==
    /\ floor = {}
    /\ items = <<>>
    /\ flush = NoFlush
    /\ idMap = [r \in Refs |-> None]
    /\ asked = <<>>
    /\ acked = {}

-----------------------------------------------------------------------------
(* PosSessionIdMap *)

Resolve(r) == IF idMap[r] # None THEN idMap[r] ELSE r

\* remember: keys that pointed to the local id follow it to the cloud id.
Remembered(l, c) ==
    [r \in Refs |-> IF r = l \/ idMap[r] = l THEN c ELSE idMap[r]]

\* PosHubState.remapSessionId: the first floor entry of l gets the cloud id.
Remapped(l, c) ==
    LET mine == {p \in floor : p[1] = l}
    IN  IF mine = {} \/ l = c THEN {floor}
        ELSE {(floor \ {p}) \cup {<<c, p[2]>>} : p \in mine}

\* Mutant: every entry behind the open is taken for one of its session.
RewrittenAll(s, l, c) ==
    [n \in 1 .. Len(s) |-> IF s[n].kind = "open" THEN s[n] ELSE [s[n] EXCEPT !.ref = c]]

\* remapQueueItem over the entries that are still to be processed; an open
\* keeps its local session id.
Rewritten(s, l, c) ==
    [n \in 1 .. Len(s) |->
        IF s[n].kind # "open" /\ s[n].ref = l THEN [s[n] EXCEPT !.ref = c]
        ELSE s[n]]

-----------------------------------------------------------------------------
(* Enqueueing *)

Quiet == flush.phase = "idle" \/ "midflush" \in Allowed

\* enqueueX: the session id is resolved through the map, except for an open.
Enqueue(kind, r, t) ==
    /\ Quiet
    /\ Len(asked) < MaxItems
    /\ LET done == [id |-> Len(asked) + 1, kind |-> kind, ref |-> r, table |-> t]
           ref  == IF kind = "open" THEN r ELSE Resolve(r)
       IN  /\ asked' = Append(asked, done)
           /\ items' = Append(items, [done EXCEPT !.ref = ref])
    /\ UNCHANGED <<flush, idMap, acked, channelVars>>

FreshLocals ==
    {l \in Locals : /\ \A n \in 1 .. Len(asked) : asked[n].ref # l
                    /\ \A p \in floor : p[1] # l}

TableIsFree(t) == \A p \in floor : p[2] # t

\* openSessionPath on the LAN: openLocalSession makes a session for a free
\* table and returns the existing one otherwise; an open is enqueued anyway.  In the
\* code the enqueue is a task of the main actor that follows the change of the floor
\* (handleHubRequest); here, and wherever the floor changes, both are one step.
OpenTable(t) ==
    /\ "open" \in UserOps
    /\ TableIsFree(t)
    /\ \E l \in FreshLocals :
          /\ floor' = floor \cup {<<l, t>>}
          /\ Enqueue("open", l, t)

ReopenTable(t) ==
    /\ "reopen" \in UserOps
    /\ \E p \in floor : p[2] = t /\ Enqueue("open", p[1], t)
    /\ UNCHANGED floor

\* sendCart falling back to the queue, and createOrderPath for a known table.
CreateOrder ==
    /\ "order" \in UserOps
    /\ \E p \in floor : Enqueue("order", p[1], None)
    /\ UNCHANGED floor

\* createOrderPath for a table without a session: openLocalSession makes one,
\* and only the order is enqueued.
OrderOnFreeTable(t) ==
    /\ "lanorder" \in UserOps
    /\ TableIsFree(t)
    /\ \E l \in FreshLocals :
          /\ floor' = floor \cup {<<l, t>>}
          /\ Enqueue("order", l, None)

CollectCash ==
    /\ "pay" \in UserOps
    /\ \E p \in floor : Enqueue("pay", p[1], None)
    /\ UNCHANGED floor

FireCourse ==
    /\ "fire" \in UserOps
    /\ \E p \in floor : Enqueue("fire", p[1], None)
    /\ UNCHANGED floor

\* A move of the session to this table was asked for before.
WasMovedTo(r, t) ==
    \E n \in 1 .. Len(asked) :
        asked[n].kind = "move" /\ asked[n].table = t /\ Resolve(asked[n].ref) = Resolve(r)

\* moveSession: moveLocalSession refuses an occupied target.
MoveSession(t) ==
    /\ "move" \in UserOps
    /\ TableIsFree(t)
    /\ \E p \in floor :
          /\ WasMovedTo(p[1], t) => "return" \in Allowed
          /\ floor' = (floor \ {p}) \cup {<<p[1], t>>}
          /\ Enqueue("move", p[1], t)

\* releaseTable: releaseLocalSession removes every entry of the session.
ReleaseSession ==
    /\ "release" \in UserOps
    /\ \E p \in floor :
          /\ floor' = {q \in floor : q[1] # p[1]}
          /\ Enqueue("release", p[1], None)

Enqueuing ==
    \/ \E t \in Tables : \/ OpenTable(t)
                         \/ ReopenTable(t)
                         \/ OrderOnFreeTable(t)
                         \/ MoveSession(t)
    \/ CreateOrder
    \/ CollectCash
    \/ FireCourse
    \/ ReleaseSession

-----------------------------------------------------------------------------
(* flushIfPossible *)

\* The queue is copied; new entries go to items, the loop runs over the copy.
FlushStart ==
    /\ flush.phase = "idle"
    /\ items # <<>>
    /\ flush' = [phase |-> "step", rest |-> items, kept |-> <<>>]
    /\ UNCHANGED <<floor, items, idMap, asked, acked, channelVars>>

\* The entry with its session id resolved, as it is sent (and kept on error).
Outgoing ==
    LET i == Head(flush.rest)
    IN  IF i.kind = "open" THEN i ELSE [i EXCEPT !.ref = Resolve(i.ref)]

RestOut == <<Outgoing>> \o Tail(flush.rest)

Send(h) ==
    /\ flush.phase = "step"
    /\ flush.rest # <<>>
    /\ calls[h].stage = "idle"
    /\ calls' = [calls EXCEPT ![h] = [IdleCall EXCEPT !.stage = "received",
                                                      !.item = Outgoing]]
    /\ conn' = h
    /\ flush' = [flush EXCEPT !.phase = "waiting", !.rest = RestOut]
    /\ UNCHANGED <<floor, items, idMap, asked, acked, reply, faults>>

\* Mutant: the entry that was being sent is not put back.
StopOfflineDropping ==
    /\ items' = flush.kept \o Tail(RestOut)
    /\ flush' = NoFlush
    /\ UNCHANGED <<floor, idMap, asked, acked>>

\* Mutant: what was not tried goes in front of what was kept.
StopOfflineSwapped ==
    /\ items' = RestOut \o flush.kept
    /\ flush' = NoFlush
    /\ UNCHANGED <<floor, idMap, asked, acked>>

\* Mutant: the early exit forgets "defer { isFlushing = false }".
StopOfflineStuck ==
    /\ items' = flush.kept \o RestOut
    /\ flush' = [flush EXCEPT !.phase = "waiting"]
    /\ UNCHANGED <<floor, idMap, asked, acked>>

\* PosCloudError.offline: the entry and everything behind it stay in the
\* queue and the loop ends.
StopOffline ==
    /\ items' = flush.kept \o RestOut
    /\ flush' = NoFlush
    /\ UNCHANGED <<floor, idMap, asked, acked>>

\* Any other error: the entry stays, the loop goes on with the NEXT one.
KeepAndGoOn ==
    /\ flush' = [phase |-> "step", rest |-> Tail(flush.rest),
                 kept |-> Append(flush.kept, Outgoing)]
    /\ UNCHANGED <<floor, items, idMap, asked, acked>>

\* The request did not reach Nest.
SendFails ==
    /\ flush.phase = "step"
    /\ flush.rest # <<>>
    /\ \/ Fault("timeout") /\ StopOffline
       \/ Fault("httperror") /\ KeepAndGoOn
    /\ UNCHANGED <<calls, conn, reply>>

\* The answer is late or lost, or a gateway answers in place of Nest, while
\* Nest may still be working on the request.
GiveUp ==
    /\ flush.phase = "waiting"
    /\ reply = NoReply
    /\ \/ Fault("timeout") /\ StopOffline
       \/ Fault("httperror") /\ KeepAndGoOn
    /\ conn' = None
    /\ UNCHANGED <<calls, reply>>

\* Mutant: a rejection counts as synced, too.
SyncedStatusesAll == {"applied", "duplicate", "rejected"}

\* The answers on which an entry leaves the queue.
SyncedStatuses == {"applied", "duplicate"}

\* Mutant: an open is mapped without a session id in the result.
OpensAlways(i) == i.kind = "open"

\* An open whose result names a session.
Opens(i) == i.kind = "open" /\ reply.sid # None

\* A synced entry is done; an open that was given a session id maps it in
\* the id map, on the floor, and in the rest of the working copy.
Synced ==
    /\ flush.phase = "waiting"
    /\ reply.status \in SyncedStatuses
    /\ LET i == Head(flush.rest)
           tail == Tail(flush.rest)
       IN  /\ acked' = acked \cup {i.id}
           /\ IF Opens(i)
              THEN /\ idMap' = Remembered(i.ref, reply.sid)
                   /\ floor' \in Remapped(i.ref, reply.sid)
                   /\ flush' = [flush EXCEPT !.phase = "step",
                                    !.rest = Rewritten(tail, i.ref, reply.sid)]
              ELSE /\ flush' = [flush EXCEPT !.phase = "step", !.rest = tail]
                   /\ UNCHANGED <<idMap, floor>>
    /\ conn' = None
    /\ reply' = NoReply
    /\ UNCHANGED <<items, asked, calls, faults>>

Refused ==
    /\ flush.phase = "waiting"
    /\ \/ reply.status = "rejected" /\ KeepAndGoOn
       \/ reply.status = "reset" /\ StopOffline
    /\ conn' = None
    /\ reply' = NoReply
    /\ UNCHANGED <<calls, faults>>

\* items is replaced by what the loop kept, whatever was appended meanwhile.
FlushEnd ==
    /\ flush.phase = "step"
    /\ flush.rest = <<>>
    /\ items' = flush.kept
    /\ flush' = NoFlush
    /\ UNCHANGED <<floor, idMap, asked, acked, channelVars>>

\* The app is killed and restarted: the files are what is left.
HubCrash ==
    /\ flush.phase # "idle"
    /\ Fault("hubcrash")
    /\ flush' = NoFlush
    /\ conn' = None
    /\ reply' = NoReply
    /\ UNCHANGED <<floor, items, idMap, asked, acked, calls>>

Flushing ==
    \/ FlushStart
    \/ \E h \in Handlers : Send(h)
    \/ Synced
    \/ Refused
    \/ FlushEnd

HubFaults == SendFails \/ GiveUp \/ HubCrash
=============================================================================
