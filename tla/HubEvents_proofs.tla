-------------------------- MODULE HubEvents_proofs --------------------------
(***************************************************************************)
(* What becomes of the single entry on its way from the waiter to Nest and *)
(* back: proofs about HubSync on top of its inductive invariant.  They     *)
(* follow the entry through the queue, the working copy of a flush and the *)
(* requests, for every set of sessions, tables and requests.  The last     *)
(* part shows what all entries together come to: Nest does what was asked, *)
(* in order, and its sessions are where that puts them.                    *)
(***************************************************************************)
EXTENDS HubSync_proofs

-----------------------------------------------------------------------------
(* The entries there are, and where the next ones come from *)

Busy(h) == calls[h].stage # "idle"
Elems(s) == {s[n] : n \in 1 .. Len(s)}

\* Queued, kept, still to be sent, or in a request Nest works on.
Entries ==
    Elems(items) \cup Elems(flush.kept) \cup Elems(flush.rest)
        \cup {calls[h].item : h \in {g \in Handlers : Busy(g)}}

Same(i, j) == i.id = j.id /\ i.kind = j.kind /\ i.table = j.table

\* The entry j goes on as i: its session may have been mapped.
Follows(j, i) ==
    /\ Same(i, j)
    /\ \/ i.ref = j.ref
       \/ j.kind # "open" /\ idMap'[j.ref] # None /\ i.ref = idMap'[j.ref]

\* The request also carries an entry when it is done.
Carries == \A h \in Handlers : Busy(h) => calls[h].item \in Item

LEMMA ElemsOfItems == Inv /\ Carries => Entries \subseteq Item
<1> SUFFICES ASSUME Inv, Carries PROVE Entries \subseteq Item
    OBVIOUS
<1>1. items \in Seq(Item) /\ flush.kept \in Seq(Item) /\ flush.rest \in Seq(Item)
    BY DEF Inv, TypeOK, HubTypeOK
<1>2. \A s \in Seq(Item) : Elems(s) \subseteq Item
    BY DEF Elems
<1> QED
    BY <1>1, <1>2 DEF Entries, Carries

LEMMA ElemsAppend ==
    ASSUME NEW s \in Seq(Item), NEW i \in Item
    PROVE  Elems(Append(s, i)) = Elems(s) \cup {i}
<1>1. /\ Len(Append(s, i)) = Len(s) + 1 /\ Len(s) \in Nat
      /\ \A n \in 1 .. Len(s) : Append(s, i)[n] = s[n]
      /\ Append(s, i)[Len(s) + 1] = i
    OBVIOUS
<1> DEFINE u == Append(s, i)
<1>2. /\ Len(u) = Len(s) + 1 /\ Len(s) \in Nat
      /\ \A n \in 1 .. Len(s) : u[n] = s[n]
      /\ u[Len(s) + 1] = i
    BY <1>1
<1> HIDE DEF u
<1>3. Elems(u) = Elems(s) \cup {i}
    <2>1. \A n \in 1 .. Len(u) : u[n] \in Elems(s) \cup {i}
        BY <1>2 DEF Elems
    <2>2. \A n \in 1 .. Len(s) : s[n] \in Elems(u)
        BY <1>2 DEF Elems
    <2>3. i \in Elems(u)
        <3>1. Len(s) + 1 \in 1 .. Len(u)
            BY <1>2
        <3> QED
            BY <1>2, <3>1 DEF Elems
    <2> QED
        BY <2>1, <2>2, <2>3 DEF Elems
<1> QED
    BY <1>3 DEF u

LEMMA ElemsTail ==
    ASSUME NEW s \in Seq(Item), s # <<>>
    PROVE  Head(s) \in Elems(s) /\ Elems(Tail(s)) \subseteq Elems(s)
<1>1. /\ Len(s) \in Nat /\ 1 \in 1 .. Len(s) /\ Head(s) = s[1]
      /\ Len(Tail(s)) = Len(s) - 1
      /\ \A n \in 1 .. Len(Tail(s)) : Tail(s)[n] = s[n + 1] /\ n + 1 \in 1 .. Len(s)
    OBVIOUS
<1>2. Head(s) \in Elems(s)
    BY <1>1 DEF Elems
<1>3. ASSUME NEW n \in 1 .. Len(Tail(s)) PROVE Tail(s)[n] \in Elems(s)
    BY <1>1 DEF Elems
<1> QED
    BY <1>2, <1>3 DEF Elems

LEMMA ElemsConcat ==
    ASSUME NEW s \in Seq(Item), NEW t \in Seq(Item)
    PROVE  Elems(s \o t) = Elems(s) \cup Elems(t)
<1> DEFINE u == s \o t
<1>1. /\ Len(s) \in Nat /\ Len(t) \in Nat /\ Len(u) = Len(s) + Len(t)
      /\ \A n \in 1 .. Len(u) : u[n] = IF n <= Len(s) THEN s[n] ELSE t[n - Len(s)]
    OBVIOUS
<1> HIDE DEF u
<1>2. ASSUME NEW n \in 1 .. Len(u) PROVE u[n] \in Elems(s) \cup Elems(t)
    <2>1. CASE n <= Len(s)
        BY <1>1, <2>1 DEF Elems
    <2>2. CASE ~(n <= Len(s))
        <3>1. n - Len(s) \in 1 .. Len(t) /\ u[n] = t[n - Len(s)]
            BY <1>1, <2>2
        <3> QED
            BY <3>1 DEF Elems
    <2> QED
        BY <2>1, <2>2
<1>3. ASSUME NEW n \in 1 .. Len(s) PROVE s[n] \in Elems(u)
    <2>1. n \in 1 .. Len(u) /\ u[n] = s[n]
        BY <1>1
    <2> QED
        BY <2>1 DEF Elems
<1>4. ASSUME NEW n \in 1 .. Len(t) PROVE t[n] \in Elems(u)
    <2>1. n + Len(s) \in 1 .. Len(u) /\ u[n + Len(s)] = t[n]
        BY <1>1
    <2> QED
        BY <2>1 DEF Elems
<1>5. Elems(u) = Elems(s) \cup Elems(t)
    BY <1>2, <1>3, <1>4 DEF Elems
<1> QED
    BY <1>5 DEF u

\* remapQueueItem: an entry of the rewritten queue is one of the old queue, or
\* one that named the session that is mapped.
LEMMA ElemsRewritten ==
    ASSUME NEW s \in Seq(Item), NEW l \in Refs, NEW c \in Clouds,
           NEW i \in Elems(Rewritten(s, l, c))
    PROVE  \E j \in Elems(s) :
              /\ Same(i, j)
              /\ i = j \/ (j.kind # "open" /\ j.ref = l /\ i.ref = c)
<1>1. PICK n \in 1 .. Len(s) : i = IF s[n].kind # "open" /\ s[n].ref = l
                                  THEN [s[n] EXCEPT !.ref = c] ELSE s[n]
    <2>1. Len(s) \in Nat
        OBVIOUS
    <2>2. Len(Rewritten(s, l, c)) = Len(s)
        BY RewrittenType
    <2> QED
        BY <2>1, <2>2 DEF Elems, Rewritten
<1>2. s[n] \in Elems(s) /\ s[n] \in Item
    BY DEF Elems
<1>3. PICK j \in Item : j = s[n]
    BY <1>2
<1>4. /\ [j EXCEPT !.ref = c].id = j.id /\ [j EXCEPT !.ref = c].kind = j.kind
      /\ [j EXCEPT !.ref = c].table = j.table /\ [j EXCEPT !.ref = c].ref = c
    BY DEF Item
<1> QED
    BY <1>1, <1>2, <1>3, <1>4 DEF Same

\* The entry as it is sent is the one in hand, resolved.
LEMMA OutgoingFollows ==
    ASSUME Inv, flush.rest # <<>>, UNCHANGED idMap
    PROVE  /\ Follows(Head(flush.rest), Outgoing)
           /\ Elems(RestOut) \subseteq {Outgoing} \cup Elems(flush.rest)
           /\ Head(RestOut) = Outgoing
           /\ Outgoing.kind = "open" => Outgoing = Head(flush.rest)
<1>1. PICK i \in Item : i = Head(flush.rest)
    BY RestFacts
<1>2. flush.rest \in Seq(Item) /\ Tail(flush.rest) \in Seq(Item) /\ Outgoing \in Item
    BY RestFacts DEF Inv, TypeOK, HubTypeOK
<1>3. PICK r : r = Resolve(i.ref)
    OBVIOUS
<1>4. r = i.ref \/ (idMap[i.ref] # None /\ r = idMap[i.ref])
    BY <1>3 DEF Resolve
<1>5. /\ [i EXCEPT !.ref = r].id = i.id /\ [i EXCEPT !.ref = r].kind = i.kind
      /\ [i EXCEPT !.ref = r].table = i.table /\ [i EXCEPT !.ref = r].ref = r
    BY DEF Item
<1>6. Outgoing = IF i.kind = "open" THEN i ELSE [i EXCEPT !.ref = r]
    BY <1>1, <1>3 DEF Outgoing
<1>7. Follows(i, Outgoing) /\ (Outgoing.kind = "open" => Outgoing = i)
    BY <1>4, <1>5, <1>6 DEF Follows, Same
<1>8. Head(RestOut) = Outgoing
    BY <1>2 DEF RestOut
<1>9. Elems(RestOut) \subseteq {Outgoing} \cup Elems(flush.rest)
    <2>1. <<Outgoing>> \in Seq(Item) /\ Elems(<<Outgoing>>) = {Outgoing}
        BY <1>2 DEF Elems
    <2>2. Elems(RestOut) = Elems(<<Outgoing>>) \cup Elems(Tail(flush.rest))
        BY <1>2, <2>1, ElemsConcat DEF RestOut
    <2> QED
        BY <1>2, <2>1, <2>2, ElemsTail
<1> QED
    BY <1>1, <1>7, <1>8, <1>9

-----------------------------------------------------------------------------
(* Every entry follows from one there was, or from what a waiter just did *)

FromBefore == asked' = asked /\ \A i \in Entries' : \E j \in Entries : Follows(j, i)

FromWaiter(a) ==
    /\ a \in Item /\ a.id = Len(asked) + 1
    /\ a.kind = "open" => a.ref \in Locals \/ "reopen" \in UserOps
    /\ flush.phase = "idle" \/ "midflush" \in Allowed
    /\ asked' = Append(asked, a)
    /\ \E i \in Item : Same(i, a) /\ items' = Append(items, i)
    /\ UNCHANGED <<flush, idMap, acked, nestVars, channelVars>>
    /\ \A i \in Entries' : i \in Entries \/ Follows(a, i)

LEMMA StaysAsItIs ==
    ASSUME asked' = asked, Entries' \subseteq Entries
    PROVE  FromBefore
BY DEF FromBefore, Follows, Same

\* What a waiter does, and what is enqueued for it.
LEMMA WaiterAsks ==
    ASSUME Inv, Enqueuing
    PROVE  \E kind \in Kinds, r \in Refs, t \in Tables \cup {None} :
              /\ Enqueue(kind, r, t)
              /\ [id |-> Len(asked) + 1, kind |-> kind, ref |-> r, table |-> t] \in Item
              /\ kind = "open" => r \in Locals \/ "reopen" \in UserOps
<1> DEFINE Asks(kind, r, t) ==
              /\ kind \in Kinds /\ r \in Refs /\ t \in Tables \cup {None}
              /\ Enqueue(kind, r, t)
              /\ [id |-> Len(asked) + 1, kind |-> kind, ref |-> r, table |-> t] \in Item
              /\ kind = "open" => r \in Locals \/ "reopen" \in UserOps
<1> SUFFICES \E kind, r, t : Asks(kind, r, t)
    OBVIOUS
<1>1. /\ floor \subseteq Refs \X Tables
      /\ Len(asked) + 1 \in Nat
    BY DEF Inv, TypeOK, HubTypeOK
<1>2. ASSUME NEW t \in Tables, OpenTable(t) PROVE \E kind, r, u : Asks(kind, r, u)
    <2>1. PICK l \in FreshLocals : Enqueue("open", l, t)
        BY <1>2 DEF OpenTable
    <2>2. Asks("open", l, t)
        BY <1>1, <2>1 DEF FreshLocals, Refs, Item, Kinds
    <2> QED
        BY <2>2
<1>3. ASSUME NEW t \in Tables, ReopenTable(t) PROVE \E kind, r, u : Asks(kind, r, u)
    <2>1. PICK p \in floor : Enqueue("open", p[1], t) /\ "reopen" \in UserOps
        BY <1>3 DEF ReopenTable
    <2>2. p[1] \in Refs
        BY <1>1
    <2>3. Asks("open", p[1], t)
        BY <1>1, <2>1, <2>2 DEF Item, Kinds
    <2> QED
        BY <2>3
<1>4. ASSUME NEW t \in Tables, OrderOnFreeTable(t) PROVE \E kind, r, u : Asks(kind, r, u)
    <2>1. PICK l \in FreshLocals : Enqueue("order", l, None)
        BY <1>4 DEF OrderOnFreeTable
    <2>2. Asks("order", l, None)
        BY <1>1, <2>1 DEF FreshLocals, Refs, Item, Kinds
    <2> QED
        BY <2>2
<1>5. ASSUME NEW t \in Tables, MoveSession(t) PROVE \E kind, r, u : Asks(kind, r, u)
    <2>1. PICK p \in floor : Enqueue("move", p[1], t)
        BY <1>5 DEF MoveSession
    <2>2. p[1] \in Refs
        BY <1>1
    <2>3. Asks("move", p[1], t)
        BY <1>1, <2>1, <2>2 DEF Item, Kinds
    <2> QED
        BY <2>3
<1>6. ASSUME CreateOrder \/ CollectCash \/ FireCourse \/ ReleaseSession
      PROVE  \E kind, r, u : Asks(kind, r, u)
    <2>1. PICK p \in floor : \E kind \in {"order", "pay", "fire", "release"} : Enqueue(kind, p[1], None)
        BY <1>6 DEF CreateOrder, CollectCash, FireCourse, ReleaseSession
    <2>2. PICK kind \in {"order", "pay", "fire", "release"} : Enqueue(kind, p[1], None)
        BY <2>1
    <2>3. p[1] \in Refs
        BY <1>1
    <2>4. Asks(kind, p[1], None)
        BY <1>1, <2>2, <2>3 DEF Item, Kinds
    <2> QED
        BY <2>4
<1> QED
    BY <1>2, <1>3, <1>4, <1>5, <1>6 DEF Enqueuing

LEMMA WaiterEntries ==
    ASSUME Inv, Enqueuing, UNCHANGED nestVars
    PROVE  \E a : FromWaiter(a)
<1>1. PICK kind \in Kinds, r \in Refs, t \in Tables \cup {None} :
          /\ Enqueue(kind, r, t)
          /\ [id |-> Len(asked) + 1, kind |-> kind, ref |-> r, table |-> t] \in Item
          /\ kind = "open" => r \in Locals \/ "reopen" \in UserOps
    BY WaiterAsks
<1>2. PICK a \in Item : a = [id |-> Len(asked) + 1, kind |-> kind, ref |-> r, table |-> t]
    BY <1>1
<1>3. a.id = Len(asked) + 1 /\ a.kind = kind /\ a.ref = r /\ a.table = t
    BY <1>2
<1>4. PICK s : s = IF kind = "open" THEN r ELSE Resolve(r)
    OBVIOUS
<1>5. /\ asked' = Append(asked, a)
      /\ items' = Append(items, [a EXCEPT !.ref = s])
      /\ UNCHANGED <<flush, idMap, acked, channelVars>>
      /\ flush.phase = "idle" \/ "midflush" \in Allowed
    BY <1>1, <1>2, <1>4 DEF Enqueue, Quiet
<1>6. s \in Refs
    BY <1>4 DEF Resolve, Inv, TypeOK, HubTypeOK
<1>7. PICK i \in Item : i = [a EXCEPT !.ref = s]
    BY <1>6, ItemRef
<1>8. Same(i, a) /\ i.ref = s
    BY <1>7 DEF Same, Item
<1>9. Follows(a, i)
    BY <1>3, <1>4, <1>5, <1>8 DEF Follows, Resolve
<1>10. items \in Seq(Item)
    BY DEF Inv, TypeOK, HubTypeOK
<1>11. Elems(items') = Elems(items) \cup {i}
    BY <1>5, <1>7, <1>10, ElemsAppend
<1>12. Entries' \subseteq Entries \cup {i}
    BY <1>5, <1>11 DEF Entries, Busy, channelVars, Elems
<1>13. FromWaiter(a)
    BY <1>1, <1>3, <1>5, <1>7, <1>8, <1>9, <1>12 DEF FromWaiter
<1> QED
    BY <1>13

\* The queue, the flush and the requests are old entries and the one in hand,
\* as it is sent.
LEMMA SentOn ==
    ASSUME Inv, flush.rest # <<>>, UNCHANGED <<asked, idMap>>,
           Entries' \subseteq Entries \cup {Outgoing}
    PROVE  FromBefore
<1>1. flush.rest \in Seq(Item)
    BY DEF Inv, TypeOK, HubTypeOK
<1>2. Head(flush.rest) \in Entries
    BY <1>1, ElemsTail DEF Entries
<1>3. Follows(Head(flush.rest), Outgoing)
    BY OutgoingFollows
<1>4. \A i : Follows(i, i)
    BY DEF Follows, Same
<1> QED
    BY <1>2, <1>3, <1>4 DEF FromBefore

LEMMA KeepingEntries ==
    ASSUME Inv, flush.rest # <<>>, StopOffline \/ KeepAndGoOn, UNCHANGED calls
    PROVE  FromBefore
<1>1. /\ flush.rest \in Seq(Item) /\ flush.kept \in Seq(Item)
      /\ RestOut \in Seq(Item) /\ Outgoing \in Item /\ Tail(flush.rest) \in Seq(Item)
    BY RestFacts DEF Inv, TypeOK, HubTypeOK
<1>2. UNCHANGED <<asked, idMap>>
    BY DEF StopOffline, KeepAndGoOn
<1>3. Elems(RestOut) \subseteq {Outgoing} \cup Elems(flush.rest)
    BY <1>2, OutgoingFollows
<1>4. CASE StopOffline
    <2>1. items' = flush.kept \o RestOut /\ flush'.kept = <<>> /\ flush'.rest = <<>>
        BY <1>4 DEF StopOffline, NoFlush
    <2> HIDE DEF RestOut
    <2>2. Elems(items') = Elems(flush.kept) \cup Elems(RestOut)
        BY <1>1, <2>1, ElemsConcat
    <2>3. Elems(flush'.kept) = {} /\ Elems(flush'.rest) = {}
        BY <2>1 DEF Elems
    <2>4. Entries' \subseteq Entries \cup {Outgoing}
        BY <1>3, <2>2, <2>3 DEF Entries, Busy, Elems
    <2> QED
        BY <1>2, <2>4, SentOn
<1>5. CASE KeepAndGoOn
    <2>1. /\ items' = items /\ flush'.rest = Tail(flush.rest)
          /\ flush'.kept = Append(flush.kept, Outgoing)
        BY <1>5 DEF KeepAndGoOn
    <2>2. Elems(flush'.kept) = Elems(flush.kept) \cup {Outgoing}
        BY <1>1, <2>1, ElemsAppend
    <2>3. Elems(flush'.rest) \subseteq Elems(flush.rest)
        BY <1>1, <2>1, ElemsTail
    <2>4. Entries' \subseteq Entries \cup {Outgoing}
        BY <2>1, <2>2, <2>3 DEF Entries, Busy, Elems
    <2> QED
        BY <1>2, <2>4, SentOn
<1> QED
    BY <1>4, <1>5

-----------------------------------------------------------------------------
(* An entry is what was asked for, and what is answered has its key stored *)

\* The entry does what the waiter did: only its session may be another.
AsAsked(i) == i.id \in 1 .. Len(asked) /\ Same(i, asked[i.id])

Recorded(stored, i, status, sid) ==
    status \in SyncedStatuses =>
        /\ \E e \in stored : e.key = Key(i)
        /\ sid # None => [key |-> Key(i), sid |-> sid] \in stored

\* The request the hub waits for carries the entry in hand.
Paired ==
    /\ conn # None => flush.phase = "waiting"
    /\ conn # None /\ Busy(conn) => calls[conn].item = Head(flush.rest)
    /\ reply # NoReply => conn # None

Answered ==
    /\ \A h \in Handlers : calls[h].stage = "done" =>
          Recorded(log, calls[h].item, calls[h].status, calls[h].sid)
    /\ reply # NoReply => Recorded(log, Head(flush.rest), reply.status, reply.sid)
    /\ \A e, f \in log : e.key = f.key => e = f

Known ==
    /\ \A n \in 1 .. Len(asked) : asked[n].id = n
    /\ acked \subseteq 1 .. Len(asked)
    /\ \A i \in Entries : AsAsked(i)

Trace == Carries /\ Known /\ Paired /\ Answered /\ AckedIsLogged

LEMMA InitTrace == Init => Trace
<1> SUFFICES ASSUME Init PROVE Trace
    OBVIOUS
<1> USE DEF Init, HubInit, NestInit, ChannelInit
<1>1. \A h \in Handlers : ~Busy(h)
    BY DEF Busy, IdleCall
<1>2. Entries = {}
    BY <1>1 DEF Entries, Elems, NoFlush
<1>3. Carries /\ Known
    BY <1>1, <1>2 DEF Carries, Known
<1>4. Paired /\ Answered /\ AckedIsLogged
    BY DEF Paired, Answered, AckedIsLogged, IdleCall
<1> QED
    BY <1>3, <1>4 DEF Trace

\* Nothing is known anew.
LEMMA KnownBefore ==
    ASSUME Known, FromBefore, acked' \subseteq 1 .. Len(asked)
    PROVE  Known'
<1>1. asked' = asked
    BY DEF FromBefore
<1>2. ASSUME NEW i \in Entries' PROVE AsAsked(i)'
    <2>1. PICK j \in Entries : Follows(j, i)
        BY DEF FromBefore
    <2> QED
        BY <1>1, <2>1 DEF Known, AsAsked, Follows, Same
<1> QED
    BY <1>1, <1>2 DEF Known

LEMMA LogGrows ==
    ASSUME NEW i, NEW status, NEW sid, Recorded(log, i, status, sid), log \subseteq log'
    PROVE  Recorded(log', i, status, sid)
BY DEF Recorded, Logged

\* A waiter asks for something.
LEMMA WaiterTrace ==
    ASSUME Inv, Trace, Enqueuing, UNCHANGED nestVars
    PROVE  Trace'
<1>1. PICK a \in Item : FromWaiter(a)
    BY WaiterEntries DEF FromWaiter
<1>2. /\ asked' = Append(asked, a) /\ asked \in Seq(Item) /\ Len(asked) \in Nat
      /\ Len(asked') = Len(asked) + 1 /\ asked'[Len(asked) + 1] = a /\ a.id = Len(asked) + 1
      /\ \A n \in 1 .. Len(asked) : asked'[n] = asked[n]
    BY <1>1 DEF FromWaiter, Inv, TypeOK, HubTypeOK
<1>3. UNCHANGED <<flush, acked, nestVars, channelVars>>
    BY <1>1 DEF FromWaiter
<1>4. Known'
    <2>1. \A n \in 1 .. Len(asked') : asked'[n].id = n
        BY <1>2 DEF Trace, Known
    <2>2. acked' \subseteq 1 .. Len(asked')
        BY <1>2, <1>3 DEF Trace, Known
    <2>3. ASSUME NEW i \in Entries' PROVE AsAsked(i)'
        <3>1. CASE i \in Entries
            BY <1>2, <3>1 DEF Trace, Known, AsAsked
        <3>2. CASE Follows(a, i)
            BY <1>2, <3>2 DEF Follows, Same, AsAsked
        <3> QED
            BY <1>1, <3>1, <3>2 DEF FromWaiter
    <2> QED
        BY <2>1, <2>2, <2>3 DEF Known
<1>5. Carries' /\ Paired' /\ Answered'
    BY <1>3 DEF Trace, Carries, Paired, Answered, Recorded, Logged, Busy, channelVars, nestVars
<1>6. AckedIsLogged'
    BY <1>2, <1>3 DEF Trace, Known, AckedIsLogged, nestVars
<1> QED
    BY <1>4, <1>5, <1>6 DEF Trace

\* A step after which the hub waits for nothing and nothing is acknowledged.
LEMMA QuietTrace ==
    ASSUME Inv, Trace, FromBefore, conn' = None, reply' = NoReply,
           UNCHANGED <<calls, acked, nestVars>>
    PROVE  Trace'
<1>1. asked' = asked
    BY DEF FromBefore
<1>2. Known'
    BY KnownBefore DEF Trace, Known
<1>3. Carries' /\ Paired' /\ Answered' /\ AckedIsLogged'
    BY <1>1 DEF Trace, Carries, Paired, Answered, Recorded, Logged, Busy, nestVars, AckedIsLogged
<1> QED
    BY <1>2, <1>3 DEF Trace

\* Between two requests the hub waits for nothing.
LEMMA NotWaiting ==
    ASSUME Trace, flush.phase # "waiting"
    PROVE  conn = None /\ reply = NoReply
BY DEF Trace, Paired

LEMMA HubFaultsTrace ==
    ASSUME Inv, Trace, HubFaults, UNCHANGED nestVars
    PROVE  Trace'
<1>1. CASE SendFails
    <2>1. /\ flush.rest # <<>> /\ (StopOffline \/ KeepAndGoOn)
          /\ flush.phase # "waiting" /\ UNCHANGED acked
        BY <1>1 DEF SendFails, StopOffline, KeepAndGoOn
    <2>2. UNCHANGED <<calls, conn, reply>>
        BY <1>1 DEF SendFails
    <2> QED
        BY <2>1, <2>2, NotWaiting, KeepingEntries, QuietTrace
<1>2. CASE GiveUp
    <2>1. /\ flush.rest # <<>> /\ conn' = None /\ reply' = NoReply
          /\ UNCHANGED <<calls, acked>>
        BY <1>2 DEF GiveUp, StopOffline, KeepAndGoOn, Inv, Shape
    <2>2. StopOffline \/ KeepAndGoOn
        BY <1>2 DEF GiveUp
    <2> QED
        BY <2>1, <2>2, KeepingEntries, QuietTrace
<1>3. CASE HubCrash
    <2>1. /\ flush' = NoFlush /\ conn' = None /\ reply' = NoReply
          /\ UNCHANGED <<items, asked, acked, calls>>
        BY <1>3 DEF HubCrash
    <2>2. Entries' \subseteq Entries
        BY <2>1 DEF Entries, Elems, Busy, NoFlush
    <2> QED
        BY <2>1, <2>2, StaysAsItIs, QuietTrace
<1> QED
    BY <1>1, <1>2, <1>3 DEF HubFaults

-----------------------------------------------------------------------------
(* The steps of the flush *)

\* Between two requests only the flush moves on.
LEMMA LoopTrace ==
    ASSUME Inv, Trace, FlushStart \/ FlushEnd, UNCHANGED nestVars
    PROVE  Trace'
<1>1. /\ flush.phase # "waiting" /\ UNCHANGED <<asked, acked, channelVars>>
      /\ \/ items' = items /\ flush'.rest = items /\ flush'.kept = <<>>
         \/ items' = flush.kept /\ flush'.rest = <<>> /\ flush'.kept = <<>>
    BY DEF FlushStart, FlushEnd, NoFlush
<1>2. Entries' \subseteq Entries
    BY <1>1 DEF Entries, Elems, Busy, channelVars
<1>3. conn' = None /\ reply' = NoReply
    BY <1>1, NotWaiting DEF channelVars
<1> QED
    BY <1>1, <1>2, <1>3, StaysAsItIs, QuietTrace DEF channelVars

LEMMA RefusedTrace ==
    ASSUME Inv, Trace, Refused, UNCHANGED nestVars
    PROVE  Trace'
<1>1. /\ flush.rest # <<>> /\ (StopOffline \/ KeepAndGoOn)
      /\ conn' = None /\ reply' = NoReply /\ UNCHANGED <<calls, acked>>
    BY DEF Refused, StopOffline, KeepAndGoOn, Inv, Shape
<1> QED
    BY <1>1, KeepingEntries, QuietTrace

\* The entry in hand is sent: the request carries it.
LEMMA SendTrace ==
    ASSUME Inv, Trace, NEW h \in Handlers, Send(h), UNCHANGED nestVars
    PROVE  Trace'
<1>1. /\ flush.phase = "step" /\ flush.rest # <<>>
      /\ conn' = h /\ flush'.phase = "waiting" /\ flush'.rest = RestOut
      /\ flush'.kept = flush.kept
      /\ UNCHANGED <<items, idMap, asked, acked, reply>>
    BY DEF Send, Inv, TypeOK, HubTypeOK
<1>2. Outgoing \in Item /\ Head(RestOut) = Outgoing
    BY <1>1, RestFacts, OutgoingFollows
<1>3. PICK o \in Item : o = Outgoing
    BY <1>2
<1>4. /\ calls' = [calls EXCEPT ![h] = [IdleCall EXCEPT !.stage = "received", !.item = o]]
      /\ calls \in [Handlers -> Call]
    BY <1>3 DEF Send, Inv, TypeOK, ChannelTypeOK
<1>5. calls'[h].item = o /\ calls'[h].stage = "received"
    BY <1>4 DEF IdleCall
<1>6. \A g \in Handlers : g # h => calls'[g] = calls[g]
    BY <1>4
<1>7. Entries' \subseteq Entries \cup {Outgoing}
    <2>1. Elems(flush'.rest) \subseteq {Outgoing} \cup Elems(flush.rest)
        BY <1>1, OutgoingFollows
    <2>2. \A g \in Handlers : Busy(g)' => calls'[g].item = Outgoing \/ (Busy(g) /\ calls'[g].item = calls[g].item)
        BY <1>3, <1>5, <1>6 DEF Busy
    <2> QED
        BY <1>1, <2>1, <2>2 DEF Entries, Elems
<1>8. Known'
    BY <1>1, <1>7, SentOn, KnownBefore DEF Trace, Known
<1>9. reply = NoReply
    BY <1>1, NotWaiting
<1>10. Carries'
    BY <1>5, <1>6 DEF Trace, Carries, Busy
<1>11. Paired'
    BY <1>1, <1>2, <1>3, <1>5, <1>9 DEF Paired
<1>12. Answered'
    BY <1>1, <1>5, <1>6, <1>9 DEF Trace, Answered, Recorded, Logged, nestVars
<1>13. AckedIsLogged'
    BY <1>1 DEF Trace, AckedIsLogged, nestVars
<1> QED
    BY <1>8, <1>10, <1>11, <1>12, <1>13 DEF Trace

\* What a synced entry leaves behind: the rest, perhaps rewritten.
LEMMA SyncedEntries ==
    ASSUME Inv, Synced
    PROVE  /\ FromBefore
           /\ acked' = acked \cup {Head(flush.rest).id}
           /\ Head(flush.rest) \in Entries /\ Head(flush.rest) \in Item
<1>1. PICK i \in Item : i = Head(flush.rest)
    BY RestFacts DEF Synced, Inv, Shape
<1>2. /\ flush.rest \in Seq(Item) /\ flush.rest # <<>>
      /\ Tail(flush.rest) \in Seq(Item)
      /\ idMap \in [Refs -> Refs \cup {None}]
    BY RestFacts DEF Synced, Inv, Shape, TypeOK, HubTypeOK
<1>3. i.ref \in Refs
    BY ItemFields
<1>4. UNCHANGED <<items, asked, calls>> /\ acked' = acked \cup {i.id} /\ flush'.kept = flush.kept
    BY <1>1 DEF Synced, Inv, TypeOK, HubTypeOK
<1>5. PICK t \in Seq(Item) : t = Tail(flush.rest)
    BY <1>2
<1>6. Elems(t) \subseteq Elems(flush.rest) /\ i \in Elems(flush.rest)
    BY <1>1, <1>2, <1>5, ElemsTail
<1>7. ASSUME NEW e \in Elems(flush'.rest)
      PROVE  \E j \in Elems(flush.rest) : Follows(j, e)
    <2>1. CASE Opens(i)
        <3>1. PICK c \in Clouds : c = reply.sid
            BY <2>1 DEF Opens, Inv, TypeOK, ChannelTypeOK, Reply, NoReply
        <3>2. /\ flush'.rest = Rewritten(t, i.ref, c)
              /\ idMap' = Remembered(i.ref, c)
            BY <1>1, <1>2, <1>5, <2>1, <3>1 DEF Synced, Inv, TypeOK, HubTypeOK
        <3>3. PICK j \in Elems(t) : /\ Same(e, j)
                                    /\ e = j \/ (j.kind # "open" /\ j.ref = i.ref /\ e.ref = c)
            BY <1>3, <1>7, <3>2, ElemsRewritten
        <3>4. idMap'[i.ref] = c /\ c # None
            BY <1>3, <3>2, IdsAssumption DEF Remembered, Refs
        <3> QED
            BY <1>6, <3>3, <3>4 DEF Follows
    <2>2. CASE ~Opens(i)
        <3>1. flush'.rest = t
            BY <1>1, <1>5, <2>2 DEF Synced, Inv, TypeOK, HubTypeOK
        <3> QED
            BY <1>6, <1>7, <3>1 DEF Follows, Same
    <2> QED
        BY <2>1, <2>2
<1>8. FromBefore
    <2> SUFFICES ASSUME NEW e \in Entries' PROVE \E j \in Entries : Follows(j, e)
        BY <1>4 DEF FromBefore
    <2>1. e \in Elems(flush'.rest) \/ e \in Entries
        BY <1>4 DEF Entries, Elems, Busy
    <2> QED
        BY <1>7, <2>1 DEF Entries, Follows, Same
<1> QED
    BY <1>1, <1>4, <1>6, <1>8 DEF Entries

\* An answer by which the entry leaves the queue: its key is stored.
LEMMA SyncedTrace ==
    ASSUME Inv, Trace, Synced, UNCHANGED nestVars
    PROVE  Trace'
<1>1. PICK i \in Item : i = Head(flush.rest)
    BY SyncedEntries
<1>2. /\ reply.status \in SyncedStatuses /\ conn' = None /\ reply' = NoReply
      /\ UNCHANGED <<asked, calls>>
    BY DEF Synced
<1>3. AsAsked(i)
    BY <1>1, SyncedEntries DEF Trace, Known
<1>4. acked' = acked \cup {i.id} /\ acked' \subseteq 1 .. Len(asked)
    BY <1>1, <1>3, SyncedEntries DEF Trace, Known, AsAsked
<1>5. Known'
    BY <1>4, SyncedEntries, KnownBefore DEF Trace
<1>6. Carries' /\ Paired' /\ Answered'
    BY <1>2 DEF Trace, Carries, Busy, Paired, Answered, Recorded, Logged, nestVars
<1>7. reply # NoReply
    BY <1>2 DEF NoReply, SyncedStatuses
<1>8. \E e \in log : e.key = Key(i)
    BY <1>1, <1>2, <1>7 DEF Trace, Answered, Recorded, Logged
<1>9. \E r \in Refs : Key(i) = Key([asked[i.id] EXCEPT !.ref = r])
    <2>1. PICK a \in Item : a = asked[i.id]
        BY <1>3 DEF AsAsked, Inv, TypeOK, HubTypeOK
    <2>2. i.ref \in Refs
        BY ItemFields
    <2>3. PICK b : b = [a EXCEPT !.ref = i.ref]
        OBVIOUS
    <2>4. b.id = a.id /\ b.kind = a.kind /\ b.table = a.table /\ b.ref = i.ref
        BY <2>3 DEF Item
    <2>5. Key(i) = Key(b)
        BY <1>3, <2>1, <2>4 DEF AsAsked, Same, Key
    <2> QED
        BY <2>1, <2>2, <2>3, <2>5
<1>10. AckedIsLogged'
    BY <1>2, <1>4, <1>8, <1>9 DEF Trace, AckedIsLogged, nestVars
<1> QED
    BY <1>5, <1>6, <1>10 DEF Trace

LEMMA FlushTrace ==
    ASSUME Inv, Trace, Flushing, UNCHANGED nestVars
    PROVE  Trace'
BY LoopTrace, RefusedTrace, SendTrace, SyncedTrace DEF Flushing

-----------------------------------------------------------------------------
(* The steps of Nest *)

\* The outside leaves the hub, the requests and the keys alone.
LEMMA OutsideTrace ==
    ASSUME Inv, Trace, UNCHANGED <<items, flush, idMap, asked, acked, calls, conn, reply, log>>
    PROVE  Trace'
<1>1. Entries' = Entries
    BY DEF Entries, Elems, Busy
<1>2. Known'
    BY <1>1, StaysAsItIs, KnownBefore DEF Trace, Known
<1> QED
    BY <1>2 DEF Trace, Carries, Paired, Answered, Recorded, Logged, Busy, AckedIsLogged

\* ingest goes on with one request.  Keys are only added, each once, and an
\* answer that counts as synced is recorded.
LEMMA RequestTrace ==
    ASSUME Inv, Trace, NEW h \in Handlers, Busy(h), UNCHANGED <<hubVars, conn, reply>>,
           calls'[h].item = calls[h].item, calls'[h].stage # "idle",
           \A g \in Handlers : g # h => calls'[g] = calls[g],
           log \subseteq log', \A e, f \in log' : e.key = f.key => e = f,
           calls'[h].stage = "done" =>
               Recorded(log', calls[h].item, calls'[h].status, calls'[h].sid)
    PROVE  Trace'
<1>1. \A g \in Handlers : calls'[g].item = calls[g].item /\ (Busy(g)' <=> Busy(g))
    BY DEF Busy
<1>2. Entries' = Entries
    BY <1>1 DEF Entries, Elems, hubVars
<1>3. Known'
    BY <1>2, StaysAsItIs, KnownBefore DEF Trace, Known, hubVars
<1>4. Carries'
    BY <1>1 DEF Trace, Carries
<1>5. Paired'
    BY <1>1 DEF Trace, Paired, hubVars, Inv, TypeOK, ChannelTypeOK
<1>6. Answered'
    <2>1. ASSUME NEW g \in Handlers, calls'[g].stage = "done"
          PROVE  Recorded(log', calls[g].item, calls'[g].status, calls'[g].sid)
        <3>1. CASE g = h
            BY <2>1, <3>1
        <3>2. CASE g # h
            BY <2>1, <3>2, LogGrows DEF Trace, Answered
        <3> QED
            BY <3>1, <3>2
    <2>2. reply' # NoReply => Recorded(log', Head(flush'.rest), reply'.status, reply'.sid)
        BY LogGrows DEF Trace, Answered, hubVars
    <2> QED
        BY <1>1, <2>1, <2>2 DEF Answered, Recorded, Logged
<1>7. AckedIsLogged'
    BY DEF Trace, AckedIsLogged, hubVars
<1> QED
    BY <1>3, <1>4, <1>5, <1>6, <1>7 DEF Trace

\* What Proceed, Return and Finish leave of a request.
LEMMA RequestSteps ==
    ASSUME Inv, NEW h \in Handlers
    PROVE  /\ Proceed(h) => calls'[h].stage = "checked" /\ calls'[h].item = calls[h].item
           /\ \A ok, sid : Return(h, ok, sid) =>
                 calls'[h].stage = "applied" /\ calls'[h].item = calls[h].item
           /\ \A status, sid : Finish(h, status, sid) =>
                 /\ calls'[h].stage = "done" /\ calls'[h].item = calls[h].item
                 /\ calls'[h].status = status /\ calls'[h].sid = sid
           /\ (Proceed(h) \/ (\E ok, sid : Return(h, ok, sid)) \/ \E status, sid : Finish(h, status, sid))
                 => \A g \in Handlers : g # h => calls'[g] = calls[g]
<1>1. calls \in [Handlers -> Call]
    BY DEF Inv, TypeOK, ChannelTypeOK
<1>2. PICK c \in Call : c = calls[h]
    BY <1>1
<1>3. [c EXCEPT !.stage = "checked"].stage = "checked" /\ [c EXCEPT !.stage = "checked"].item = c.item
    BY DEF Call
<1>4. ASSUME NEW ok, NEW sid
      PROVE  LET d == [c EXCEPT !.stage = "applied", !.ok = ok, !.sid = sid]
             IN  d.stage = "applied" /\ d.item = c.item
    BY DEF Call
<1>5. ASSUME NEW status, NEW sid
      PROVE  LET d == [c EXCEPT !.stage = "done", !.status = status, !.sid = sid]
             IN  d.stage = "done" /\ d.item = c.item /\ d.status = status /\ d.sid = sid
    BY DEF Call
<1>6. \A d : calls' = [calls EXCEPT ![h] = d] =>
            calls'[h] = d /\ \A g \in Handlers : g # h => calls'[g] = calls[g]
    BY <1>1
<1>7. ASSUME Proceed(h)
      PROVE  /\ calls'[h].stage = "checked" /\ calls'[h].item = calls[h].item
             /\ \A g \in Handlers : g # h => calls'[g] = calls[g]
    BY <1>2, <1>3, <1>6, <1>7 DEF Proceed
<1>8. ASSUME NEW ok, NEW sid, Return(h, ok, sid)
      PROVE  /\ calls'[h].stage = "applied" /\ calls'[h].item = calls[h].item
             /\ \A g \in Handlers : g # h => calls'[g] = calls[g]
    <2> DEFINE d == [calls[h] EXCEPT !.stage = "applied", !.ok = ok, !.sid = sid]
    <2>1. calls' = [calls EXCEPT ![h] = d]
        BY <1>1, <1>8 DEF Return
    <2>2. d.stage = "applied" /\ d.item = calls[h].item
        BY <1>2, <1>4
    <2> HIDE DEF d
    <2> QED
        BY <1>6, <2>1, <2>2
<1>9. ASSUME NEW status, NEW sid, Finish(h, status, sid)
      PROVE  /\ calls'[h].stage = "done" /\ calls'[h].item = calls[h].item
             /\ calls'[h].status = status /\ calls'[h].sid = sid
             /\ \A g \in Handlers : g # h => calls'[g] = calls[g]
    <2> DEFINE d == [calls[h] EXCEPT !.stage = "done", !.status = status, !.sid = sid]
    <2>1. calls' = [calls EXCEPT ![h] = d]
        BY <1>1, <1>9 DEF Finish
    <2>2. d.stage = "done" /\ d.item = calls[h].item /\ d.status = status /\ d.sid = sid
        BY <1>2, <1>5
    <2> HIDE DEF d
    <2> QED
        BY <1>6, <2>1, <2>2
<1> QED
    BY <1>7, <1>8, <1>9

LEMMA IngestTrace ==
    ASSUME Inv, Trace, NEW h \in Handlers, Ingest(h), UNCHANGED hubVars
    PROVE  Trace'
<1>1. \A e, f \in log : e.key = f.key => e = f
    BY DEF Trace, Answered
<1>2. CASE LookupMiss(h)
    <2>1. calls[h].stage = "received" /\ Proceed(h) /\ UNCHANGED <<nestVars, conn, reply>>
        BY <1>2 DEF LookupMiss
    <2> QED
        BY <1>1, <2>1, RequestSteps, RequestTrace DEF Busy, nestVars
<1>3. ASSUME NEW ok, NEW sid, calls[h].stage = "checked", Return(h, ok, sid),
             UNCHANGED <<log, conn, reply>>
      PROVE  Trace'
    BY <1>1, <1>3, RequestSteps, RequestTrace DEF Busy
<1>4. CASE ApplyOpen(h) \/ ApplyOrder(h) \/ ApplyPayment(h) \/ ApplyFire(h)
              \/ ApplyMove(h) \/ ApplyRelease(h) \/ ApplyRefused(h)
    <2>1. calls[h].stage = "checked" /\ UNCHANGED <<log, conn, reply>>
        BY <1>4 DEF ApplyOpen, ApplyOrder, ApplyPayment, ApplyFire, ApplyMove, ApplyRelease,
                    ApplyRefused, Applying, nestVars
    <2>2. \E ok, sid : Return(h, ok, sid)
        BY <1>4 DEF ApplyOpen, ApplyOrder, ApplyPayment, ApplyFire, ApplyMove, ApplyRelease,
                    ApplyRefused
    <2> QED
        BY <1>3, <2>1, <2>2
\* The answers: of the lookup, of the insert, of a lost race, of an error.
<1>5. CASE LookupHit(h)
    <2>1. PICK e \in log : /\ e.key = Key(calls[h].item) /\ Finish(h, "duplicate", e.sid)
                           /\ calls[h].stage = "received" /\ UNCHANGED <<nestVars, conn, reply>>
        BY <1>5 DEF LookupHit
    <2>2. e = [key |-> e.key, sid |-> e.sid]
        BY <2>1 DEF Inv, TypeOK, NestTypeOK
    <2>3. Recorded(log', calls[h].item, "duplicate", e.sid)
        BY <2>1, <2>2 DEF Recorded, Logged, nestVars
    <2> QED
        BY <1>1, <2>1, <2>3, RequestSteps, RequestTrace DEF Busy, nestVars
<1>6. CASE InsertKey(h)
    <2>1. PICK e : e = [key |-> Key(calls[h].item), sid |-> calls[h].sid]
        OBVIOUS
    <2>2. /\ e.key = Key(calls[h].item) /\ ~Logged(e.key) /\ log' = log \cup {e}
          /\ calls[h].stage = "applied" /\ UNCHANGED <<conn, reply>>
        BY <1>6, <2>1 DEF InsertKey
    <2>3. \A f, g \in log' : f.key = g.key => f = g
        BY <1>1, <2>2 DEF Logged
    <2>4. PICK status : Finish(h, status, calls[h].sid)
        BY <1>6 DEF InsertKey
    <2>5. Recorded(log', calls[h].item, status, calls[h].sid)
        BY <2>1, <2>2 DEF Recorded, Logged
    <2>6. Trace'
        <3>1. /\ calls'[h].item = calls[h].item /\ calls'[h].stage = "done"
              /\ calls'[h].status = status /\ calls'[h].sid = calls[h].sid
              /\ \A g \in Handlers : g # h => calls'[g] = calls[g]
            BY <2>4, RequestSteps
        <3>2. Recorded(log', calls[h].item, calls'[h].status, calls'[h].sid)
            BY <2>5, <3>1
        <3> QED
            BY <2>2, <2>3, <3>1, <3>2, RequestTrace DEF Busy
    <2> QED
        BY <2>6
<1>7. CASE InsertDuplicate(h)
    <2>1. /\ calls[h].stage = "applied" /\ Logged(Key(calls[h].item))
          /\ Finish(h, "duplicate", None) /\ UNCHANGED <<nestVars, conn, reply>>
        BY <1>7 DEF InsertDuplicate, LateResult
    <2>2. Recorded(log', calls[h].item, "duplicate", None)
        BY <2>1 DEF Recorded, Logged, nestVars
    <2> QED
        BY <1>1, <2>1, <2>2, RequestSteps, RequestTrace DEF Busy, nestVars
<1>8. CASE InsertFails(h)
    <2>1. /\ calls[h].stage = "applied" /\ Finish(h, "rejected", None)
          /\ UNCHANGED <<nestVars, conn, reply>>
        BY <1>8 DEF InsertFails
    <2>2. Recorded(log', calls[h].item, "rejected", None)
        BY DEF Recorded, SyncedStatuses
    <2> QED
        BY <1>1, <2>1, <2>2, RequestSteps, RequestTrace DEF Busy, nestVars
\* The answer reaches the hub: it is the one for the entry in hand.
<1>9. CASE Answer(h)
    <2>1. /\ calls[h].stage = "done" /\ UNCHANGED <<nestVars, conn>>
          /\ calls' = [calls EXCEPT ![h] = IdleCall]
          /\ reply' = IF conn = h THEN [status |-> calls[h].status, sid |-> calls[h].sid]
                      ELSE reply
        BY <1>9 DEF Answer
    <2>2. \A g \in Handlers : calls'[g] = calls[g] \/ (g = h /\ ~Busy(g)' /\ calls'[g].stage # "done")
        BY <2>1 DEF Busy, IdleCall, Inv, TypeOK, ChannelTypeOK
    <2>3. Entries' \subseteq Entries
        BY <2>2 DEF Entries, Elems, Busy, hubVars
    <2>4. Known'
        BY <2>3, StaysAsItIs, KnownBefore DEF Trace, Known, hubVars
    <2>5. Carries' /\ Paired'
        BY <2>1, <2>2, IdsAssumption DEF Trace, Carries, Paired, Busy, hubVars, Inv, TypeOK, ChannelTypeOK
    <2>6. reply' # NoReply => Recorded(log', Head(flush'.rest), reply'.status, reply'.sid)
        <3>1. CASE conn = h
            <4>1. calls[h].item = Head(flush.rest)
                BY <2>1, <3>1, IdsAssumption DEF Trace, Paired, Busy
            <4>2. Recorded(log, Head(flush.rest), calls[h].status, calls[h].sid)
                BY <2>1, <4>1 DEF Trace, Answered
            <4> QED
                BY <2>1, <3>1, <4>2 DEF Recorded, Logged, nestVars, hubVars
        <3>2. CASE conn # h
            BY <2>1, <3>2 DEF Trace, Answered, Recorded, Logged, nestVars, hubVars
        <3> QED
            BY <3>1, <3>2
    <2>7. Answered'
        BY <2>1, <2>2, <2>6 DEF Trace, Answered, Recorded, Logged, nestVars
    <2>8. AckedIsLogged'
        BY <2>1 DEF Trace, AckedIsLogged, nestVars, hubVars
    <2> QED
        BY <2>4, <2>5, <2>7, <2>8 DEF Trace
<1> QED
    BY <1>2, <1>4, <1>5, <1>6, <1>7, <1>8, <1>9 DEF Ingest

LEMMA NestFaultsTrace ==
    ASSUME Inv, Trace, NestFaults, UNCHANGED hubVars
    PROVE  Trace'
<1>1. CASE NestCrash
    <2>1. /\ calls' = [h \in Handlers |-> IdleCall] /\ UNCHANGED <<nestVars, conn>>
          /\ \/ reply' = reply
             \/ conn # None /\ reply' = [status |-> "reset", sid |-> None]
        BY <1>1 DEF NestCrash
    <2>2. \A h \in Handlers : ~Busy(h)' /\ calls'[h].stage # "done"
        BY <2>1 DEF Busy, IdleCall
    <2>3. Entries' \subseteq Entries
        BY <2>2 DEF Entries, Elems, hubVars
    <2>4. Known'
        BY <2>3, StaysAsItIs, KnownBefore DEF Trace, Known, hubVars
    <2>5. conn' # None => conn' \in Handlers
        BY <2>1 DEF Inv, TypeOK, ChannelTypeOK
    <2>6. Carries' /\ Paired'
        BY <2>1, <2>2, <2>5 DEF Trace, Carries, Paired, hubVars
    <2>7. Answered'
        BY <2>1, <2>2 DEF Trace, Answered, Recorded, SyncedStatuses, Logged, nestVars, hubVars
    <2>8. AckedIsLogged'
        BY <2>1 DEF Trace, AckedIsLogged, nestVars, hubVars
    <2> QED
        BY <2>4, <2>6, <2>7, <2>8 DEF Trace
<1>2. ASSUME NEW h \in Handlers, LookupError(h) PROVE Trace'
    <2>1. calls[h].stage = "received" /\ Proceed(h) /\ UNCHANGED <<nestVars, conn, reply>>
        BY <1>2 DEF LookupError
    <2>2. \A e, f \in log : e.key = f.key => e = f
        BY DEF Trace, Answered
    <2> QED
        BY <2>1, <2>2, RequestSteps, RequestTrace DEF Busy, nestVars
<1> QED
    BY <1>1, <1>2 DEF NestFaults

-----------------------------------------------------------------------------
(* What is dropped as synced is stored *)

LEMMA StepTrace == Inv /\ Trace /\ [Next]_vars => Trace'
<1> SUFFICES ASSUME Inv, Trace, [Next]_vars PROVE Trace'
    OBVIOUS
<1>1. CASE HubStep
    BY <1>1, WaiterTrace, FlushTrace, HubFaultsTrace DEF HubStep
<1>2. CASE NestStep
    <2>1. CASE CloseRegister \/ OpenRegister
        <3>1. UNCHANGED hubVars
            BY <1>2 DEF NestStep
        <3>2. UNCHANGED <<log, calls, conn, reply>>
            BY <2>1 DEF CloseRegister, OpenRegister, channelVars
        <3> QED
            BY <3>1, <3>2, OutsideTrace DEF hubVars
    <2> QED
        BY <1>2, <2>1, IngestTrace, NestFaultsTrace DEF NestStep
<1>3. CASE PullBootstrap
    BY <1>3, OutsideTrace DEF PullBootstrap, nestVars
<1>4. CASE UNCHANGED vars
    BY <1>4, OutsideTrace DEF vars, hubVars, nestVars, channelVars
<1> QED
    BY <1>1, <1>2, <1>3, <1>4 DEF Next

LEMMA Traced == Spec => []Trace
BY InitTrace, StepTrace, Invariance, PTL DEF Spec

\* An entry leaves the queue of the hub as synced only when Nest has stored
\* its key: the status applied or duplicate that flushIfPossible relies on is
\* never given for a key that ingest would not find again.
THEOREM AckedLogged == Spec => []AckedIsLogged
<1>1. Trace => AckedIsLogged
    BY DEF Trace
<1> QED
    BY <1>1, Traced, PTL

-----------------------------------------------------------------------------
(* Every step, seen from the entries *)

\* Nest only lets go of entries, and it only adds keys.
LEMMA NestEntries ==
    ASSUME Inv, NestStep
    PROVE  /\ FromBefore /\ log \subseteq log' /\ idMap' = idMap
           /\ \A g \in Handlers : Busy(g)' => Busy(g) /\ calls'[g].item = calls[g].item
<1> SUFFICES /\ log \subseteq log'
             /\ \A g \in Handlers : Busy(g)' => Busy(g) /\ calls'[g].item = calls[g].item
    <2>1. UNCHANGED hubVars
        BY DEF NestStep
    <2>2. (\A g \in Handlers : Busy(g)' => Busy(g) /\ calls'[g].item = calls[g].item)
              => Entries' \subseteq Entries
        BY <2>1 DEF Entries, Elems, hubVars
    <2> QED
        BY <2>1, <2>2, StaysAsItIs DEF hubVars
<1>1. calls \in [Handlers -> Call]
    BY DEF Inv, TypeOK, ChannelTypeOK
<1>2. ASSUME NEW h \in Handlers, Ingest(h)
      PROVE  /\ log \subseteq log'
             /\ \A g \in Handlers : Busy(g)' => Busy(g) /\ calls'[g].item = calls[g].item
    <2>1. log \subseteq log' /\ Busy(h)
        BY <1>2 DEF Ingest, LookupHit, LookupMiss, ApplyOpen, ApplyOrder, ApplyPayment, ApplyFire,
                    ApplyMove, ApplyRelease, ApplyRefused, InsertKey, InsertDuplicate, InsertFails,
                    Answer, Applying, nestVars, Busy
    <2>2. \/ calls' = [calls EXCEPT ![h] = IdleCall]
          \/ Proceed(h)
          \/ \E ok, sid : Return(h, ok, sid)
          \/ \E status, sid : Finish(h, status, sid)
        BY <1>2 DEF Ingest, LookupHit, LookupMiss, ApplyOpen, ApplyOrder, ApplyPayment, ApplyFire,
                    ApplyMove, ApplyRelease, ApplyRefused, InsertKey, InsertDuplicate, InsertFails,
                    Answer
    <2>3. CASE calls' = [calls EXCEPT ![h] = IdleCall]
        BY <1>1, <2>1, <2>3 DEF Busy, IdleCall
    <2>4. CASE Proceed(h) \/ (\E ok, sid : Return(h, ok, sid)) \/ \E status, sid : Finish(h, status, sid)
        <3>1. calls'[h].item = calls[h].item /\ \A g \in Handlers : g # h => calls'[g] = calls[g]
            BY <2>4, RequestSteps
        <3> QED
            BY <2>1, <3>1 DEF Busy
    <2> QED
        BY <2>2, <2>3, <2>4
<1>3. ASSUME NEW h \in Handlers, LookupError(h)
      PROVE  /\ log \subseteq log'
             /\ \A g \in Handlers : Busy(g)' => Busy(g) /\ calls'[g].item = calls[g].item
    BY <1>3, RequestSteps DEF LookupError, nestVars, Busy
<1>4. CASE NestCrash
    BY <1>4 DEF NestCrash, IdleCall, Busy, nestVars
<1>5. CASE CloseRegister \/ OpenRegister
    BY <1>5 DEF CloseRegister, OpenRegister, channelVars, Busy
<1> QED
    BY <1>2, <1>3, <1>4, <1>5 DEF NestStep, NestFaults

LEMMA FlushEntries ==
    ASSUME Inv, Flushing \/ HubFaults
    PROVE  FromBefore
<1>1. CASE FlushStart \/ FlushEnd
    <2>1. /\ UNCHANGED <<asked, calls>>
          /\ \/ items' = items /\ flush'.rest = items /\ flush'.kept = <<>>
             \/ items' = flush.kept /\ flush'.rest = <<>> /\ flush'.kept = <<>>
        BY <1>1 DEF FlushStart, FlushEnd, NoFlush, channelVars
    <2>2. Entries' \subseteq Entries
        BY <2>1 DEF Entries, Elems, Busy
    <2> QED
        BY <2>1, <2>2, StaysAsItIs
<1>2. ASSUME NEW h \in Handlers, Send(h) PROVE FromBefore
    <2>1. /\ flush.rest # <<>> /\ flush'.rest = RestOut /\ flush'.kept = flush.kept
          /\ UNCHANGED <<items, idMap, asked>>
        BY <1>2 DEF Send, Inv, TypeOK, HubTypeOK
    <2>2. /\ calls' = [calls EXCEPT ![h] = [IdleCall EXCEPT !.stage = "received", !.item = Outgoing]]
          /\ calls \in [Handlers -> Call]
        BY <1>2 DEF Send, Inv, TypeOK, ChannelTypeOK
    <2>3. \A g \in Handlers : Busy(g)' =>
             calls'[g].item = Outgoing \/ (Busy(g) /\ calls'[g].item = calls[g].item)
        BY <2>2 DEF Busy, IdleCall
    <2>4. Elems(flush'.rest) \subseteq {Outgoing} \cup Elems(flush.rest)
        BY <2>1, OutgoingFollows
    <2>5. Entries' \subseteq Entries \cup {Outgoing}
        BY <2>1, <2>3, <2>4 DEF Entries, Elems
    <2> QED
        BY <2>1, <2>5, SentOn
<1>3. CASE Synced
    BY <1>3, SyncedEntries
<1>4. CASE Refused \/ SendFails \/ GiveUp
    <2>1. flush.rest # <<>> /\ (StopOffline \/ KeepAndGoOn) /\ UNCHANGED calls
        BY <1>4 DEF Refused, SendFails, GiveUp, Inv, Shape
    <2> QED
        BY <2>1, KeepingEntries
<1>5. CASE HubCrash
    <2>1. Entries' \subseteq Entries /\ asked' = asked
        BY <1>5 DEF HubCrash, Entries, Elems, Busy, NoFlush
    <2> QED
        BY <2>1, StaysAsItIs
<1> QED
    BY <1>1, <1>2, <1>3, <1>4, <1>5 DEF Flushing, HubFaults

LEMMA StepEntries ==
    ASSUME Inv, [Next]_vars
    PROVE  FromBefore \/ \E a : FromWaiter(a)
<1>1. CASE HubStep
    BY <1>1, WaiterEntries, FlushEntries DEF HubStep
<1>2. CASE NestStep
    BY <1>2, NestEntries
<1>3. CASE PullBootstrap \/ UNCHANGED vars
    <2>1. Entries' \subseteq Entries /\ asked' = asked
        BY <1>3 DEF PullBootstrap, vars, hubVars, channelVars, Entries, Elems, Busy
    <2> QED
        BY <2>1, StaysAsItIs
<1> QED
    BY <1>1, <1>2, <1>3 DEF Next

\* Nest records what it carries out: the event of a request that was looked
\* up, for the session the event names.
LEMMA StepEffects ==
    ASSUME Inv, [Next]_vars
    PROVE  \/ effects' = effects
           \/ \E h \in Handlers, c \in Clouds :
                 /\ calls[h].stage = "checked" /\ calls[h].item \in Item
                 /\ calls[h].item.kind # "open" => c = calls[h].item.ref
                 /\ Changed(calls[h].item, c) /\ asked' = asked
<1>1. CASE HubStep \/ PullBootstrap \/ UNCHANGED vars
    BY <1>1 DEF HubStep, PullBootstrap, vars, nestVars
<1>2. CASE NestFaults \/ CloseRegister \/ OpenRegister
    BY <1>2 DEF NestFaults, NestCrash, LookupError, CloseRegister, OpenRegister, nestVars
<1>3. ASSUME NEW h \in Handlers, Ingest(h), UNCHANGED hubVars
      PROVE  \/ effects' = effects
             \/ \E c \in Clouds :
                   /\ calls[h].stage = "checked" /\ calls[h].item \in Item
                   /\ calls[h].item.kind # "open" => c = calls[h].item.ref
                   /\ Changed(calls[h].item, c) /\ asked' = asked
    <2>1. CASE LookupHit(h) \/ LookupMiss(h) \/ ApplyRefused(h) \/ InsertKey(h)
                  \/ InsertDuplicate(h) \/ InsertFails(h) \/ Answer(h)
        BY <2>1 DEF LookupHit, LookupMiss, ApplyRefused, InsertKey, InsertDuplicate, InsertFails,
                    Answer, nestVars
    <2>2. CASE ApplyOpen(h) \/ ApplyOrder(h) \/ ApplyPayment(h) \/ ApplyFire(h) \/ ApplyMove(h)
                  \/ ApplyRelease(h)
        <3>1. calls[h].stage = "checked" /\ asked' = asked
            BY <1>3, <2>2 DEF ApplyOpen, ApplyOrder, ApplyPayment, ApplyFire, ApplyMove, ApplyRelease,
                              Applying, hubVars
        <3>2. calls[h].item \in Item
            BY <3>1 DEF Inv, Shape
        <3>3. \/ effects' = effects
              \/ \E c \in Clouds : /\ calls[h].item.kind # "open" => c = calls[h].item.ref
                                   /\ Changed(calls[h].item, c)
            BY <2>2 DEF ApplyOpen, ApplyOrder, ApplyPayment, ApplyFire, ApplyMove, ApplyRelease,
                        Applying, Exists, ActiveAt
        <3> QED
            BY <3>1, <3>2, <3>3
    <2> QED
        BY <1>3, <2>1, <2>2 DEF Ingest
<1> QED
    BY <1>1, <1>2, <1>3 DEF Next, NestStep

-----------------------------------------------------------------------------
(* Whose session an entry names, if no open is sent for a session of the   *)
(* cloud ("reopen" is not among the operations)                            *)

OpenKey(l) == [op |-> "open", ref |-> l, table |-> None, n |-> 0]

\* A local session is mapped to what Nest stored for its open.
Mapped ==
    \A r \in Refs : idMap[r] # None =>
        /\ r \in Locals /\ idMap[r] \in Clouds
        /\ [key |-> OpenKey(r), sid |-> idMap[r]] \in log

Meant(i) ==
    LET a == asked[i.id].ref
    IN  IF i.kind = "open" THEN i.ref = a /\ a \in Locals
        ELSE i.ref = a \/ (a \in Refs /\ idMap[a] # None /\ i.ref = idMap[a])

Effect == [id: Nat, kind: Kinds, sid: Clouds]

EffectsKnown == \A k \in 1 .. Len(effects) : effects[k].id \in 1 .. Len(asked)

Aimed == Mapped /\ (\A i \in Entries : Meant(i)) /\ EffectsKnown /\ NoCrossBooking

Stable == \A r \in Refs : idMap[r] # None => idMap'[r] = idMap[r]

LEMMA InitAimed == Init => Aimed
<1> SUFFICES ASSUME Init PROVE Aimed
    OBVIOUS
<1> USE DEF Init, HubInit, NestInit, ChannelInit
<1>1. Entries = {}
    BY DEF Entries, Elems, NoFlush, Busy, IdleCall
<1> QED
    BY <1>1 DEF Aimed, Mapped, EffectsKnown, NoCrossBooking

\* An open that is answered maps its own session, to the one session Nest has
\* stored under its key; the answer is the same every time.
LEMMA SyncedMaps ==
    ASSUME Inv, Trace, Aimed, Synced, UNCHANGED nestVars
    PROVE  Mapped' /\ Stable
<1>1. PICK i \in Item : i = Head(flush.rest)
    BY SyncedEntries
<1>2. reply.status \in SyncedStatuses /\ reply # NoReply /\ log' = log
    BY DEF Synced, NoReply, SyncedStatuses, nestVars
<1>3. CASE Opens(i)
    <2>1. PICK c \in Clouds : c = reply.sid
        BY <1>3 DEF Opens, Inv, TypeOK, ChannelTypeOK, Reply, NoReply
    <2>2. idMap' = Remembered(i.ref, c)
        BY <1>1, <1>3, <2>1 DEF Synced
    <2>3. i.ref \in Locals /\ i.kind = "open"
        BY <1>1, <1>3, SyncedEntries DEF Aimed, Meant, Opens
    <2>4. c # None
        BY <1>3, <2>1 DEF Opens
    <2>5. [key |-> Key(i), sid |-> c] \in log
        BY <1>1, <1>2, <2>1, <2>4 DEF Trace, Answered, Recorded
    <2>6. [key |-> OpenKey(i.ref), sid |-> c] \in log
        BY <2>3, <2>5 DEF Key, OpenKey
    <2>7. ASSUME NEW r \in Refs, r # i.ref PROVE idMap'[r] = idMap[r]
        <3>1. idMap[r] # i.ref
            BY <2>3, IdsAssumption DEF Aimed, Mapped
        <3> QED
            BY <2>2, <2>7, <3>1 DEF Remembered
    <2>8. i.ref \in Refs /\ idMap'[i.ref] = c
        BY <2>2, <2>3 DEF Remembered, Refs
    <2>9. idMap[i.ref] # None => idMap[i.ref] = c
        <3> SUFFICES ASSUME idMap[i.ref] # None PROVE idMap[i.ref] = c
            OBVIOUS
        <3>1. [key |-> OpenKey(i.ref), sid |-> idMap[i.ref]] \in log
            BY <2>8 DEF Aimed, Mapped
        <3>2. PICK d : d = [key |-> OpenKey(i.ref), sid |-> c]
            OBVIOUS
        <3>3. PICK e : e = [key |-> OpenKey(i.ref), sid |-> idMap[i.ref]]
            OBVIOUS
        <3>4. d \in log /\ e \in log /\ d.key = e.key /\ d.sid = c /\ e.sid = idMap[i.ref]
            BY <2>6, <3>1, <3>2, <3>3
        <3> QED
            BY <3>4 DEF Trace, Answered
    <2>10. Stable
        BY <2>7, <2>8, <2>9 DEF Stable
    <2>11. Mapped'
        BY <1>2, <2>3, <2>6, <2>7, <2>8 DEF Aimed, Mapped, OpenKey
    <2> QED
        BY <2>10, <2>11
<1>4. CASE ~Opens(i)
    <2>1. idMap' = idMap
        BY <1>1, <1>4 DEF Synced
    <2> QED
        BY <1>2, <2>1 DEF Aimed, Mapped, OpenKey, Stable
<1> QED
    BY <1>3, <1>4

LEMMA StepMaps ==
    ASSUME Inv, Trace, Aimed, [Next]_vars
    PROVE  Mapped' /\ Stable
<1>1. CASE Synced /\ UNCHANGED nestVars
    BY <1>1, SyncedMaps
<1>2. CASE idMap' = idMap /\ log \subseteq log'
    BY <1>2 DEF Aimed, Mapped, OpenKey, Stable
<1>3. CASE NestStep
    BY <1>2, <1>3, NestEntries
<1>4. CASE (Enqueuing \/ HubFaults) /\ UNCHANGED nestVars
    <2>1. CASE Enqueuing
        BY <1>2, <1>4, <2>1, WaiterEntries DEF FromWaiter, nestVars
    <2>2. CASE HubFaults
        BY <1>2, <1>4, <2>2 DEF HubFaults, SendFails, GiveUp, HubCrash, StopOffline, KeepAndGoOn, nestVars
    <2> QED
        BY <1>4, <2>1, <2>2
<1>5. CASE (FlushStart \/ (\E h \in Handlers : Send(h)) \/ Refused \/ FlushEnd) /\ UNCHANGED nestVars
    BY <1>2, <1>5 DEF FlushStart, Send, Refused, FlushEnd, StopOffline, KeepAndGoOn, nestVars
<1>6. CASE PullBootstrap \/ UNCHANGED vars
    BY <1>2, <1>6 DEF PullBootstrap, vars, hubVars, nestVars
<1> QED
    BY <1>1, <1>3, <1>4, <1>5, <1>6 DEF Next, HubStep, Flushing

\* Following an entry never leads to another session.
LEMMA StaysMeant ==
    ASSUME Mapped', Stable, NEW i, NEW j, Follows(j, i), Meant(j), j.ref \in Refs,
           asked'[j.id] = asked[j.id]
    PROVE  Meant(i)'
<1> DEFINE a == asked[j.id].ref
<1>1. i.id = j.id /\ i.kind = j.kind
    BY DEF Follows, Same
<1>2. CASE i.ref = j.ref
    BY <1>1, <1>2 DEF Meant, Stable
<1>3. CASE j.kind # "open" /\ idMap'[j.ref] # None /\ i.ref = idMap'[j.ref]
    <2>1. j.ref \in Locals
        BY <1>3 DEF Mapped
    <2>2. j.ref = a
        <3>1. CASE a \in Refs /\ idMap[a] # None /\ j.ref = idMap[a]
            <4>1. j.ref \in Clouds
                BY <3>1 DEF Stable, Mapped
            <4> QED
                BY <2>1, <4>1, IdsAssumption
        <3> QED
            BY <1>3, <3>1 DEF Meant
    <2> QED
        BY <1>1, <1>3, <2>2 DEF Meant
<1> QED
    BY <1>2, <1>3 DEF Follows

LEMMA StepMeant ==
    ASSUME "reopen" \notin UserOps, Inv, Trace, Aimed, [Next]_vars
    PROVE  \A i \in Entries' : Meant(i)'
<1>1. Mapped' /\ Stable
    BY StepMaps
<1>2. \A j \in Entries : j \in Item /\ j.ref \in Refs /\ Meant(j) /\ j.id \in 1 .. Len(asked)
    BY ElemsOfItems, ItemFields DEF Trace, Aimed, Known, AsAsked
<1>3. CASE FromBefore
    BY <1>1, <1>2, <1>3, StaysMeant DEF FromBefore
<1>4. ASSUME NEW a, FromWaiter(a) PROVE \A i \in Entries' : Meant(i)'
    <2>1. /\ a \in Item /\ asked \in Seq(Item) /\ asked' = Append(asked, a) /\ a.id = Len(asked) + 1
          /\ a.kind = "open" => a.ref \in Locals
          /\ idMap' = idMap /\ \A i \in Entries' : i \in Entries \/ Follows(a, i)
        BY <1>4 DEF FromWaiter, Inv, TypeOK, HubTypeOK
    <2>2. /\ \A n \in 1 .. Len(asked) : asked'[n] = asked[n]
          /\ asked'[a.id] = a
        BY <2>1
    <2>3. a.ref \in Refs
        BY <2>1, ItemFields
    <2>4. ASSUME NEW i \in Entries' PROVE Meant(i)'
        <3>1. CASE i \in Entries
            BY <1>2, <2>1, <2>2, <3>1 DEF Meant
        <3>2. CASE Follows(a, i)
            BY <2>1, <2>2, <2>3, <3>2 DEF Follows, Same, Meant
        <3> QED
            BY <2>1, <3>1, <3>2
    <2> QED
        BY <2>4
<1> QED
    BY <1>3, <1>4, StepEntries

LEMMA StepBookings ==
    ASSUME "reopen" \notin UserOps, Inv, Trace, Aimed, [Next]_vars
    PROVE  EffectsKnown' /\ NoCrossBooking'
<1>1. Mapped' /\ Stable
    BY StepMaps
<1>2. /\ asked \in Seq(Item) /\ Len(asked) \in Nat
      /\ effects \in Seq(Effect)
    BY DEF Inv, TypeOK, HubTypeOK, NestTypeOK, Effect
<1>3. /\ Len(asked) <= Len(asked') /\ Len(asked') \in Nat
      /\ \A n \in 1 .. Len(asked) : asked'[n] = asked[n] /\ asked[n].ref \in Refs
    <2>1. \A n \in 1 .. Len(asked) : asked[n].ref \in Refs
        BY <1>2, ItemFields
    <2>2. CASE FromBefore
        BY <1>2, <2>1, <2>2 DEF FromBefore
    <2>3. ASSUME NEW a, FromWaiter(a)
          PROVE  /\ Len(asked) <= Len(asked') /\ Len(asked') \in Nat
                 /\ \A n \in 1 .. Len(asked) : asked'[n] = asked[n]
        BY <1>2, <2>3 DEF FromWaiter
    <2> QED
        BY <2>1, <2>2, <2>3, StepEntries
\* What was booked before stays right: the map only grows.
<1>4. ASSUME NEW e \in Effect, e.id \in 1 .. Len(asked),
             e.kind # "open" => e.sid = asked[e.id].ref \/ e.sid = idMap[asked[e.id].ref]
      PROVE  /\ e.id \in 1 .. Len(asked')
             /\ e.kind # "open" => e.sid = asked'[e.id].ref \/ e.sid = idMap'[asked'[e.id].ref]
    <2>1. e.sid # None
        BY IdsAssumption DEF Effect
    <2> QED
        BY <1>2, <1>3, <1>4, <2>1, <1>1 DEF Stable
<1>5. CASE effects' = effects
    <2>1. \A k \in 1 .. Len(effects) : effects[k] \in Effect
        BY <1>2
    <2> QED
        BY <1>4, <1>5, <2>1 DEF Aimed, EffectsKnown, NoCrossBooking
<1>6. ASSUME NEW h \in Handlers, NEW c \in Clouds,
             calls[h].stage = "checked", calls[h].item \in Item,
             calls[h].item.kind # "open" => c = calls[h].item.ref,
             Changed(calls[h].item, c), asked' = asked
      PROVE  EffectsKnown' /\ NoCrossBooking'
    <2>1. PICK i \in Item : i = calls[h].item
        BY <1>6
    <2>2. Meant(i) /\ AsAsked(i)
        BY <1>6, <2>1 DEF Entries, Busy, Aimed, Trace, Known
    <2>3. PICK e \in Effect :
              e = [id |-> i.id, kind |-> i.kind, sid |-> c]
        BY ItemFields DEF Effect
    <2>4. effects' = Append(effects, e) /\ e.id = i.id /\ e.kind = i.kind /\ e.sid = c
        BY <1>6, <2>1, <2>3 DEF Changed
    <2>5. /\ e.id \in 1 .. Len(asked)
          /\ e.kind # "open" => e.sid = asked[e.id].ref \/ e.sid = idMap[asked[e.id].ref]
        BY <1>6, <2>1, <2>2, <2>4 DEF Meant, AsAsked
    <2>6. \A k \in 1 .. Len(effects') :
              \/ effects'[k] = e
              \/ k \in 1 .. Len(effects) /\ effects'[k] = effects[k]
                    /\ effects[k] \in Effect
        BY <1>2, <2>4
    <2>7. ASSUME NEW k \in 1 .. Len(effects')
          PROVE  /\ effects'[k].id \in 1 .. Len(asked')
                 /\ effects'[k].kind # "open" =>
                       \/ effects'[k].sid = asked'[effects'[k].id].ref
                       \/ effects'[k].sid = idMap'[asked'[effects'[k].id].ref]
        BY <1>4, <2>5, <2>6 DEF Aimed, EffectsKnown, NoCrossBooking
    <2> QED
        BY <2>7 DEF EffectsKnown, NoCrossBooking
<1> QED
    BY <1>5, <1>6, StepEffects

LEMMA AimedThroughout ==
    ASSUME "reopen" \notin UserOps
    PROVE  Spec => []Aimed
<1>1. Inv /\ Trace /\ Aimed /\ [Next]_vars => Aimed'
    BY StepMaps, StepMeant, StepBookings DEF Aimed
<1> QED
    BY <1>1, InitAimed, Traced, Invariance, PTL DEF Spec

\* A local session is mapped to a session of the cloud once and for all:
\* whatever retry of an open is answered, PosSessionIdMap.remember stores what
\* is already there.
THEOREM MappingStable ==
    ASSUME "reopen" \notin UserOps
    PROVE  Spec => MappingIsStable
<1>1. Inv /\ Trace /\ Aimed /\ [Next]_vars
          => [\A r \in Refs : idMap[r] # None => idMap'[r] = idMap[r]]_vars
    BY StepMaps DEF Stable
<1> QED
    BY <1>1, AimedThroughout, Traced, Invariance, PTL DEF Spec, MappingIsStable

\* What a waiter did on one session is never booked on another: through
\* Resolve, remapQueueItem and the id map, an event that Nest carries out
\* names the session it was meant for, or the one that session became.
THEOREM BookedWhereMeant ==
    ASSUME "reopen" \notin UserOps
    PROVE  Spec => []NoCrossBooking
<1>1. Aimed => NoCrossBooking
    BY DEF Aimed
<1> QED
    BY <1>1, AimedThroughout, PTL

-----------------------------------------------------------------------------
(* Nothing disappears, if nothing is enqueued while a flush runs           *)
(* ("midflush" is not among the conditions)                                *)

InFlush == Ids(flush.kept) \cup Ids(flush.rest)

\* What a flush has in hand is still in the file, and what is in the file is
\* in the flush or done; between two flushes the file has everything.
Held ==
    /\ flush.phase = "idle" => InFlush = {}
    /\ flush.phase # "idle" => /\ InFlush \subseteq Ids(items)
                               /\ Ids(items) \subseteq acked \cup InFlush
    /\ 1 .. Len(asked) \subseteq acked \cup Ids(items)

\* The ids of a queue: an entry more, an entry less, two queues, rewritten.
LEMMA IdsFacts ==
    ASSUME NEW s \in Seq(Item)
    PROVE  /\ Ids(<<>>) = {}
           /\ \A i \in Item : Ids(Append(s, i)) = Ids(s) \cup {i.id}
           /\ \A t \in Seq(Item) : Ids(s \o t) = Ids(s) \cup Ids(t)
           /\ s # <<>> => Ids(s) = {Head(s).id} \cup Ids(Tail(s))
           /\ \A l \in Refs, c \in Clouds : Ids(Rewritten(s, l, c)) = Ids(s)
<1>1. \A t : Ids(t) = {e.id : e \in Elems(t)}
    BY DEF Ids, Elems
<1>2. Ids(<<>>) = {}
    BY DEF Ids
<1>3. ASSUME NEW i \in Item PROVE Ids(Append(s, i)) = Ids(s) \cup {i.id}
    <2>1. Elems(Append(s, i)) = Elems(s) \cup {i}
        BY ElemsAppend
    <2>2. PICK u : u = Append(s, i)
        OBVIOUS
    <2> QED
        BY <1>1, <2>1, <2>2
<1>4. ASSUME NEW t \in Seq(Item) PROVE Ids(s \o t) = Ids(s) \cup Ids(t)
    <2>1. PICK u : u = s \o t
        OBVIOUS
    <2>2. Elems(u) = Elems(s) \cup Elems(t)
        BY <2>1, ElemsConcat
    <2>3. Ids(u) = Ids(s) \cup Ids(t)
        BY <1>1, <2>2
    <2> QED
        BY <2>1, <2>3
<1>5. ASSUME s # <<>> PROVE Ids(s) = {Head(s).id} \cup Ids(Tail(s))
    <2>1. PICK t \in Seq(Item) : t = Tail(s)
        BY <1>5, TailOrder
    <2>2. Elems(t) \subseteq Elems(s) /\ Head(s) \in Elems(s)
        BY <1>5, <2>1, ElemsTail
    <2>3. ASSUME NEW n \in 1 .. Len(s) PROVE s[n] \in {Head(s)} \cup Elems(t)
        <3>1. CASE n = 1
            BY <1>5, <3>1
        <3>2. CASE n # 1
            <4>1. n - 1 \in 1 .. Len(t) /\ t[n - 1] = s[n]
                BY <1>5, <2>1, <3>2
            <4> QED
                BY <4>1 DEF Elems
        <3> QED
            BY <3>1, <3>2
    <2>4. Elems(s) = {Head(s)} \cup Elems(t)
        BY <2>2, <2>3 DEF Elems
    <2> QED
        BY <1>1, <2>1, <2>4
<1>6. ASSUME NEW l \in Refs, NEW c \in Clouds PROVE Ids(Rewritten(s, l, c)) = Ids(s)
    <2>1. PICK u \in Seq(Item) : u = Rewritten(s, l, c)
        BY RewrittenType
    <2>2. Len(u) = Len(s) /\ \A n \in 1 .. Len(s) : u[n].id = s[n].id
        BY <2>1, RewrittenType
    <2>3. Ids(u) = Ids(s)
        BY <2>2 DEF Ids
    <2> QED
        BY <2>1, <2>3
<1> QED
    BY <1>2, <1>3, <1>4, <1>5, <1>6

LEMMA IdsOfRest ==
    ASSUME Inv, flush.rest # <<>>
    PROVE  /\ Ids(RestOut) = Ids(flush.rest)
           /\ Ids(flush.rest) = {Outgoing.id} \cup Ids(Tail(flush.rest))
           /\ Outgoing.id = Head(flush.rest).id
<1>1. flush.rest \in Seq(Item)
    BY DEF Inv, TypeOK, HubTypeOK
<1>2. Ids(RestOut) = Ids(flush.rest)
    BY RestFacts DEF Ids
<1> QED
    BY <1>1, <1>2, RestFacts, IdsFacts

LEMMA InitHeld == Init => Held
BY DEF Init, HubInit, NoFlush, Held, InFlush, Ids

\* The loop stops: the file gets what was kept and what was not sent.
LEMMA StopHeld ==
    ASSUME Inv, Held, flush.phase # "idle", flush.rest # <<>>, StopOffline
    PROVE  Held'
<1>1. /\ flush.kept \in Seq(Item) /\ RestOut \in Seq(Item)
      /\ items' = flush.kept \o RestOut /\ flush' = NoFlush /\ UNCHANGED <<asked, acked>>
    BY RestFacts DEF StopOffline, Inv, TypeOK, HubTypeOK
<1> HIDE DEF RestOut
<1>2. Ids(items') = InFlush
    BY <1>1, IdsFacts, IdsOfRest DEF InFlush
<1>3. InFlush' = {}
    BY <1>1 DEF InFlush, NoFlush, Ids
<1> QED
    BY <1>1, <1>2, <1>3 DEF Held, NoFlush

\* The loop keeps the entry and goes on.
LEMMA KeepHeld ==
    ASSUME Inv, Held, flush.phase # "idle", flush.rest # <<>>, KeepAndGoOn
    PROVE  Held'
<1>1. /\ flush.kept \in Seq(Item) /\ Outgoing \in Item
      /\ flush'.kept = Append(flush.kept, Outgoing) /\ flush'.rest = Tail(flush.rest)
      /\ flush'.phase = "step" /\ UNCHANGED <<items, asked, acked>>
    BY RestFacts DEF KeepAndGoOn, Inv, TypeOK, HubTypeOK
<1>2. Ids(flush'.kept) = Ids(flush.kept) \cup {Outgoing.id}
    BY <1>1, IdsFacts
<1>3. InFlush' = InFlush
    BY <1>1, <1>2, IdsOfRest DEF InFlush
<1> QED
    BY <1>1, <1>3 DEF Held

\* The entry in hand is done: it may leave the flush.
LEMMA SyncedHeld ==
    ASSUME Inv, Held, Synced
    PROVE  Held'
<1>1. PICK i \in Item : i = Head(flush.rest)
    BY SyncedEntries
<1>2. PICK t \in Seq(Item) : t = Tail(flush.rest)
    BY RestFacts DEF Synced, Inv, Shape
<1>3. /\ flush.phase # "idle" /\ flush.rest # <<>> /\ flush'.phase = "step"
      /\ UNCHANGED <<items, asked>> /\ flush'.kept = flush.kept /\ acked' = acked \cup {i.id}
    BY <1>1 DEF Synced, Inv, Shape, TypeOK, HubTypeOK
<1>4. Ids(flush'.rest) = Ids(t)
    <2>1. CASE Opens(i)
        <3>1. PICK c \in Clouds : c = reply.sid
            BY <2>1 DEF Opens, Inv, TypeOK, ChannelTypeOK, Reply, NoReply
        <3>2. flush'.rest = Rewritten(t, i.ref, c)
            BY <1>1, <1>2, <2>1, <3>1 DEF Synced, Inv, TypeOK, HubTypeOK
        <3> QED
            BY <3>2, ItemFields, IdsFacts
    <2>2. CASE ~Opens(i)
        BY <1>1, <1>2, <2>2 DEF Synced, Inv, TypeOK, HubTypeOK
    <2> QED
        BY <2>1, <2>2
<1>5. Ids(flush.rest) = {i.id} \cup Ids(t)
    BY <1>1, <1>2, <1>3, IdsOfRest
<1>6. InFlush = {i.id} \cup InFlush'
    BY <1>3, <1>4, <1>5 DEF InFlush
<1> QED
    BY <1>3, <1>6 DEF Held

LEMMA StepHeld ==
    ASSUME "midflush" \notin Allowed, Inv, Held, [Next]_vars
    PROVE  Held'
<1>1. CASE UNCHANGED <<items, flush, asked, acked>>
    BY <1>1 DEF Held, InFlush
<1>2. CASE NestStep \/ PullBootstrap \/ UNCHANGED vars
    BY <1>1, <1>2 DEF NestStep, PullBootstrap, vars, hubVars
<1>3. ASSUME NEW a, FromWaiter(a) PROVE Held'
    <2>1. /\ flush.phase = "idle" /\ UNCHANGED <<flush, acked>>
          /\ asked \in Seq(Item) /\ items \in Seq(Item) /\ a \in Item
          /\ asked' = Append(asked, a) /\ a.id = Len(asked) + 1
        BY <1>3 DEF FromWaiter, Inv, TypeOK, HubTypeOK
    <2>2. PICK i \in Item : Same(i, a) /\ items' = Append(items, i)
        BY <1>3 DEF FromWaiter
    <2>3. Ids(items') = Ids(items) \cup {Len(asked) + 1}
        BY <2>1, <2>2, IdsFacts DEF Same
    <2>4. 1 .. Len(asked') = 1 .. Len(asked) \cup {Len(asked) + 1}
        BY <2>1
    <2> QED
        BY <2>1, <2>3, <2>4 DEF Held, InFlush
<1>4. CASE FlushStart
    <2>1. /\ flush'.phase = "step" /\ flush'.rest = items /\ flush'.kept = <<>>
          /\ UNCHANGED <<items, asked, acked>>
        BY <1>4 DEF FlushStart
    <2>2. InFlush' = Ids(items)
        BY <2>1 DEF InFlush, Ids
    <2> QED
        BY <2>1, <2>2 DEF Held
<1>5. ASSUME NEW h \in Handlers, Send(h) PROVE Held'
    <2>1. /\ flush.phase = "step" /\ flush.rest # <<>> /\ flush'.phase = "waiting"
          /\ flush'.rest = RestOut /\ flush'.kept = flush.kept
          /\ UNCHANGED <<items, asked, acked>>
        BY <1>5 DEF Send, Inv, TypeOK, HubTypeOK
    <2>2. InFlush' = InFlush
        BY <2>1, IdsOfRest DEF InFlush
    <2> QED
        BY <2>1, <2>2 DEF Held
<1>6. CASE Refused \/ SendFails \/ GiveUp
    <2>1. flush.phase # "idle" /\ flush.rest # <<>> /\ (StopOffline \/ KeepAndGoOn)
        BY <1>6 DEF Refused, SendFails, GiveUp, Inv, Shape
    <2> QED
        BY <2>1, StopHeld, KeepHeld
<1>7. CASE FlushEnd
    <2>1. /\ flush.phase = "step" /\ flush.rest = <<>> /\ items' = flush.kept
          /\ flush' = NoFlush /\ UNCHANGED <<asked, acked>>
        BY <1>7 DEF FlushEnd
    <2>2. Ids(items') = InFlush /\ InFlush' = {}
        BY <2>1 DEF InFlush, NoFlush, Ids
    <2> QED
        BY <2>1, <2>2 DEF Held, NoFlush
<1>8. CASE HubCrash
    <2>1. flush' = NoFlush /\ UNCHANGED <<items, asked, acked>>
        BY <1>8 DEF HubCrash
    <2>2. InFlush' = {}
        BY <2>1 DEF InFlush, NoFlush, Ids
    <2> QED
        BY <2>1, <2>2 DEF Held, NoFlush
<1>9. CASE HubStep
    BY <1>3, <1>4, <1>5, <1>6, <1>7, <1>8, <1>9, SyncedHeld, WaiterEntries
       DEF HubStep, Flushing, HubFaults
<1> QED
    BY <1>2, <1>9 DEF Next

\* What a waiter did is in the queue of the hub until Nest has it, across
\* flushes that stop or go on, crashes and restarts; provided that no entry is
\* enqueued while flushIfPossible waits for an answer (its copy of the queue
\* would be written over such an entry).
THEOREM NothingIsLost ==
    ASSUME "midflush" \notin Allowed
    PROVE  Spec => []NothingLost
<1>1. Inv /\ Held /\ [Next]_vars => Held'
    BY StepHeld
<1>2. Spec => []Held
    BY <1>1, InitHeld, Invariance, PTL DEF Spec
<1>3. Held => NothingLost
    BY DEF Held, NothingLost
<1> QED
    BY <1>2, <1>3, PTL

-----------------------------------------------------------------------------
(* Nothing is carried out twice, if the requests of Nest do not overlap,   *)
(* Nest does not die between an event and its key, and no open is sent for *)
(* a session of the cloud                                                  *)

OneAtATime ==
    /\ \A g, h \in Handlers : g = h
    /\ "nestcrash" \notin Allowed /\ "dberror" \notin Allowed
    /\ "reopen" \notin UserOps

\* The key under which an event e was stored, a being what was asked for.
EffectKey(e, a) ==
    [op    |-> e.kind,
     ref   |-> IF e.kind \in {"order", "pay"} THEN None
               ELSE IF e.kind = "open" THEN a.ref ELSE e.sid,
     table |-> IF e.kind = "move" THEN a.table ELSE None,
     n     |-> IF e.kind \in {"order", "pay", "fire"} THEN e.id ELSE 0]

\* An event that was carried out has its key stored, or is about to.
CarriedOut(e) ==
    /\ e.kind = asked[e.id].kind
    /\ Exists(e.sid)
    /\ \/ Logged(EffectKey(e, asked[e.id]))
       \/ \E h \in Handlers : calls[h].stage = "applied" /\ calls[h].item.id = e.id

Once ==
    /\ \A k \in 1 .. Len(effects) : CarriedOut(effects[k])
    /\ \A h \in Handlers : calls[h].stage = "checked" => ~Logged(Key(calls[h].item))
    /\ \A h \in Handlers : Busy(h) /\ calls[h].item.kind # "open" =>
          idMap[calls[h].item.ref] = None
    /\ reply # NoReply => \A h \in Handlers : ~Busy(h)
    /\ AppliedAtMostOnce

LEMMA InitOnce == Init => Once
BY DEF Init, HubInit, NestInit, ChannelInit, Once, IdleCall, AppliedAtMostOnce, Busy

\* A retry of an event that was carried out has the key of the first attempt:
\* the session it names is the same, because it is resolved.
LEMMA SameKey ==
    ASSUME Inv, Trace, Aimed, Once, NEW h \in Handlers, Busy(h),
           NEW k \in 1 .. Len(effects), effects[k].id = calls[h].item.id
    PROVE  /\ EffectKey(effects[k], asked[effects[k].id]) = Key(calls[h].item)
           /\ calls[h].item.kind # "open" => effects[k].sid = calls[h].item.ref
<1>1. PICK i \in Item : i = calls[h].item
    BY DEF Trace, Carries
<1>2. PICK e \in Effect : e = effects[k]
    <2>1. effects \in Seq(Effect)
        BY DEF Inv, TypeOK, NestTypeOK, Effect
    <2> QED
        BY <2>1
<1>3. Meant(i) /\ AsAsked(i) /\ (i.kind # "open" => idMap[i.ref] = None)
    BY <1>1 DEF Entries, Aimed, Trace, Known, Once
<1>4. PICK a \in Item : a = asked[e.id]
    <2>1. asked \in Seq(Item) /\ e.id = i.id
        BY <1>1, <1>2 DEF Inv, TypeOK, HubTypeOK
    <2> QED
        BY <1>3, <2>1 DEF AsAsked
<1>5. /\ e.id = i.id /\ e.kind = i.kind /\ a = asked[i.id] /\ a.kind = i.kind /\ a.table = i.table
      /\ a.ref \in Refs /\ e.sid \in Clouds /\ e.sid # None
    <2>1. e.id = i.id /\ a = asked[i.id]
        BY <1>1, <1>2, <1>4
    <2>2. e.kind = a.kind
        BY <1>2, <1>4 DEF Once, CarriedOut
    <2>3. a.kind = i.kind /\ a.table = i.table
        BY <1>3, <2>1 DEF AsAsked, Same
    <2>4. a.ref \in Refs
        BY ItemFields
    <2>5. e.sid \in Clouds /\ e.sid # None
        BY IdsAssumption DEF Effect
    <2> QED
        BY <2>1, <2>2, <2>3, <2>4, <2>5
<1>6. CASE i.kind # "open"
    <2>1. e.sid = a.ref \/ e.sid = idMap[a.ref]
        BY <1>2, <1>4, <1>5, <1>6 DEF Aimed, NoCrossBooking
    <2>2. i.ref = a.ref \/ (idMap[a.ref] # None /\ i.ref = idMap[a.ref])
        BY <1>3, <1>5, <1>6 DEF Meant
    <2>3. idMap[a.ref] # None => a.ref \in Locals
        BY <1>5 DEF Aimed, Mapped
    <2>4. e.sid = i.ref
        <3>1. CASE e.sid = a.ref
            BY <1>5, <2>2, <2>3, <3>1, IdsAssumption
        <3>2. CASE e.sid = idMap[a.ref]
            BY <1>3, <1>5, <1>6, <2>2, <3>2
        <3> QED
            BY <2>1, <3>1, <3>2
    <2> QED
        BY <1>1, <1>2, <1>4, <1>5, <1>6, <2>4 DEF EffectKey, Key
<1>7. CASE i.kind = "open"
    <2>1. i.ref = a.ref
        BY <1>3, <1>5, <1>7 DEF Meant
    <2> QED
        BY <1>1, <1>2, <1>4, <1>5, <1>7, <2>1 DEF EffectKey, Key
<1> QED
    BY <1>6, <1>7

\* What was carried out stays so while the key is stored, or the request that
\* carried it out goes on.
LEMMA StaysCarriedOut ==
    ASSUME NEW e, CarriedOut(e), asked'[e.id] = asked[e.id], log \subseteq log',
           Exists(e.sid) => Exists(e.sid)',
           \A h \in Handlers : calls[h].stage = "applied" /\ calls[h].item.id = e.id =>
               \/ calls'[h] = calls[h]
               \/ Logged(EffectKey(e, asked[e.id]))'
    PROVE  /\ e.kind = asked'[e.id].kind
           /\ Exists(e.sid)'
           /\ \/ \E f \in log' : f.key = EffectKey(e, asked'[e.id])
              \/ \E h \in Handlers : calls'[h].stage = "applied" /\ calls'[h].item.id = e.id
BY DEF CarriedOut, Logged, EffectKey

\* What was asked for is not changed afterwards.
LEMMA AskedStays ==
    ASSUME Inv, Aimed, [Next]_vars, NEW k \in 1 .. Len(effects)
    PROVE  asked'[effects[k].id] = asked[effects[k].id]
<1>1. effects[k].id \in 1 .. Len(asked) /\ asked \in Seq(Item)
    BY DEF Aimed, EffectsKnown, Inv, TypeOK, HubTypeOK
<1>2. ASSUME NEW a, FromWaiter(a) PROVE asked'[effects[k].id] = asked[effects[k].id]
    <2>1. asked' = Append(asked, a)
        BY <1>2 DEF FromWaiter
    <2> QED
        BY <1>1, <2>1
<1> QED
    BY <1>2, StepEntries DEF FromBefore

\* Everything was carried out once before the step, and still is after it.
LEMMA StaysOnce ==
    ASSUME Inv, Aimed, Once, [Next]_vars, effects' = effects, log \subseteq log',
           \A c \in Clouds : Exists(c) => Exists(c)',
           \A h \in Handlers, k \in 1 .. Len(effects) :
               calls[h].stage = "applied" /\ calls[h].item.id = effects[k].id =>
                  \/ calls'[h] = calls[h]
                  \/ \E f \in log' : f.key = EffectKey(effects[k], asked[effects[k].id])
    PROVE  /\ \A k \in 1 .. Len(effects') : CarriedOut(effects[k])'
           /\ AppliedAtMostOnce'
<1>1. ASSUME NEW k \in 1 .. Len(effects) PROVE CarriedOut(effects[k])'
    <2>1. effects[k].sid \in Clouds
        <3>1. effects \in Seq(Effect)
            BY DEF Inv, TypeOK, NestTypeOK, Effect
        <3>2. effects[k] \in Effect
            BY <3>1
        <3> QED
            BY <3>2 DEF Effect
    <2>2. PICK e : e = effects[k]
        OBVIOUS
    <2>3. CarriedOut(e) /\ asked'[e.id] = asked[e.id] /\ e.sid \in Clouds
        BY <2>1, <2>2, AskedStays DEF Once
    <2>4. /\ e.kind = asked'[e.id].kind /\ Exists(e.sid)'
          /\ \/ \E f \in log' : f.key = EffectKey(e, asked'[e.id])
             \/ \E h \in Handlers : calls'[h].stage = "applied" /\ calls'[h].item.id = e.id
        BY <2>2, <2>3 DEF CarriedOut, Logged
    <2>5. effects'[k] = e
        BY <2>2
    <2> QED
        BY <2>4, <2>5 DEF CarriedOut, Logged, EffectKey, Exists
<1>2. AppliedAtMostOnce'
    BY DEF Once, AppliedAtMostOnce
<1> QED
    BY <1>1, <1>2

LEMMA HubOnce ==
    ASSUME OneAtATime, Inv, Trace, Aimed, Once, HubStep \/ PullBootstrap \/ UNCHANGED vars
    PROVE  Once'
<1>1. UNCHANGED nestVars /\ [Next]_vars
    BY DEF HubStep, PullBootstrap, vars, Next
<1>2. calls \in [Handlers -> Call]
    BY DEF Inv, TypeOK, ChannelTypeOK
<1>3. ASSUME NEW h \in Handlers, Send(h) PROVE Once'
    <2>1. /\ flush.phase = "step" /\ flush.rest # <<>> /\ calls[h].stage = "idle"
          /\ calls' = [calls EXCEPT ![h] = [IdleCall EXCEPT !.stage = "received", !.item = Outgoing]]
          /\ UNCHANGED <<idMap, reply>>
        BY <1>3 DEF Send
    <2>2. PICK i \in Item : i = Head(flush.rest)
        BY <2>1, RestFacts
    <2>3. PICK o \in Item : o = Outgoing
        BY <2>1, RestFacts
    <2>4. calls'[h].item = o /\ calls'[h].stage = "received"
        BY <1>2, <2>1, <2>3 DEF IdleCall
    <2>5. \A g \in Handlers : g # h => calls'[g] = calls[g]
        BY <1>2, <2>1
    <2>6. o.kind # "open" => idMap[o.ref] = None
        <3>1. idMap[i.ref] # None => i.ref \in Locals /\ idMap[i.ref] \in Clouds
            BY ItemFields DEF Aimed, Mapped
        <3>2. idMap[i.ref] # None => idMap[idMap[i.ref]] = None
            BY <3>1, IdsAssumption DEF Aimed, Mapped, Refs
        <3>3. o = IF i.kind = "open" THEN i ELSE [i EXCEPT !.ref = Resolve(i.ref)]
            BY <2>2, <2>3 DEF Outgoing
        <3>4. PICK r : r = Resolve(i.ref)
            OBVIOUS
        <3>5. [i EXCEPT !.ref = r].ref = r /\ [i EXCEPT !.ref = r].kind = i.kind
            BY DEF Item
        <3>6. o.kind # "open" => o.ref = r
            BY <3>3, <3>4, <3>5
        <3> QED
            BY <3>2, <3>4, <3>6 DEF Resolve
    <2>7. reply = NoReply
        BY <2>1, NotWaiting
    <2>8. \A g \in Handlers : calls[g].stage = "applied" => calls'[g] = calls[g]
        BY <2>1, <2>5
    <2>9. (\A k \in 1 .. Len(effects') : CarriedOut(effects[k])') /\ AppliedAtMostOnce'
        BY <1>1, <2>8, StaysOnce DEF nestVars, Exists
    <2>10. \A g \in Handlers : calls'[g].stage = "checked" =>
               \A f \in log' : f.key # Key(calls'[g].item)
        BY <1>1, <2>4, <2>5 DEF Once, Logged, nestVars
    <2>11. \A g \in Handlers : Busy(g)' /\ calls'[g].item.kind # "open" =>
               idMap'[calls'[g].item.ref] = None
        BY <2>1, <2>4, <2>5, <2>6 DEF Once, Busy
    <2>12. reply' = NoReply
        BY <2>1, <2>7
    <2> QED
        BY <2>9, <2>10, <2>11, <2>12 DEF Once, Logged
<1>4. ASSUME UNCHANGED calls, reply' \in {reply, NoReply},
             idMap' = idMap \/ \A h \in Handlers : ~Busy(h)
      PROVE  Once'
    <2>1. (\A k \in 1 .. Len(effects') : CarriedOut(effects[k])') /\ AppliedAtMostOnce'
        BY <1>1, <1>4, StaysOnce DEF nestVars, Exists
    <2> QED
        BY <1>1, <1>4, <2>1 DEF Once, Busy, Logged, nestVars
<1>5. CASE Enqueuing
    BY <1>4, <1>5, WaiterEntries, <1>1 DEF FromWaiter, channelVars
<1>6. CASE Synced
    <2>1. reply # NoReply
        BY <1>6 DEF Synced, NoReply, SyncedStatuses
    <2> QED
        BY <1>4, <1>6, <2>1 DEF Synced, Once
<1>7. CASE FlushStart \/ Refused \/ FlushEnd \/ HubFaults
    BY <1>4, <1>7 DEF FlushStart, Refused, FlushEnd, HubFaults, SendFails, GiveUp, HubCrash,
                      StopOffline, KeepAndGoOn, channelVars
<1>8. CASE PullBootstrap \/ UNCHANGED vars
    BY <1>4, <1>8 DEF PullBootstrap, vars, hubVars, channelVars
<1> QED
    BY <1>3, <1>5, <1>6, <1>7, <1>8 DEF HubStep, Flushing

\* The services: a session never goes away, and the one an event is booked on
\* is there.
LEMMA ServicesKeepSessions ==
    ASSUME Inv, NEW h \in Handlers, Ingest(h)
    PROVE  /\ \A c \in Clouds : Exists(c) => Exists(c)'
           /\ \/ effects' = effects
              \/ \E c \in Clouds : /\ calls[h].item.kind # "open" => c = calls[h].item.ref
                                   /\ Changed(calls[h].item, c) /\ Exists(c)'
<1>1. sess \in [Clouds -> Session \cup {NoSession}] /\ effects \in Seq(Effect)
    BY DEF Inv, TypeOK, NestTypeOK, Effect
<1>2. \A c \in Clouds : [table |-> c, st |-> "open"].st # "none"
    OBVIOUS
<1>4. CASE ApplyOpen(h)
    <2>1. PICK c \in Clouds : /\ Changed(calls[h].item, c)
                              /\ \/ sess' = sess /\ IsActive(c)
                                 \/ sess' = [sess EXCEPT ![c] = [table |-> calls[h].item.table, st |-> "open"]]
        BY <1>4 DEF ApplyOpen, ActiveAt
    <2>2. Exists(c)' /\ \A d \in Clouds : Exists(d) => Exists(d)'
        BY <1>1, <2>1 DEF Exists, IsActive
    <2>3. calls[h].item.kind = "open"
        BY <1>4 DEF ApplyOpen, Applying
    <2> QED
        BY <2>1, <2>2, <2>3
<1>5. CASE ApplyOrder(h) \/ ApplyFire(h)
    <2>1. sess' = sess /\ (effects' # effects => Exists(calls[h].item.ref)
                                                  /\ Changed(calls[h].item, calls[h].item.ref))
        BY <1>5 DEF ApplyOrder, ApplyFire
    <2> QED
        BY <2>1 DEF Exists
<1>6. CASE ApplyPayment(h) \/ ApplyMove(h) \/ ApplyRelease(h)
    <2>1. /\ Exists(calls[h].item.ref) /\ Changed(calls[h].item, calls[h].item.ref)
          /\ \/ \E st \in {"open", "paid", "closed"} : sess' = [sess EXCEPT ![calls[h].item.ref].st = st]
             \/ sess' = [sess EXCEPT ![calls[h].item.ref].table = calls[h].item.table]
        BY <1>6 DEF ApplyPayment, ApplyMove, ApplyRelease
    <2>2. PICK r \in Clouds : r = calls[h].item.ref
        BY <2>1 DEF Exists
    <2>3. sess[r] \in Session \cup {NoSession}
        BY <1>1
    <2>4. sess[r] \in Session
        BY <2>1, <2>2, <2>3 DEF Exists, NoSession
    <2>5. \A st : [sess[r] EXCEPT !.st = st].st = st
        BY <2>4 DEF Session
    <2>6. \A t : [sess[r] EXCEPT !.table = t].st = sess[r].st
        BY <2>4 DEF Session
    <2>7. sess'[r].st # "none" /\ \A d \in Clouds : d # r => sess'[d] = sess[d]
        <3>1. CASE \E st \in {"open", "paid", "closed"} : sess' = [sess EXCEPT ![r].st = st]
            BY <1>1, <2>5, <3>1
        <3>2. CASE sess' = [sess EXCEPT ![r].table = calls[h].item.table]
            BY <1>1, <2>1, <2>2, <2>6, <3>2 DEF Exists
        <3> QED
            BY <2>1, <2>2, <3>1, <3>2
    <2>8. Exists(r)' /\ \A d \in Clouds : Exists(d) => Exists(d)'
        BY <2>7 DEF Exists
    <2> QED
        BY <2>1, <2>2, <2>8
<1>7. CASE LookupHit(h) \/ LookupMiss(h) \/ ApplyRefused(h) \/ InsertKey(h) \/ InsertDuplicate(h)
              \/ InsertFails(h) \/ Answer(h)
    BY <1>7 DEF LookupHit, LookupMiss, ApplyRefused, InsertKey, InsertDuplicate, InsertFails, Answer,
                nestVars, Exists
<1> QED
    BY <1>4, <1>5, <1>6, <1>7 DEF Ingest

\* An event is carried out: it was not before, for its key was looked up.
LEMMA CarryOutOnce ==
    ASSUME OneAtATime, Inv, Trace, Aimed, Once, NEW h \in Handlers, Ingest(h), UNCHANGED hubVars,
           calls[h].stage = "checked", calls[h].item \in Item, NEW c \in Clouds,
           Changed(calls[h].item, c), Exists(c)', UNCHANGED log,
           calls'[h].stage = "applied", calls'[h].item = calls[h].item
    PROVE  (\A k \in 1 .. Len(effects') : CarriedOut(effects[k])') /\ AppliedAtMostOnce'
<1>1. PICK i \in Item : i = calls[h].item
    OBVIOUS
<1>2. PICK e \in Effect : e = [id |-> i.id, kind |-> i.kind, sid |-> c]
    BY ItemFields DEF Effect
<1>3. /\ effects' = Append(effects, e) /\ effects \in Seq(Effect)
      /\ e.id = i.id /\ e.kind = i.kind /\ e.sid = c
    BY <1>1, <1>2 DEF Changed, Inv, TypeOK, NestTypeOK, Effect
<1>4. AsAsked(i)
    BY <1>1 DEF Entries, Busy, Trace, Known
<1>5. Exists(c)' /\ \A d \in Clouds : Exists(d) => Exists(d)'
    BY ServicesKeepSessions
<1>6. \A g \in Handlers : g = h
    BY DEF OneAtATime
<1>7. ASSUME NEW k \in 1 .. Len(effects) PROVE effects[k].id # i.id
    <2> SUFFICES ASSUME effects[k].id = i.id PROVE FALSE
        OBVIOUS
    <2>1. EffectKey(effects[k], asked[effects[k].id]) = Key(i)
        BY <1>1, SameKey DEF Busy
    <2>2. ~Logged(Key(i))
        BY <1>1 DEF Once
    <2>3. CarriedOut(effects[k])
        BY DEF Once
    <2> QED
        BY <1>6, <2>1, <2>2, <2>3 DEF CarriedOut
<1>8. ASSUME NEW k \in 1 .. Len(effects) PROVE CarriedOut(effects[k])'
    <2>1. PICK f \in Effect : f = effects[k]
        BY <1>3
    <2>2. CarriedOut(f) /\ f.sid \in Clouds /\ effects'[k] = f
        BY <1>3, <2>1 DEF Once, Effect
    <2>3. Logged(EffectKey(f, asked[f.id]))
        BY <1>6, <2>2 DEF CarriedOut
    <2> QED
        BY <1>5, <2>2, <2>3 DEF CarriedOut, Logged, EffectKey, hubVars, Exists
<1>9. CarriedOut(effects[Len(effects)])'
    <2>1. effects'[Len(effects) + 1] = e /\ effects'[Len(effects')] = e /\ Len(effects') = Len(effects) + 1
        BY <1>3
    <2>2. e.kind = asked'[e.id].kind
        BY <1>3, <1>4 DEF AsAsked, Same, hubVars
    <2>3. \E g \in Handlers : calls'[g].stage = "applied" /\ calls'[g].item.id = e.id
        BY <1>1, <1>3
    <2>4. sess'[c].st # "none"
        BY <1>5 DEF Exists
    <2> QED
        BY <1>3, <2>1, <2>2, <2>3, <2>4 DEF CarriedOut, Exists
<1> QED
    <2>1. /\ Len(effects') = Len(effects) + 1 /\ effects'[Len(effects')] = e /\ Len(effects) \in Nat
          /\ \A k \in 1 .. Len(effects) : effects'[k] = effects[k]
        BY <1>3
    <2>2. \A k \in 1 .. Len(effects') : k \in 1 .. Len(effects) \/ k = Len(effects')
        BY <2>1
    <2>3. ASSUME NEW k \in 1 .. Len(effects') PROVE CarriedOut(effects[k])'
        BY <1>8, <1>9, <2>2
    <2>4. AppliedAtMostOnce'
        BY <1>3, <1>7, <2>1, <2>2 DEF Once, AppliedAtMostOnce
    <2> QED
        BY <2>3, <2>4

LEMMA NestOnce ==
    ASSUME OneAtATime, Inv, Trace, Aimed, Once, NestStep
    PROVE  Once'
<1>1. UNCHANGED hubVars /\ [Next]_vars
    BY DEF NestStep, Next
<1>2. \A g, h \in Handlers : g = h
    BY DEF OneAtATime
\* The rest of the invariant, for a request that goes on.
<1>3. ASSUME NEW h \in Handlers, Busy(h), calls'[h].item = calls[h].item, reply' = reply,
             calls'[h].stage = "checked" => \A f \in log' : f.key # Key(calls[h].item),
             \A k \in 1 .. Len(effects') : CarriedOut(effects[k])', AppliedAtMostOnce'
      PROVE  Once'
    <2>1. reply = NoReply
        BY <1>3 DEF Once
    <2>2. \A g \in Handlers : Busy(g)' /\ calls'[g].item.kind # "open" => idMap'[calls'[g].item.ref] = None
        BY <1>1, <1>2, <1>3 DEF Once, hubVars
    <2>3. \A g \in Handlers : calls'[g].stage = "checked" => \A f \in log' : f.key # Key(calls'[g].item)
        BY <1>2, <1>3
    <2> QED
        BY <1>3, <2>1, <2>2, <2>3 DEF Once, Logged
<1>4. ASSUME NEW h \in Handlers, Ingest(h) PROVE Once'
    <2>1. \A c \in Clouds : Exists(c) => Exists(c)'
        BY <1>4, ServicesKeepSessions
    <2>2. log \subseteq log'
        BY NestEntries
\* A step that carries nothing out.
    <2>3. ASSUME effects' = effects, calls[h].stage = "applied" =>
                     \A k \in 1 .. Len(effects) : effects[k].id = calls[h].item.id =>
                        \E f \in log' : f.key = EffectKey(effects[k], asked[effects[k].id])
          PROVE  (\A k \in 1 .. Len(effects') : CarriedOut(effects[k])') /\ AppliedAtMostOnce'
        BY <1>1, <1>2, <2>1, <2>2, <2>3, StaysOnce
    <2>4. CASE LookupHit(h) \/ LookupMiss(h)
        <3>1. /\ calls[h].stage = "received" /\ UNCHANGED <<nestVars, reply>>
              /\ \/ Proceed(h) /\ ~Logged(Key(calls[h].item))
                 \/ \E status, sid : Finish(h, status, sid)
            BY <2>4 DEF LookupHit, LookupMiss
        <3>2. /\ calls'[h].item = calls[h].item
              /\ calls'[h].stage = "checked" => ~Logged(Key(calls[h].item))
            BY <3>1, RequestSteps
        <3> QED
            BY <1>3, <2>3, <3>1, <3>2 DEF Busy, Logged, nestVars
    <2>5. CASE ApplyOpen(h) \/ ApplyOrder(h) \/ ApplyPayment(h) \/ ApplyFire(h) \/ ApplyMove(h)
                  \/ ApplyRelease(h) \/ ApplyRefused(h)
        <3>1. /\ calls[h].stage = "checked" /\ UNCHANGED <<log, reply>> /\ \E ok, sid : Return(h, ok, sid)
            BY <2>5 DEF ApplyOpen, ApplyOrder, ApplyPayment, ApplyFire, ApplyMove, ApplyRelease,
                        ApplyRefused, Applying, nestVars
        <3>2. calls'[h].item = calls[h].item /\ calls'[h].stage = "applied"
            BY <3>1, RequestSteps
        <3>3. calls[h].item \in Item
            BY <3>1 DEF Inv, Shape
        <3>4. (\A k \in 1 .. Len(effects') : CarriedOut(effects[k])') /\ AppliedAtMostOnce'
            BY <1>1, <1>4, <2>3, <3>1, <3>2, <3>3, ServicesKeepSessions, CarryOutOnce
        <3> QED
            BY <1>3, <3>1, <3>2, <3>4 DEF Busy
    <2>6. CASE InsertKey(h) \/ InsertDuplicate(h) \/ InsertFails(h)
        <3>1. /\ calls[h].stage = "applied" /\ UNCHANGED <<effects, sess, reply>>
              /\ \E status, sid : Finish(h, status, sid)
              /\ \/ \E f \in log' : f.key = Key(calls[h].item)
                 \/ ~ForeignKeyHolds(calls[h].item)
            <4>1. PICK f : f = [key |-> Key(calls[h].item), sid |-> calls[h].sid]
                OBVIOUS
            <4>2. CASE InsertKey(h)
                <5>1. log' = log \cup {f} /\ f.key = Key(calls[h].item)
                    BY <4>1, <4>2 DEF InsertKey
                <5> QED
                    BY <4>2, <5>1 DEF InsertKey
            <4>3. CASE InsertDuplicate(h)
                BY <4>3 DEF InsertDuplicate, Logged, nestVars
            <4>4. CASE InsertFails(h)
                BY <4>4 DEF InsertFails, nestVars, OneAtATime, Fault
            <4> QED
                BY <2>6, <4>2, <4>3, <4>4
        <3>2. calls'[h].item = calls[h].item /\ calls'[h].stage = "done"
            BY <3>1, RequestSteps
        <3>3. ASSUME NEW k \in 1 .. Len(effects), effects[k].id = calls[h].item.id
              PROVE  \E f \in log' : f.key = EffectKey(effects[k], asked[effects[k].id])
            <4>1. /\ EffectKey(effects[k], asked[effects[k].id]) = Key(calls[h].item)
                  /\ calls[h].item.kind # "open" => effects[k].sid = calls[h].item.ref
                BY <3>1, <3>3, SameKey DEF Busy
            <4>2. Exists(effects[k].sid)
                BY DEF Once, CarriedOut
            <4> QED
                BY <3>1, <4>1, <4>2 DEF ForeignKeyHolds
        <3> QED
            BY <1>3, <2>3, <3>1, <3>2, <3>3 DEF Busy
    <2>7. CASE Answer(h)
        <3>1. /\ calls[h].stage = "done" /\ UNCHANGED nestVars
              /\ calls' = [calls EXCEPT ![h] = IdleCall] /\ calls \in [Handlers -> Call]
            BY <2>7 DEF Answer, Inv, TypeOK, ChannelTypeOK
        <3>2. calls'[h].stage = "idle"
            BY <3>1 DEF IdleCall
        <3>3. \A g \in Handlers : calls'[g].stage = "idle"
            BY <1>2, <3>2
        <3>4. (\A k \in 1 .. Len(effects') : CarriedOut(effects[k])') /\ AppliedAtMostOnce'
            BY <2>3, <3>1 DEF nestVars
        <3> QED
            BY <3>3, <3>4 DEF Once, Busy
    <2> QED
        BY <1>4, <2>4, <2>5, <2>6, <2>7 DEF Ingest
<1>5. CASE CloseRegister \/ OpenRegister
    <2>1. UNCHANGED <<sess, log, effects, calls, reply>>
        BY <1>5 DEF CloseRegister, OpenRegister, channelVars
    <2>2. (\A k \in 1 .. Len(effects') : CarriedOut(effects[k])') /\ AppliedAtMostOnce'
        BY <1>1, <2>1, StaysOnce DEF Exists
    <2> QED
        BY <1>1, <2>1, <2>2 DEF Once, Busy, Logged, hubVars
<1>6. ~NestFaults
    BY DEF NestFaults, NestCrash, LookupError, Fault, OneAtATime
<1> QED
    BY <1>4, <1>5, <1>6 DEF NestStep

\* No event is carried out twice, whatever is retried after a timeout, an
\* error of a gateway or a restart of the hub: ingest finds the key.  That
\* takes requests that do not overlap and a Nest that does not die, or miss
\* the answer of the database, between an event and its key (applyEvent comes
\* before the insert).
THEOREM CarriedOutOnce ==
    ASSUME OneAtATime
    PROVE  Spec => []AppliedAtMostOnce
<1>1. "reopen" \notin UserOps
    BY DEF OneAtATime
<1>2. Inv /\ Trace /\ Aimed /\ Once /\ [Next]_vars => Once'
    BY HubOnce, NestOnce DEF Next
<1>3. Spec => []Aimed
    BY <1>1, AimedThroughout
<1>4. Spec => []Once
    BY <1>2, <1>3, InitOnce, Traced, Invariance, PTL DEF Spec
<1>5. Once => AppliedAtMostOnce
    BY DEF Once
<1> QED
    BY <1>4, <1>5, PTL

-----------------------------------------------------------------------------
(* Everything is carried out, in order, if requests follow one another and *)
(* only time-outs and restarts of the hub are in the way                   *)

\* What a party may do: it is opened with its table, it orders, fires, moves to
\* tables it was not moved to before, and is released.  No table is settled (the
\* hub goes on booking on a settled session and is refused), no open is sent
\* twice, no order without one.
Plain ==
    /\ \A g, h \in Handlers : g = h
    /\ Allowed \subseteq {"timeout", "hubcrash"}
    /\ UserOps \cap {"pay", "reopen", "lanorder"} = {}

\* The k-th thing asked for was asked of the party that was opened as l.
Owner(r, l) == r = l \/ idMap[l] = r
Of(k, l) == Owner(asked[k].ref, l)

\* Where a party is after the first n things asked: where it was last placed, if
\* it did not leave since.
PlacesOf(l, t) ==
    {k \in 1 .. Len(asked) : asked[k].kind \in {"open", "move"} /\ Of(k, l) /\ asked[k].table = t}
EndsOf(l) == {k \in 1 .. Len(asked) : asked[k].kind \in {"move", "release"} /\ Of(k, l)}
Lasts(places, ends, n) == \E k \in places : k <= n /\ \A j \in ends : ~ (k < j /\ j <= n)
At(l, t, n) == Lasts(PlacesOf(l, t), EndsOf(l), n)

Opened(l, n) == \E k \in 1 .. n : asked[k].kind = "open" /\ asked[k].ref = l
Gone(l, n) == \E k \in 1 .. n : asked[k].kind = "release" /\ Of(k, l)
Is(t, n) == \E l \in Locals : At(l, t, n)

\* The n-th thing asked makes sense after those before it.
Opening(n, l) ==
    /\ asked[n].kind = "open" /\ asked[n].ref = l
    /\ \A k \in 1 .. n - 1 : ~ Of(k, l)
    /\ ~ Is(asked[n].table, n - 1)
Going(n, l) ==
    /\ asked[n].kind \in {"order", "fire", "move", "release"}
    /\ Of(n, l) /\ Opened(l, n - 1) /\ ~ Gone(l, n - 1)
    /\ \E t \in Tables : At(l, t, n - 1)
    /\ asked[n].kind = "move" =>
          /\ ~ Is(asked[n].table, n - 1)
          /\ \A k \in 1 .. n - 1 :
                asked[k].kind = "move" /\ Of(k, l) => asked[k].table # asked[n].table
Valid(n) == \E l \in Locals : Opening(n, l) \/ Going(n, l)

\* The floor of the hub is what was asked for makes of it.
Settled(l, n) ==
    \A t \in Tables : At(l, t, n) =>
        /\ Opened(l, n) /\ ~ Gone(l, n)
        /\ \A u \in Tables : At(l, u, n) => u = t
Sensible ==
    /\ \A n \in 1 .. Len(asked) : Valid(n)
    /\ \A l \in Locals : Settled(l, Len(asked))
    /\ \A r \in Refs, t \in Tables :
          <<r, t>> \in floor <=> \E l \in Locals : r = Resolve(l) /\ At(l, t, Len(asked))

\* What is queued is the end of what was asked, and what is no longer queued
\* was acknowledged.
Queue == IF flush.phase = "idle" THEN items ELSE flush.rest
InLine(s) ==
    /\ Len(s) <= Len(asked)
    /\ \A n \in 1 .. Len(s) : s[n].id = Len(asked) - Len(s) + n
Line ==
    /\ InLine(items) /\ InLine(Queue) /\ Len(Queue) <= Len(items)
    /\ flush.kept = <<>>
    /\ 1 .. (Len(asked) - Len(Queue)) \subseteq acked
    /\ \A h \in Handlers : Busy(h) => 1 .. (calls[h].item.id - 1) \subseteq acked

\* The session of the cloud that Nest opened for a party.
Cloud(l, c) ==
    \E k \in 1 .. Len(effects) : asked[k].kind = "open" /\ asked[k].ref = l /\ effects[k].sid = c

\* What Nest has done is the beginning of what was asked, each thing once, and
\* its sessions are where that puts them.
Served ==
    /\ register
    /\ \A k \in 1 .. Len(effects) : effects[k].id = k
    /\ \A k \in 1 .. Len(effects), l \in Locals : Of(k, l) => Cloud(l, effects[k].sid)
    /\ \A c \in Clouds : sess[c].st # "none" <=> \E l \in Locals : Cloud(l, c)
    /\ \A k, l \in Locals, c \in Clouds : Cloud(k, c) /\ Cloud(l, c) => k = l
    /\ \A l \in Locals, c \in Clouds, t \in Tables : Cloud(l, c) =>
          (At(l, t, Len(effects)) <=> sess[c].st = "open" /\ sess[c].table = t)
    /\ \A c \in Clouds : sess[c].st # "paid"

\* A result for the entry i that the hub may rely on.
Result(i, sid) ==
    i.id \in 1 .. Len(effects) /\ (i.kind = "open" => sid = effects[i.id].sid)
Told ==
    /\ \A l \in Locals : idMap[l] # None => Cloud(l, idMap[l])
    /\ acked \subseteq 1 .. Len(effects)
    /\ \A k \in acked : asked[k].kind = "open" => idMap[asked[k].ref] # None
    /\ \A e \in log : \E k \in 1 .. Len(effects) :
          e.key = EffectKey(effects[k], asked[k]) /\ (asked[k].kind = "open" => e.sid = effects[k].sid)
    /\ \A h \in Handlers :
          /\ calls[h].stage = "applied" =>
                calls[h].ok /\ ~ Logged(Key(calls[h].item)) /\ Result(calls[h].item, calls[h].sid)
          /\ calls[h].stage = "done" =>
                calls[h].status \in SyncedStatuses /\ Result(calls[h].item, calls[h].sid)
    /\ reply # NoReply => reply.status \in SyncedStatuses /\ Result(Head(flush.rest), reply.sid)

Straight == Sensible /\ Line /\ Served /\ Told

-----------------------------------------------------------------------------
(* Where a party is *)

\* The n-th thing places it, or leaves it where it was, or takes it away.
LEMMA LastsStep ==
    ASSUME NEW places \in SUBSET Nat, NEW ends \in SUBSET Nat, NEW n \in Nat
    PROVE  Lasts(places, ends, n + 1)
              = (n + 1 \in places \/ (Lasts(places, ends, n) /\ n + 1 \notin ends))
<1>1. ASSUME Lasts(places, ends, n + 1), n + 1 \notin places
      PROVE  Lasts(places, ends, n) /\ n + 1 \notin ends
    <2>1. PICK k \in places : k <= n + 1 /\ \A j \in ends : ~ (k < j /\ j <= n + 1)
        BY <1>1 DEF Lasts
    <2>2. k <= n /\ k < n + 1
        BY <1>1, <2>1
    <2>3. \A j \in ends : ~ (k < j /\ j <= n)
        BY <2>1
    <2> QED
        BY <2>1, <2>2, <2>3 DEF Lasts
<1>2. ASSUME n + 1 \in places PROVE Lasts(places, ends, n + 1)
    BY <1>2 DEF Lasts
<1>3. ASSUME Lasts(places, ends, n), n + 1 \notin ends PROVE Lasts(places, ends, n + 1)
    <2>1. PICK k \in places : k <= n /\ \A j \in ends : ~ (k < j /\ j <= n)
        BY <1>3 DEF Lasts
    <2>2. ASSUME NEW j \in ends, k < j, j <= n + 1 PROVE FALSE
        BY <1>3, <2>1, <2>2
    <2> QED
        BY <2>1, <2>2 DEF Lasts
<1> QED
    BY <1>1, <1>2, <1>3 DEF Lasts

\* What comes after the n-th makes no difference.
LEMMA LastsOnly ==
    ASSUME NEW p \in SUBSET (Nat \ {0}), NEW q \in SUBSET (Nat \ {0}),
           NEW e \in SUBSET Nat, NEW f \in SUBSET Nat, NEW n \in Nat,
           \A k \in 1 .. n : (k \in p => k \in q) /\ (k \in f => k \in e),
           Lasts(p, e, n)
    PROVE  Lasts(q, f, n)
<1>1. PICK k \in p : k <= n /\ \A j \in e : ~ (k < j /\ j <= n)
    BY DEF Lasts
<1>2. k \in 1 .. n /\ k \in q
    BY <1>1
<1>3. ASSUME NEW j \in f, k < j, j <= n PROVE FALSE
    <2>1. j \in 1 .. n
        BY <1>2, <1>3
    <2> QED
        BY <1>1, <1>3, <2>1
<1> QED
    BY <1>1, <1>2, <1>3 DEF Lasts

LEMMA PlacesType ==
    ASSUME Len(asked) \in Nat, NEW l, NEW t
    PROVE  PlacesOf(l, t) \in SUBSET (Nat \ {0}) /\ EndsOf(l) \in SUBSET (Nat \ {0})
BY DEF PlacesOf, EndsOf

LEMMA AtStep ==
    ASSUME Len(asked) \in Nat, NEW n \in Nat, NEW l, NEW t
    PROVE  At(l, t, n + 1) = (n + 1 \in PlacesOf(l, t) \/ (At(l, t, n) /\ n + 1 \notin EndsOf(l)))
BY PlacesType, LastsStep DEF At

LEMMA AtStart == ASSUME Len(asked) \in Nat, NEW l, NEW t PROVE ~ At(l, t, 0)
BY PlacesType DEF At, Lasts

\* What was asked stays, and whom it was asked of.
Prefix ==
    /\ Len(asked) \in Nat /\ Len(asked') \in Nat /\ Len(asked) <= Len(asked')
    /\ \A k \in 1 .. Len(asked) : asked'[k] = asked[k]
    /\ \A k \in 1 .. Len(asked), l \in Locals : Of(k, l)' = Of(k, l)

LEMMA AtStays ==
    ASSUME Prefix, NEW n \in 0 .. Len(asked), NEW l \in Locals
    PROVE  /\ \A t : At(l, t, n)' = At(l, t, n)
           /\ Opened(l, n)' = Opened(l, n)
           /\ Gone(l, n)' = Gone(l, n)
<1>0. n \in Nat /\ \A k \in 1 .. n : k \in 1 .. Len(asked) /\ k \in 1 .. Len(asked')
    BY DEF Prefix
<1>1. \A k \in 1 .. n : asked'[k] = asked[k] /\ Of(k, l)' = Of(k, l)
    BY <1>0 DEF Prefix
<1>2. Opened(l, n)' = Opened(l, n)
    BY <1>1 DEF Opened
<1>3. Gone(l, n)' = Gone(l, n)
    BY <1>1 DEF Gone
<1>4. ASSUME NEW t PROVE At(l, t, n)' = At(l, t, n)
    <2>1. PICK p \in SUBSET (Nat \ {0}), e \in SUBSET (Nat \ {0}) : p = PlacesOf(l, t) /\ e = EndsOf(l)
        BY PlacesType DEF Prefix
    <2>2. PICK q \in SUBSET (Nat \ {0}), f \in SUBSET (Nat \ {0}) : q = PlacesOf(l, t)' /\ f = EndsOf(l)'
        <3>1. PlacesOf(l, t)' \in SUBSET (Nat \ {0}) /\ EndsOf(l)' \in SUBSET (Nat \ {0})
            BY DEF PlacesOf, EndsOf, Prefix
        <3> QED
            BY <3>1
    <2>3. \A k \in 1 .. n : (k \in p <=> k \in q) /\ (k \in e <=> k \in f)
        BY <1>0, <1>1, <2>1, <2>2 DEF PlacesOf, EndsOf
    <2>4. Lasts(p, e, n) = Lasts(q, f, n)
        <3>1. Lasts(p, e, n) => Lasts(q, f, n)
            BY <1>0, <2>3, LastsOnly
        <3>2. Lasts(q, f, n) => Lasts(p, e, n)
            BY <1>0, <2>3, LastsOnly
        <3> QED
            BY <3>1, <3>2 DEF Lasts
    <2> QED
        BY <2>1, <2>2, <2>4 DEF At
<1> QED
    BY <1>2, <1>3, <1>4

LEMMA ValidStays ==
    ASSUME Prefix, NEW n \in 1 .. Len(asked), Valid(n)
    PROVE  Valid(n)'
<1>0. n - 1 \in 0 .. Len(asked) /\ \A k \in 1 .. n - 1 : k \in 1 .. Len(asked)
    BY DEF Prefix
<1>1. asked'[n] = asked[n] /\ \A l \in Locals : Of(n, l)' = Of(n, l)
    BY DEF Prefix
<1>2. \A l \in Locals : /\ \A t : At(l, t, n - 1)' = At(l, t, n - 1)
                        /\ Opened(l, n - 1)' = Opened(l, n - 1)
                        /\ Gone(l, n - 1)' = Gone(l, n - 1)
    BY <1>0, AtStays
<1>3. Is(asked[n].table, n - 1)' = Is(asked[n].table, n - 1)
    BY <1>1, <1>2 DEF Is
<1>4. \A k \in 1 .. n - 1 : asked'[k] = asked[k] /\ \A l \in Locals : Of(k, l)' = Of(k, l)
    BY <1>0 DEF Prefix
<1>5. PICK l \in Locals : Opening(n, l) \/ Going(n, l)
    BY DEF Valid
<1>6. Opening(n, l) => Opening(n, l)'
    BY <1>1, <1>3, <1>4 DEF Opening
<1>7. Going(n, l) => Going(n, l)'
    BY <1>1, <1>2, <1>3, <1>4 DEF Going
<1> QED
    BY <1>5, <1>6, <1>7 DEF Valid

-----------------------------------------------------------------------------
(* Parties and their sessions *)

LEMMA AskedFacts ==
    ASSUME Inv, Trace
    PROVE  /\ asked \in Seq(Item) /\ Len(asked) \in Nat
           /\ \A k \in 1 .. Len(asked) :
                 asked[k] \in Item /\ asked[k].id = k /\ asked[k].ref \in Refs
BY ItemFields DEF Inv, TypeOK, HubTypeOK, Trace, Known

LEMMA EffectFacts ==
    ASSUME Inv, Trace, Aimed, Served
    PROVE  /\ effects \in Seq(Effect) /\ Len(effects) \in Nat /\ Len(effects) <= Len(asked)
           /\ \A k \in 1 .. Len(effects) :
                 /\ effects[k] \in Effect /\ effects[k].sid \in Clouds
                 /\ k \in 1 .. Len(asked)
<1>1. effects \in Seq(Effect) /\ Len(effects) \in Nat /\ Len(asked) \in Nat
    BY AskedFacts DEF Inv, TypeOK, NestTypeOK, Effect
<1>2. \A k \in 1 .. Len(effects) : effects[k] \in Effect /\ effects[k].sid \in Clouds
    <2>1. \A k \in 1 .. Len(effects) : effects[k] \in Effect
        BY <1>1
    <2> QED
        BY <2>1 DEF Effect
<1>3. \A k \in 1 .. Len(effects) : k \in 1 .. Len(asked)
    BY DEF Aimed, EffectsKnown, Served
<1>4. Len(effects) <= Len(asked)
    <2>1. CASE Len(effects) = 0
        BY <1>1, <2>1
    <2>2. CASE Len(effects) # 0
        BY <1>1, <1>3, <2>2
    <2> QED
        BY <2>1, <2>2
<1> QED
    BY <1>1, <1>2, <1>3, <1>4

LEMMA MapFacts ==
    ASSUME Inv, Aimed
    PROVE  /\ \A r \in Refs : idMap[r] # None => r \in Locals /\ idMap[r] \in Clouds
           /\ \A c \in Clouds : idMap[c] = None
           /\ \A l \in Locals : l \in Refs /\ l \notin Clouds /\ l # None
           /\ \A c \in Clouds : c \in Refs /\ c \notin Locals /\ c # None
BY IdsAssumption DEF Aimed, Mapped, Refs

\* Every thing is asked of one party.
LEMMA OneOwner ==
    ASSUME Inv, Aimed, Served, Told, NEW r \in Refs, NEW k \in Locals, NEW l \in Locals,
           Owner(r, k), Owner(r, l)
    PROVE  k = l
<1>1. r # None
    BY IdsAssumption DEF Refs
<1>2. CASE r = k /\ r = l
    BY <1>2
<1>3. CASE r = k /\ idMap[l] = r
    BY <1>1, <1>3, MapFacts
<1>4. CASE r = l /\ idMap[k] = r
    BY <1>1, <1>4, MapFacts
<1>5. CASE idMap[k] = r /\ idMap[l] = r
    <2>1. Cloud(k, r) /\ Cloud(l, r) /\ r \in Clouds
        BY <1>1, <1>5, MapFacts DEF Told
    <2> QED
        BY <2>1 DEF Served
<1> QED
    BY <1>2, <1>3, <1>4, <1>5 DEF Owner

\* A party is opened once.
LEMMA OpenOnce ==
    ASSUME Inv, Trace, Sensible, NEW j \in 1 .. Len(asked), NEW k \in 1 .. Len(asked),
           asked[j].kind = "open", asked[k].kind = "open", asked[j].ref = asked[k].ref
    PROVE  j = k
<1>1. ASSUME NEW a \in 1 .. Len(asked), NEW b \in 1 .. Len(asked), a < b,
             asked[b].kind = "open", asked[a].ref = asked[b].ref
      PROVE  FALSE
    <2>1. Valid(b)
        BY DEF Sensible
    <2>2. PICK l \in Locals : Opening(b, l)
        BY <1>1, <2>1 DEF Valid, Going
    <2>3. a \in 1 .. b - 1
        BY <1>1
    <2> QED
        BY <1>1, <2>2, <2>3 DEF Opening, Of, Owner
<1>2. j \in Nat /\ k \in Nat
    BY AskedFacts
<1> QED
    BY <1>1, <1>2

LEMMA OneCloud ==
    ASSUME Inv, Trace, Aimed, Sensible, Served, NEW l, NEW c, NEW d, Cloud(l, c), Cloud(l, d)
    PROVE  c = d
<1>1. PICK j \in 1 .. Len(effects) : asked[j].kind = "open" /\ asked[j].ref = l /\ effects[j].sid = c
    BY DEF Cloud
<1>2. PICK k \in 1 .. Len(effects) : asked[k].kind = "open" /\ asked[k].ref = l /\ effects[k].sid = d
    BY DEF Cloud
<1>3. j = k
    BY <1>1, <1>2, EffectFacts, OpenOnce
<1> QED
    BY <1>1, <1>2, <1>3

-----------------------------------------------------------------------------
(* A waiter asks for something *)

LEMMA Asking ==
    ASSUME Inv, Trace, NEW kind \in Kinds, NEW r \in Refs, NEW t, Enqueue(kind, r, t),
           NEW n, n = Len(asked) + 1
    PROVE  /\ Prefix /\ Len(asked') = n /\ idMap' = idMap /\ n - 1 = Len(asked)
           /\ asked'[n].kind = kind /\ asked'[n].ref = r /\ asked'[n].table = t
           /\ \A l : Of(n, l)' = Owner(r, l)
           /\ \A l \in Locals :
                 /\ \A u : At(l, u, n)' =
                       ((kind \in {"open", "move"} /\ Owner(r, l) /\ u = t)
                          \/ (At(l, u, Len(asked)) /\ ~ (kind \in {"move", "release"} /\ Owner(r, l))))
                 /\ Opened(l, n)' = (Opened(l, Len(asked)) \/ (kind = "open" /\ r = l))
                 /\ Gone(l, n)' = (Gone(l, Len(asked)) \/ (kind = "release" /\ Owner(r, l)))
<1>0. PICK N \in Nat : N = Len(asked) /\ n = N + 1 /\ asked \in Seq(Item)
    BY AskedFacts
<1>1. PICK a : a = [id |-> Len(asked) + 1, kind |-> kind, ref |-> r, table |-> t]
    OBVIOUS
<1>2. asked' = Append(asked, a) /\ idMap' = idMap
    BY <1>1 DEF Enqueue
<1>3. a.kind = kind /\ a.ref = r /\ a.table = t
    BY <1>1
<1>4. /\ Len(asked') = n /\ asked'[n] = a
      /\ \A k \in 1 .. N : asked'[k] = asked[k]
    BY <1>0, <1>2
<1>5. \A l : Of(n, l)' = Owner(r, l)
    BY <1>2, <1>3, <1>4 DEF Of, Owner
<1>6. Prefix
    BY <1>0, <1>2, <1>4 DEF Prefix, Of, Owner
<1>7. ASSUME NEW l \in Locals, NEW u
      PROVE  At(l, u, n)' =
               ((kind \in {"open", "move"} /\ Owner(r, l) /\ u = t)
                  \/ (At(l, u, Len(asked)) /\ ~ (kind \in {"move", "release"} /\ Owner(r, l))))
    <2>1. PICK p \in SUBSET Nat, e \in SUBSET Nat : p = PlacesOf(l, u)' /\ e = EndsOf(l)'
        <3>1. PlacesOf(l, u)' \in SUBSET Nat /\ EndsOf(l)' \in SUBSET Nat
            BY <1>0, <1>4 DEF PlacesOf, EndsOf
        <3> QED
            BY <3>1
    <2>2. (n \in p) = (kind \in {"open", "move"} /\ Owner(r, l) /\ u = t)
        BY <1>0, <1>3, <1>4, <1>5, <2>1 DEF PlacesOf
    <2>3. (n \in e) = (kind \in {"move", "release"} /\ Owner(r, l))
        BY <1>0, <1>3, <1>4, <1>5, <2>1 DEF EndsOf
    <2>4. Lasts(p, e, N + 1) = (N + 1 \in p \/ (Lasts(p, e, N) /\ N + 1 \notin e))
        BY LastsStep
    <2>5. At(l, u, N)' = At(l, u, N)
        BY <1>0, <1>6, AtStays
    <2>6. At(l, u, N)' = Lasts(p, e, N) /\ At(l, u, n)' = Lasts(p, e, n)
        BY <2>1 DEF At
    <2> QED
        BY <1>0, <2>2, <2>3, <2>4, <2>5, <2>6
<1>8. 1 .. n = 1 .. N \cup {n}
    BY <1>0
<1>9. ASSUME NEW l \in Locals
      PROVE  Opened(l, n)' = (Opened(l, Len(asked)) \/ (kind = "open" /\ r = l))
    <2>1. Opened(l, n)' <=> Opened(l, N) \/ (kind = "open" /\ r = l)
        BY <1>3, <1>4, <1>8 DEF Opened
    <2> QED
        BY <1>0, <2>1 DEF Opened
<1>10. ASSUME NEW l \in Locals
      PROVE  Gone(l, n)' = (Gone(l, Len(asked)) \/ (kind = "release" /\ Owner(r, l)))
    <2>1. \A k \in 1 .. N : Of(k, l)' = Of(k, l)
        BY <1>0, <1>6 DEF Prefix
    <2>2. Of(n, l)' = Owner(r, l)
        BY <1>5
    <2>3. Gone(l, n)' <=> Gone(l, N) \/ (kind = "release" /\ Owner(r, l))
        BY <1>3, <1>4, <1>8, <2>1, <2>2 DEF Gone
    <2> QED
        BY <1>0, <2>3 DEF Gone
<1> QED
    BY <1>0, <1>2, <1>3, <1>4, <1>5, <1>6, <1>7, <1>9, <1>10

\* A request makes sense where the waiters stand now.
MayAsk(kind, l, t) ==
    LET N == Len(asked)
    IN  \/ /\ kind = "open" /\ Resolve(l) = l
           /\ \A k \in 1 .. N : ~ Of(k, l)
           /\ ~ Is(t, N)
        \/ /\ kind \in {"order", "fire", "move", "release"}
           /\ Opened(l, N) /\ ~ Gone(l, N)
           /\ \E u \in Tables : At(l, u, N)
           /\ kind = "move" =>
                 /\ ~ Is(t, N)
                 /\ \A k \in 1 .. N : asked[k].kind = "move" /\ Of(k, l) => asked[k].table # t

\* What it does to the floor of the hub.
FloorAfter(kind, l, t) ==
    \A q \in Refs, u \in Tables :
        <<q, u>> \in floor' <=>
            \/ kind \in {"open", "move"} /\ q = Resolve(l) /\ u = t
            \/ <<q, u>> \in floor /\ ~ (kind \in {"move", "release"} /\ q = Resolve(l))

LEMMA ResolveOwns ==
    ASSUME Inv, Aimed, NEW l \in Locals
    PROVE  Resolve(l) \in Refs /\ Owner(Resolve(l), l)
BY MapFacts DEF Resolve, Owner, Refs

\* A request that makes sense leaves everything sensible.
LEMMA AskRightly ==
    ASSUME Inv, Trace, Aimed, Sensible, Served, Told,
           NEW kind \in Kinds, NEW l \in Locals, NEW t,
           Enqueue(kind, Resolve(l), t), MayAsk(kind, l, t), FloorAfter(kind, l, t)
    PROVE  Sensible'
<1>0. PICK N \in Nat, n \in Nat : N = Len(asked) /\ n = N + 1
    BY AskedFacts
<1>1. PICK r \in Refs : r = Resolve(l) /\ Owner(r, l)
    BY ResolveOwns
<1>2. /\ Prefix /\ Len(asked') = n /\ idMap' = idMap /\ n - 1 = N
      /\ asked'[n].kind = kind /\ asked'[n].ref = r /\ asked'[n].table = t
      /\ \A x : Of(n, x)' = Owner(r, x)
      /\ \A x \in Locals :
            /\ \A u : At(x, u, n)' =
                  ((kind \in {"open", "move"} /\ Owner(r, x) /\ u = t)
                     \/ (At(x, u, N) /\ ~ (kind \in {"move", "release"} /\ Owner(r, x))))
            /\ Opened(x, n)' = (Opened(x, N) \/ (kind = "open" /\ r = x))
            /\ Gone(x, n)' = (Gone(x, N) \/ (kind = "release" /\ Owner(r, x)))
    BY <1>0, <1>1, Asking
<1>3. \A x \in Locals : Owner(r, x) <=> x = l
    BY <1>1, OneOwner
<1>4. \A x \in Locals : /\ \A u : At(x, u, N)' = At(x, u, N)
                        /\ Opened(x, N)' = Opened(x, N)
                        /\ Gone(x, N)' = Gone(x, N)
    BY <1>0, <1>2, AtStays
<1>5. \A k \in 1 .. N : asked'[k] = asked[k] /\ \A x \in Locals : Of(k, x)' = Of(k, x)
    BY <1>0, <1>2 DEF Prefix
<1>6. Is(t, N)' = Is(t, N)
    BY <1>4 DEF Is
<1>7. ASSUME kind = "open" PROVE Valid(n)' /\ Settled(l, n)'
    <2>1. r = l /\ (\A k \in 1 .. N : ~ Of(k, l)) /\ ~ Is(t, N)
        BY <1>0, <1>1, <1>7 DEF MayAsk
    <2>2. Opening(n, l)'
        BY <1>2, <1>5, <1>6, <1>7, <2>1 DEF Opening
    <2>3. ~ Gone(l, N) /\ \A u : ~ At(l, u, N)
        BY <1>0, <2>1 DEF Gone, At, Lasts, PlacesOf
    <2>4. \A u : At(l, u, n)' => u = t
        BY <1>2, <2>3
    <2>5. Opened(l, n)' /\ ~ Gone(l, n)'
        BY <1>2, <1>7, <2>1, <2>3
    <2>6. Settled(l, n)'
        BY <2>4, <2>5 DEF Settled
    <2> QED
        BY <2>2, <2>6 DEF Valid
<1>8. ASSUME kind # "open" PROVE Valid(n)' /\ Settled(l, n)'
    <2>1. /\ kind \in {"order", "fire", "move", "release"}
          /\ Opened(l, N) /\ ~ Gone(l, N)
          /\ \E u \in Tables : At(l, u, N)
          /\ kind = "move" =>
                /\ ~ Is(t, N)
                /\ \A k \in 1 .. N : asked[k].kind = "move" /\ Of(k, l) => asked[k].table # t
        BY <1>0, <1>8 DEF MayAsk
    <2>2. Going(n, l)'
        BY <1>1, <1>2, <1>4, <1>5, <1>6, <2>1 DEF Going
    <2>3. Settled(l, N)
        BY <1>0 DEF Sensible
    <2>4. ASSUME kind = "move" PROVE Settled(l, n)'
        <3>1. \A u : At(l, u, n)' => u = t
            BY <1>1, <1>2, <2>4
        <3>2. Opened(l, n)' /\ ~ Gone(l, n)'
            BY <1>2, <2>1, <2>4
        <3> QED
            BY <3>1, <3>2 DEF Settled
    <2>5. ASSUME kind = "release" PROVE Settled(l, n)'
        <3>1. \A u : ~ At(l, u, n)'
            BY <1>1, <1>2, <2>5
        <3> QED
            BY <3>1 DEF Settled
    <2>6. ASSUME kind \in {"order", "fire"} PROVE Settled(l, n)'
        <3>1. \A u : At(l, u, n)' <=> At(l, u, N)
            BY <1>2, <2>6
        <3>2. Opened(l, n)' /\ ~ Gone(l, n)'
            BY <1>2, <2>1, <2>6
        <3> QED
            BY <2>3, <3>1, <3>2 DEF Settled
    <2> QED
        BY <2>1, <2>2, <2>4, <2>5, <2>6 DEF Valid
<1>9. Valid(n)' /\ Settled(l, n)'
    BY <1>7, <1>8
<1>10. \A k \in 1 .. Len(asked') : Valid(k)'
    <2>1. \A k \in 1 .. N : Valid(k)'
        BY <1>0, <1>2, ValidStays DEF Sensible
    <2> QED
        BY <1>0, <1>2, <1>9, <2>1
<1>11. ASSUME NEW x \in Locals PROVE Settled(x, n)'
    <2>1. CASE x = l
        BY <1>9, <2>1
    <2>2. CASE x # l
        <3>1. ~ Owner(r, x) /\ r # x
            BY <1>3, <2>2 DEF Owner
        <3>2. (\A u : At(x, u, n)' <=> At(x, u, N)) /\ (Opened(x, n)' <=> Opened(x, N)) /\ (Gone(x, n)' <=> Gone(x, N))
            BY <1>2, <3>1
        <3>3. Settled(x, N)
            BY <1>0 DEF Sensible
        <3> QED
            BY <3>2, <3>3 DEF Settled
    <2> QED
        BY <2>1, <2>2
<1>12. ASSUME NEW q \in Refs, NEW u \in Tables
       PROVE  <<q, u>> \in floor' <=> \E x \in Locals : q = Resolve(x)' /\ At(x, u, n)'
    <2>1. \A x : Resolve(x)' = Resolve(x)
        BY <1>2 DEF Resolve
    <2>2. <<q, u>> \in floor <=> \E x \in Locals : q = Resolve(x) /\ At(x, u, N)
        BY <1>0 DEF Sensible
    <2>3. <<q, u>> \in floor' <=>
            \/ kind \in {"open", "move"} /\ q = r /\ u = t
            \/ <<q, u>> \in floor /\ ~ (kind \in {"move", "release"} /\ q = r)
        BY <1>1 DEF FloorAfter
    <2>4. \A x \in Locals : At(x, u, n)' <=>
            \/ kind \in {"open", "move"} /\ x = l /\ u = t
            \/ At(x, u, N) /\ ~ (kind \in {"move", "release"} /\ x = l)
        BY <1>2, <1>3
    <2>5. \A x \in Locals : Resolve(x) = r <=> x = l
        BY <1>1, <1>3, ResolveOwns
    <2> QED
        BY <1>1, <2>1, <2>2, <2>3, <2>4, <2>5
<1> QED
    BY <1>2, <1>10, <1>11, <1>12 DEF Sensible

\* Both names of a party lead to the same.
LEMMA SameName ==
    ASSUME Inv, Aimed, NEW l \in Locals, NEW r \in Refs, Owner(r, l)
    PROVE  Resolve(r) = Resolve(l)
<1>1. CASE r = l
    BY <1>1
<1>2. CASE idMap[l] = r
    <2>1. r # None
        BY IdsAssumption DEF Refs
    <2>2. r \in Clouds /\ idMap[r] = None
        BY <1>2, <2>1, MapFacts
    <2> QED
        BY <1>2, <2>1, <2>2 DEF Resolve
<1> QED
    BY <1>1, <1>2 DEF Owner

\* Behind every entry of the floor there is one party, and it has no other entry.
LEMMA Seated ==
    ASSUME Inv, Trace, Aimed, Sensible, Served, Told, NEW p \in floor
    PROVE  \E l \in Locals, u \in Tables :
              /\ p = <<Resolve(l), u>> /\ p[1] = Resolve(l) /\ p[2] = u
              /\ At(l, u, Len(asked)) /\ Opened(l, Len(asked)) /\ ~ Gone(l, Len(asked))
              /\ \A q \in floor : q[1] = p[1] => q = p
<1>1. floor \subseteq Refs \X Tables
    BY DEF Inv, TypeOK, HubTypeOK
<1>2. PICK r \in Refs, u \in Tables : p = <<r, u>>
    BY <1>1
<1>3. PICK l \in Locals : r = Resolve(l) /\ At(l, u, Len(asked))
    BY <1>2 DEF Sensible
<1>4. Settled(l, Len(asked))
    BY DEF Sensible
<1>5. ASSUME NEW q \in floor, q[1] = p[1] PROVE q = p
    <2>1. PICK s \in Refs, v \in Tables : q = <<s, v>>
        BY <1>1
    <2>2. s = r
        BY <1>2, <1>5, <2>1
    <2>3. PICK m \in Locals : r = Resolve(m) /\ At(m, v, Len(asked))
        BY <2>1, <2>2 DEF Sensible
    <2>4. m = l
        BY <1>3, <2>3, ResolveOwns, OneOwner
    <2> QED
        BY <1>2, <1>3, <1>4, <2>1, <2>2, <2>3, <2>4 DEF Settled
<1> QED
    BY <1>2, <1>3, <1>4, <1>5 DEF Settled

LEMMA FreeTable ==
    ASSUME Inv, Aimed, Sensible, NEW t \in Tables, TableIsFree(t)
    PROVE  ~ Is(t, Len(asked))
<1>1. ASSUME NEW l \in Locals, At(l, t, Len(asked)) PROVE FALSE
    <2>1. <<Resolve(l), t>> \in floor
        BY <1>1, ResolveOwns DEF Sensible
    <2> QED
        BY <2>1 DEF TableIsFree
<1> QED
    BY <1>1 DEF Is

\* A party that was never asked anything of is not mapped.
LEMMA FreshParty ==
    ASSUME Inv, Trace, Aimed, Served, Told, NEW l \in FreshLocals
    PROVE  l \in Locals /\ Resolve(l) = l /\ \A k \in 1 .. Len(asked) : ~ Of(k, l)
<1>1. l \in Locals /\ \A k \in 1 .. Len(asked) : asked[k].ref # l
    BY DEF FreshLocals
<1>2. idMap[l] = None
    <2>1. ASSUME idMap[l] # None PROVE FALSE
        <3>1. Cloud(l, idMap[l])
            BY <1>1, <2>1 DEF Told
        <3> QED
            BY <1>1, <3>1, EffectFacts DEF Cloud
    <2> QED
        BY <2>1
<1>3. \A k \in 1 .. Len(asked) : asked[k].ref # None
    BY AskedFacts, IdsAssumption DEF Refs
<1> QED
    BY <1>1, <1>2, <1>3 DEF Resolve, Of, Owner

\* What the waiters do makes sense.
LEMMA WaiterSensible ==
    ASSUME Inv, Trace, Aimed, Sensible, Served, Told, Plain, Enqueuing
    PROVE  Sensible'
<1> DEFINE N == Len(asked)
<1>1. ASSUME NEW t \in Tables, OpenTable(t) PROVE Sensible'
    <2>1. TableIsFree(t)
        BY <1>1 DEF OpenTable
    <2>2. PICK l \in FreshLocals : floor' = floor \cup {<<l, t>>} /\ Enqueue("open", l, t)
        BY <1>1 DEF OpenTable
    <2>3. l \in Locals /\ Resolve(l) = l /\ \A k \in 1 .. N : ~ Of(k, l)
        BY FreshParty
    <2>4. MayAsk("open", l, t)
        BY <2>1, <2>3, FreeTable DEF MayAsk
    <2>5. FloorAfter("open", l, t)
        BY <2>2, <2>3 DEF FloorAfter
    <2>6. Enqueue("open", Resolve(l), t) /\ "open" \in Kinds
        BY <2>2, <2>3 DEF Kinds
    <2> QED
        BY <2>3, <2>4, <2>5, <2>6, AskRightly
<1>2. ASSUME NEW kind \in {"order", "fire"}, NEW p \in floor, Enqueue(kind, p[1], None), floor' = floor
      PROVE  Sensible'
    <2>1. PICK l \in Locals, u \in Tables :
              /\ p[1] = Resolve(l) /\ At(l, u, N) /\ Opened(l, N) /\ ~ Gone(l, N)
        BY Seated
    <2>2. MayAsk(kind, l, None)
        BY <2>1 DEF MayAsk
    <2>3. FloorAfter(kind, l, None)
        BY <1>2 DEF FloorAfter
    <2>4. Enqueue(kind, Resolve(l), None) /\ kind \in Kinds
        BY <1>2, <2>1 DEF Kinds
    <2> QED
        BY <2>1, <2>2, <2>3, <2>4, AskRightly
<1>3. ASSUME NEW t \in Tables, MoveSession(t) PROVE Sensible'
    <2>1. TableIsFree(t)
        BY <1>3 DEF MoveSession
    <2>2. PICK p \in floor : /\ ~ WasMovedTo(p[1], t)
                             /\ floor' = (floor \ {p}) \cup {<<p[1], t>>}
                             /\ Enqueue("move", p[1], t)
        <3>1. "return" \notin Allowed
            BY DEF Plain
        <3> QED
            BY <1>3, <3>1 DEF MoveSession
    <2>3. PICK l \in Locals, u \in Tables :
              /\ p = <<Resolve(l), u>> /\ p[1] = Resolve(l)
              /\ At(l, u, N) /\ Opened(l, N) /\ ~ Gone(l, N)
              /\ \A q \in floor : q[1] = p[1] => q = p
        BY Seated
    <2>4. ASSUME NEW k \in 1 .. N, asked[k].kind = "move", Of(k, l) PROVE asked[k].table # t
        <3>1. Resolve(asked[k].ref) = Resolve(l)
            BY <2>4, AskedFacts, SameName DEF Of
        <3>2. Resolve(p[1]) = Resolve(l)
            BY <2>3, ResolveOwns, SameName
        <3> QED
            BY <2>2, <2>4, <3>1, <3>2 DEF WasMovedTo
    <2>5. MayAsk("move", l, t)
        BY <2>1, <2>3, <2>4, FreeTable DEF MayAsk
    <2>6. FloorAfter("move", l, t)
        <3>1. ASSUME NEW q \in Refs, NEW v \in Tables
              PROVE  <<q, v>> \in floor' <=> (q = Resolve(l) /\ v = t) \/ (<<q, v>> \in floor /\ q # Resolve(l))
            <4>1. <<q, v>> = p => q = Resolve(l)
                BY <2>3
            <4>2. <<q, v>> \in floor /\ q = Resolve(l) => <<q, v>> = p
                BY <2>3
            <4>3. <<q, v>> = <<p[1], t>> <=> q = Resolve(l) /\ v = t
                BY <2>3
            <4> QED
                BY <2>2, <4>1, <4>2, <4>3
        <3> QED
            BY <3>1 DEF FloorAfter
    <2>7. Enqueue("move", Resolve(l), t) /\ "move" \in Kinds
        BY <2>2, <2>3 DEF Kinds
    <2> QED
        BY <2>3, <2>5, <2>6, <2>7, AskRightly
<1>4. CASE ReleaseSession
    <2>1. PICK p \in floor : floor' = {q \in floor : q[1] # p[1]} /\ Enqueue("release", p[1], None)
        BY <1>4 DEF ReleaseSession
    <2>2. PICK l \in Locals, u \in Tables :
              p[1] = Resolve(l) /\ At(l, u, N) /\ Opened(l, N) /\ ~ Gone(l, N)
        BY Seated
    <2>3. MayAsk("release", l, None)
        BY <2>2 DEF MayAsk
    <2>4. FloorAfter("release", l, None)
        BY <2>1, <2>2 DEF FloorAfter
    <2>5. Enqueue("release", Resolve(l), None) /\ "release" \in Kinds
        BY <2>1, <2>2 DEF Kinds
    <2> QED
        BY <2>2, <2>3, <2>4, <2>5, AskRightly
<1>5. CASE CreateOrder
    BY <1>2, <1>5 DEF CreateOrder
<1>6. CASE FireCourse
    BY <1>2, <1>6 DEF FireCourse
<1>7. \A t \in Tables : ~ ReopenTable(t) /\ ~ OrderOnFreeTable(t)
    BY DEF Plain, ReopenTable, OrderOnFreeTable
<1>8. ~ CollectCash
    BY DEF Plain, CollectCash
<1> QED
    BY <1>1, <1>3, <1>4, <1>5, <1>6, <1>7, <1>8 DEF Enqueuing

-----------------------------------------------------------------------------
(* The queue is the end of what was asked *)

LEMMA QueueType ==
    ASSUME Inv
    PROVE  /\ items \in Seq(Item) /\ flush.rest \in Seq(Item) /\ Queue \in Seq(Item)
           /\ Len(items) \in Nat /\ Len(Queue) \in Nat /\ Len(asked) \in Nat
           /\ flush.phase \in Phases
BY DEF Inv, TypeOK, HubTypeOK, Queue

\* What a flush leaves to do after a step: the same entries, or one less.
LEMMA LineStays ==
    ASSUME Inv, Line, UNCHANGED <<asked, calls>>, flush'.kept = <<>>, acked \subseteq acked',
           NEW i \in Seq(Item), NEW q \in Seq(Item), items' = i, Queue' = q,
           InLine(i), InLine(q), Len(q) <= Len(i),
           1 .. (Len(asked) - Len(q)) \subseteq acked'
    PROVE  Line'
BY DEF Line, InLine, Busy

\* An entry more at the end.
LEMMA WaiterLine ==
    ASSUME Inv, Trace, Line, Plain, Enqueuing, UNCHANGED nestVars
    PROVE  Line'
<1>1. PICK a : FromWaiter(a)
    BY WaiterEntries
<1>2. PICK i \in Item : i.id = Len(asked) + 1 /\ items' = Append(items, i)
    BY <1>1 DEF FromWaiter, Same
<1>3. /\ flush.phase = "idle" /\ flush' = flush /\ acked' = acked /\ calls' = calls
      /\ asked \in Seq(Item) /\ asked' = Append(asked, a) /\ a \in Item
    BY <1>1 DEF FromWaiter, Plain, channelVars, Inv, TypeOK, HubTypeOK
<1>4. PICK N \in Nat, M \in Nat : N = Len(asked) /\ M = Len(items)
    BY QueueType
<1>5. /\ items \in Seq(Item) /\ Len(items') = M + 1 /\ Len(asked') = N + 1
      /\ items'[M + 1] = i /\ \A k \in 1 .. M : items'[k] = items[k]
    BY <1>2, <1>3, <1>4, QueueType
<1>6. M <= N /\ \A k \in 1 .. M : items[k].id = N - M + k
    BY <1>4 DEF Line, InLine
<1>7. InLine(items)'
    <2>1. \A k \in 1 .. M + 1 : k \in 1 .. M \/ k = M + 1
        BY <1>4
    <2>2. \A k \in 1 .. M + 1 : items'[k].id = (N + 1) - (M + 1) + k
        BY <1>2, <1>4, <1>5, <1>6, <2>1
    <2> QED
        BY <1>4, <1>5, <1>6, <2>2 DEF InLine
<1>8. Queue' = items' /\ Queue = items
    BY <1>3 DEF Queue
<1>9. 1 .. (Len(asked') - Len(Queue')) \subseteq acked'
    <2>1. 1 .. (N - M) \subseteq acked
        BY <1>4, <1>8 DEF Line
    <2>2. Len(asked') - Len(Queue') = N - M
        BY <1>4, <1>5, <1>8
    <2> QED
        BY <1>3, <2>1, <2>2
<1>10. InLine(Queue)' /\ Len(Queue') <= Len(items')
    <2>1. InLine(Queue)'
        BY <1>7, <1>8 DEF InLine
    <2>2. Len(Queue') <= Len(items')
        BY <1>4, <1>5, <1>8
    <2> QED
        BY <2>1, <2>2
<1>11. flush'.kept = <<>> /\ \A h \in Handlers : Busy(h)' => 1 .. (calls'[h].item.id - 1) \subseteq acked'
    BY <1>3 DEF Line, Busy
<1> QED
    BY <1>7, <1>9, <1>10, <1>11 DEF Line

\* The flush sends what is queued, one after the other, and either takes it
\* off, answered, or puts all of it back.
LEMMA FlushLine ==
    ASSUME Inv, Trace, Line, Told, Plain, Flushing \/ HubFaults
    PROVE  Line'
<1>1. PICK N \in Nat, M \in Nat, Q \in Nat : N = Len(asked) /\ M = Len(items) /\ Q = Len(Queue)
    BY QueueType
<1>2. /\ M <= N /\ Q <= M
      /\ \A k \in 1 .. M : items[k].id = N - M + k
      /\ \A k \in 1 .. Q : Queue[k].id = N - Q + k
      /\ 1 .. (N - Q) \subseteq acked
      /\ flush.kept = <<>>
      /\ \A h \in Handlers : Busy(h) => 1 .. (calls[h].item.id - 1) \subseteq acked
    BY <1>1 DEF Line, InLine
<1>3. /\ items \in Seq(Item) /\ flush.rest \in Seq(Item) /\ Queue \in Seq(Item)
    BY QueueType
<1>4. ASSUME UNCHANGED <<asked, calls, acked, items>>, flush' = NoFlush
      PROVE  Line'
    <2>1. Queue' = items' /\ flush'.kept = <<>>
        BY <1>4 DEF Queue, NoFlush
    <2>2. 1 .. (N - M) \subseteq acked
        BY <1>1, <1>2
    <2> QED
        BY <1>1, <1>2, <1>4, <2>1, <2>2 DEF Line, InLine, Busy
<1>5. ASSUME FlushStart PROVE Line'
    <2>1. /\ flush.phase = "idle" /\ UNCHANGED <<asked, calls, acked, items>>
          /\ flush' = [phase |-> "step", rest |-> items, kept |-> <<>>]
        BY <1>5 DEF FlushStart, channelVars
    <2>2. Queue' = items /\ Queue = items /\ flush'.kept = <<>>
        BY <2>1 DEF Queue
    <2> QED
        BY <2>1, <2>2 DEF Line, InLine, Busy
<1>6. ASSUME NEW h \in Handlers, Send(h) PROVE Line'
    <2>1. /\ flush.phase = "step" /\ flush.rest # <<>> /\ UNCHANGED <<asked, acked, items>>
          /\ calls' = [calls EXCEPT ![h] = [IdleCall EXCEPT !.stage = "received", !.item = Outgoing]]
          /\ flush' = [flush EXCEPT !.phase = "waiting", !.rest = RestOut]
          /\ calls \in [Handlers -> Call] /\ flush \in [phase: Phases, rest: Seq(Item), kept: Seq(Item)]
        BY <1>6 DEF Send, Inv, TypeOK, ChannelTypeOK, HubTypeOK
    <2>2. flush'.phase = "waiting" /\ flush'.rest = RestOut /\ flush'.kept = flush.kept
        BY <2>1
    <2>3. Queue = flush.rest /\ Queue' = RestOut
        BY <2>1, <2>2 DEF Queue
    <2>4. /\ Len(RestOut) = Q /\ \A k \in 1 .. Q : RestOut[k].id = N - Q + k
        BY <1>1, <1>2, <2>1, <2>3, RestFacts
    <2>5. Outgoing.id = N - Q + 1
        <3>1. Outgoing.id = flush.rest[1].id /\ Q # 0
            BY <1>1, <1>3, <2>1, <2>3, RestFacts
        <3>2. 1 \in 1 .. Q
            BY <1>1, <3>1
        <3>3. flush.rest[1].id = N - Q + 1
            BY <1>2, <2>3, <3>2
        <3> QED
            BY <3>1, <3>3
    <2>6. 1 .. (Outgoing.id - 1) \subseteq acked
        BY <1>1, <1>2, <2>5
    <2>7. \A g \in Handlers : Busy(g)' => calls'[g].item = Outgoing \/ (Busy(g) /\ calls'[g].item = calls[g].item)
        BY <2>1 DEF Busy, IdleCall
    <2>8. \A g \in Handlers : Busy(g)' => 1 .. (calls'[g].item.id - 1) \subseteq acked
        BY <1>2, <2>6, <2>7
    <2>9. InLine(items)' /\ Len(Queue') <= Len(items')
        BY <1>1, <1>2, <2>1, <2>3, <2>4 DEF InLine
    <2>10. InLine(Queue)'
        BY <1>1, <1>2, <2>1, <2>3, <2>4 DEF InLine
    <2>11. 1 .. (Len(asked') - Len(Queue')) \subseteq acked'
        BY <1>1, <1>2, <2>1, <2>3, <2>4
    <2> QED
        BY <1>2, <2>1, <2>2, <2>8, <2>9, <2>10, <2>11 DEF Line
<1>7. ASSUME Synced PROVE Line'
    <2>1. PICK i \in Item : i = Head(flush.rest)
        BY <1>7, SyncedEntries
    <2>2. /\ flush.phase = "waiting" /\ flush.rest # <<>> /\ UNCHANGED <<asked, calls, items>>
          /\ acked' = acked \cup {i.id}
        BY <1>7, <2>1 DEF Synced, Inv, Shape
    <2>3. PICK tail \in Seq(Item) : tail = Tail(flush.rest)
        BY <2>2, RestFacts
    <2>4. Queue = flush.rest /\ Q # 0 /\ i.id = N - Q + 1
        <3>1. Queue = flush.rest
            BY <2>2 DEF Queue
        <3>2. Q # 0 /\ i = flush.rest[1]
            BY <1>1, <1>3, <2>1, <2>2, <3>1
        <3>3. 1 \in 1 .. Q
            BY <1>1, <3>2
        <3>4. flush.rest[1].id = N - Q + 1
            BY <1>2, <3>1, <3>3
        <3> QED
            BY <3>1, <3>2, <3>4
    <2>5. Len(tail) = Q - 1 /\ \A k \in 1 .. Len(tail) : tail[k].id = N - Q + k + 1
        <3>1. Len(tail) = Q - 1 /\ \A k \in 1 .. Len(tail) : tail[k] = flush.rest[k + 1] /\ k + 1 \in 1 .. Q
            BY <1>1, <1>3, <2>2, <2>3, <2>4
        <3>2. ASSUME NEW k \in 1 .. Len(tail) PROVE tail[k].id = N - Q + k + 1
            <4>1. flush.rest[k + 1].id = N - Q + (k + 1)
                BY <1>2, <2>4, <3>1
            <4> QED
                BY <1>1, <3>1, <4>1
        <3> QED
            BY <3>1, <3>2
    <2>6. PICK rest \in Seq(Item) :
              /\ flush'.rest = rest /\ flush'.phase = "step" /\ flush'.kept = flush.kept
              /\ Len(rest) = Len(tail) /\ \A k \in 1 .. Len(tail) : rest[k].id = tail[k].id
        <3>1. flush \in [phase: Phases, rest: Seq(Item), kept: Seq(Item)]
            BY DEF Inv, TypeOK, HubTypeOK
        <3>2. CASE Opens(i)
            <4>1. reply.sid \in Clouds /\ i.ref \in Refs
                BY <3>2, ItemFields DEF Opens, Inv, TypeOK, ChannelTypeOK, NoReply, Reply
            <4>2. flush' = [flush EXCEPT !.phase = "step", !.rest = Rewritten(tail, i.ref, reply.sid)]
                BY <1>7, <2>1, <2>3, <3>2 DEF Synced
            <4>3. PICK rest \in Seq(Item) : /\ rest = Rewritten(tail, i.ref, reply.sid)
                                            /\ Len(rest) = Len(tail)
                                            /\ \A k \in 1 .. Len(tail) : rest[k].id = tail[k].id
                BY <4>1, RewrittenType
            <4>4. flush'.rest = rest /\ flush'.phase = "step" /\ flush'.kept = flush.kept
                BY <3>1, <4>2, <4>3
            <4> QED
                BY <4>3, <4>4
        <3>3. CASE ~ Opens(i)
            <4>1. flush' = [flush EXCEPT !.phase = "step", !.rest = tail]
                BY <1>7, <2>1, <2>3, <3>3 DEF Synced
            <4> QED
                BY <3>1, <4>1
        <3> QED
            BY <3>2, <3>3
    <2>7. Queue' = rest
        BY <2>6 DEF Queue
    <2>8. Len(rest) = Q - 1 /\ \A k \in 1 .. Q - 1 : rest[k].id = N - (Q - 1) + k
        BY <1>1, <2>5, <2>6
    <2>9. 1 .. (N - (Q - 1)) \subseteq acked'
        <3>1. ASSUME NEW k \in 1 .. (N - (Q - 1)) PROVE k \in acked'
            <4>1. k \in 1 .. (N - Q) \/ k = i.id
                BY <1>1, <2>4
            <4> QED
                BY <1>2, <2>2, <4>1
        <3> QED
            BY <3>1
    <2>10. InLine(items)' /\ InLine(Queue)'
        <3>1. InLine(items)'
            BY <2>2 DEF Line, InLine
        <3>2. Len(Queue') = Q - 1 /\ Len(asked') = N
            BY <1>1, <2>2, <2>7, <2>8
        <3>3. \A k \in 1 .. Len(Queue') : Queue'[k].id = Len(asked') - Len(Queue') + k
            BY <2>7, <2>8, <3>2
        <3>4. Len(Queue') <= Len(asked')
            BY <1>1, <1>2, <3>2
        <3> QED
            BY <3>1, <3>3, <3>4 DEF InLine
    <2>11. \A h \in Handlers : Busy(h)' => 1 .. (calls'[h].item.id - 1) \subseteq acked'
        BY <1>2, <2>2 DEF Busy
    <2>12. Len(Queue') <= Len(items') /\ 1 .. (Len(asked') - Len(Queue')) \subseteq acked'
        <3>1. Len(Queue') = Q - 1 /\ Len(asked') = N /\ Len(items') = M
            BY <1>1, <2>2, <2>7, <2>8
        <3>2. Q - 1 <= M
            BY <1>1, <1>2
        <3> QED
            BY <2>9, <3>1, <3>2
    <2> QED
        BY <1>2, <2>6, <2>10, <2>11, <2>12 DEF Line
<1>8. ASSUME flush.rest # <<>>, flush.phase # "idle", StopOffline, UNCHANGED calls PROVE Line'
    <2>1. /\ items' = flush.kept \o RestOut /\ flush' = NoFlush /\ UNCHANGED <<asked, acked>>
        BY <1>8 DEF StopOffline
    <2>2. PICK out \in Seq(Item) : /\ out = RestOut /\ Len(out) = Len(flush.rest)
                                   /\ \A k \in 1 .. Len(flush.rest) : out[k].id = flush.rest[k].id
        BY <1>8, RestFacts
    <2>3. items' = out
        BY <1>2, <2>1, <2>2
    <2>4. Queue = flush.rest /\ Queue' = items' /\ flush'.kept = <<>>
        BY <1>8, <2>1 DEF Queue, NoFlush
    <2>5. Len(out) = Q /\ \A k \in 1 .. Q : out[k].id = N - Q + k
        BY <1>1, <1>2, <2>2, <2>4
    <2>6. \A h \in Handlers : Busy(h)' => 1 .. (calls'[h].item.id - 1) \subseteq acked'
        BY <1>2, <1>8, <2>1 DEF Busy
    <2>7. InLine(items)' /\ InLine(Queue)'
        <3>1. Len(items') = Q /\ Len(asked') = N
            BY <1>1, <2>1, <2>3, <2>5
        <3>2. \A k \in 1 .. Len(items') : items'[k].id = Len(asked') - Len(items') + k
            BY <2>3, <2>5, <3>1
        <3>3. Len(items') <= Len(asked')
            BY <1>1, <1>2, <3>1
        <3> QED
            BY <2>4, <3>2, <3>3 DEF InLine
    <2>8. Len(Queue') <= Len(items') /\ 1 .. (Len(asked') - Len(Queue')) \subseteq acked'
        BY <1>1, <1>2, <2>1, <2>3, <2>4, <2>5
    <2> QED
        BY <2>4, <2>6, <2>7, <2>8 DEF Line
<1>9. ~ Refused
    <2>1. reply.status \in {"rejected", "reset"} => reply # NoReply /\ reply.status \notin SyncedStatuses
        BY DEF NoReply, SyncedStatuses
    <2> QED
        BY <2>1 DEF Refused, Told
<1>10. ASSUME SendFails \/ GiveUp PROVE Line'
    <2>1. ~ Fault("httperror")
        BY DEF Fault, Plain
    <2> QED
        BY <1>8, <1>10, <2>1 DEF SendFails, GiveUp, Inv, Shape
<1>11. ASSUME FlushEnd PROVE Line'
    <2>1. /\ flush.phase = "step" /\ flush.rest = <<>> /\ UNCHANGED <<asked, acked, calls>>
          /\ items' = <<>> /\ flush' = NoFlush
        BY <1>2, <1>11 DEF FlushEnd, channelVars
    <2>2. Queue = <<>> /\ Queue' = <<>> /\ flush'.kept = <<>>
        BY <2>1 DEF Queue, NoFlush
    <2>3. InLine(items)' /\ Len(items') = 0
        BY <1>1, <2>1 DEF InLine
    <2>4. Q = 0
        BY <1>1, <2>2
    <2>5. \A h \in Handlers : Busy(h)' => 1 .. (calls'[h].item.id - 1) \subseteq acked'
        BY <1>2, <2>1 DEF Busy
    <2> QED
        BY <1>1, <1>2, <2>1, <2>2, <2>3, <2>4, <2>5 DEF Line, InLine
<1>12. ASSUME HubCrash PROVE Line'
    BY <1>4, <1>12 DEF HubCrash
<1> QED
    BY <1>5, <1>6, <1>7, <1>9, <1>10, <1>11, <1>12 DEF Flushing, HubFaults

\* Nest leaves the queue alone.
LEMMA NestLine ==
    ASSUME Inv, Trace, Line, NestStep
    PROVE  Line'
<1>1. UNCHANGED <<items, flush, asked, acked>>
    BY DEF NestStep, hubVars
<1>2. \A h \in Handlers : Busy(h)' => Busy(h) /\ calls'[h].item = calls[h].item
    BY NestEntries
<1>3. Queue' = Queue /\ InLine(items)' /\ InLine(Queue)'
    BY <1>1 DEF Queue, Line, InLine
<1>4. \A h \in Handlers : Busy(h)' => 1 .. (calls'[h].item.id - 1) \subseteq acked'
    BY <1>1, <1>2 DEF Line
<1> QED
    BY <1>1, <1>3, <1>4 DEF Line

-----------------------------------------------------------------------------
(* What the hub does leaves Nest where it is *)

LEMMA CloudStays ==
    ASSUME Inv, Trace, Aimed, Served, Prefix, effects' = effects, NEW l, NEW c
    PROVE  Cloud(l, c)' = Cloud(l, c)
BY EffectFacts DEF Cloud, Prefix

LEMMA ServedStays ==
    ASSUME Inv, Trace, Aimed, Served, Prefix, UNCHANGED <<sess, register, effects>>
    PROVE  Served'
<1>1. effects' = effects /\ sess' = sess /\ register' = register
    OBVIOUS
<1>2. \A l, c : Cloud(l, c)' = Cloud(l, c)
    BY <1>1, CloudStays
<1>3. \A k \in 1 .. Len(effects), l \in Locals : Of(k, l)' = Of(k, l)
    BY EffectFacts DEF Prefix
<1>4. \A l \in Locals : \A t : At(l, t, Len(effects))' = At(l, t, Len(effects))
    <2>1. PICK n \in 0 .. Len(asked) : n = Len(effects)
        BY EffectFacts DEF Prefix
    <2>2. \A l \in Locals : \A t : At(l, t, n)' = At(l, t, n)
        BY AtStays
    <2> QED
        BY <1>1, <2>1, <2>2
<1> QED
    BY <1>1, <1>2, <1>3, <1>4 DEF Served

\* A step of the hub that takes nothing off the queue.
LEMMA HubFrame ==
    ASSUME Inv, Trace, Aimed, Served, Told, Prefix, UNCHANGED <<nestVars, idMap, acked>>,
           \A h \in Handlers : calls'[h] = calls[h] \/ calls'[h].stage = "received",
           reply' = NoReply \/ (reply' = reply /\ flush' = flush)
    PROVE  Served' /\ Told'
<1>1. effects' = effects /\ log' = log /\ idMap' = idMap /\ acked' = acked
    BY DEF nestVars
<1>2. \A l, c : Cloud(l, c)' = Cloud(l, c)
    BY <1>1, CloudStays
<1>3. \A k \in 1 .. Len(effects) : asked'[k] = asked[k]
    BY EffectFacts DEF Prefix
<1>4. \A l \in Locals : idMap'[l] # None => Cloud(l, idMap[l])'
    BY <1>1, <1>2 DEF Told
<1>5. \A k \in acked : k \in 1 .. Len(effects) /\ asked'[k] = asked[k]
    BY <1>3 DEF Told
<1>6. \A e \in log' : \E k \in 1 .. Len(effects') :
          /\ e.key = EffectKey(effects'[k], asked'[k])
          /\ asked'[k].kind = "open" => e.sid = effects'[k].sid
    BY <1>1, <1>3 DEF Told
<1>7. \A h \in Handlers :
          /\ calls'[h].stage = "applied" =>
                /\ calls'[h].ok /\ ~ Logged(Key(calls[h].item))'
                /\ Result(calls[h].item, calls[h].sid)'
          /\ calls'[h].stage = "done" =>
                calls'[h].status \in SyncedStatuses /\ Result(calls[h].item, calls[h].sid)'
    <2>1. ASSUME NEW h \in Handlers, calls'[h] = calls[h]
          PROVE  /\ calls'[h].stage = "applied" =>
                       /\ calls'[h].ok /\ ~ Logged(Key(calls[h].item))'
                       /\ Result(calls[h].item, calls[h].sid)'
                 /\ calls'[h].stage = "done" =>
                       calls'[h].status \in SyncedStatuses /\ Result(calls[h].item, calls[h].sid)'
        BY <1>1, <2>1 DEF Told, Result, Logged
    <2> QED
        BY <2>1
<1>8. reply' # NoReply => reply'.status \in SyncedStatuses /\ Result(Head(flush.rest), reply.sid)'
    BY <1>1 DEF Told, Result
<1>9. Served'
    BY ServedStays DEF nestVars
<1>10. /\ acked' \subseteq 1 .. Len(effects')
       /\ \A k \in acked' : asked'[k].kind = "open" => idMap'[asked'[k].ref] # None
    BY <1>1, <1>5 DEF Told
<1>11. Told'
    <2>1. \A l \in Locals : idMap'[l] # None => Cloud(l, idMap[l])'
        BY <1>4
    <2> QED
        BY <1>6, <1>7, <1>8, <1>10, <2>1 DEF Told
<1> QED
    BY <1>9, <1>11

\* As long as nothing is asked for and no session gets its name.
LEMMA SensibleStays ==
    ASSUME Inv, Trace, Sensible, UNCHANGED <<asked, idMap, floor>>
    PROVE  Prefix /\ Sensible'
<1>1. Prefix
    BY AskedFacts DEF Prefix, Of, Owner
<1>2. \A n \in 1 .. Len(asked') : Valid(n)'
    BY <1>1, ValidStays DEF Sensible
<1>3. PICK N \in 0 .. Len(asked) : N = Len(asked) /\ N = Len(asked')
    BY AskedFacts
<1>4. \A l \in Locals : /\ \A t : At(l, t, N)' = At(l, t, N)
                        /\ Opened(l, N)' = Opened(l, N)
                        /\ Gone(l, N)' = Gone(l, N)
    BY <1>1, AtStays
<1>5. \A l \in Locals : Settled(l, N) => Settled(l, N)'
    BY <1>4 DEF Settled
<1>6. \A l : Resolve(l)' = Resolve(l)
    BY DEF Resolve
<1>7. \A l \in Locals : Settled(l, Len(asked))'
    BY <1>3, <1>5 DEF Sensible
<1>8. ASSUME NEW r \in Refs, NEW t \in Tables
      PROVE  <<r, t>> \in floor' <=> \E l \in Locals : r = Resolve(l)' /\ At(l, t, Len(asked))'
    <2>1. <<r, t>> \in floor <=> \E l \in Locals : r = Resolve(l) /\ At(l, t, N)
        BY <1>3 DEF Sensible
    <2>2. \A l \in Locals : At(l, t, N)' <=> At(l, t, N)
        BY <1>4
    <2>3. <<r, t>> \in floor' <=> \E l \in Locals : r = Resolve(l)' /\ At(l, t, N)'
        BY <1>6, <2>1, <2>2
    <2> QED
        BY <1>3, <2>3
<1> QED
    BY <1>1, <1>2, <1>7, <1>8 DEF Sensible

\* A waiter, and the steps of a flush other than the one on an answer.
LEMMA WaiterStraight ==
    ASSUME Inv, Trace, Aimed, Straight, Plain, Enqueuing, UNCHANGED nestVars
    PROVE  Straight'
<1>1. Sensible'
    BY WaiterSensible DEF Straight
<1>2. Line'
    BY WaiterLine DEF Straight
<1>3. PICK kind \in Kinds, r \in Refs, t \in Tables \cup {None} : Enqueue(kind, r, t)
    BY WaiterAsks
<1>4. Prefix
    BY <1>3, Asking
<1>5. UNCHANGED <<flush, idMap, acked, calls, reply>>
    BY <1>3 DEF Enqueue, channelVars
<1>6. Served' /\ Told'
    BY <1>4, <1>5, HubFrame DEF Straight
<1> QED
    BY <1>1, <1>2, <1>6 DEF Straight

LEMMA FlushStraight ==
    ASSUME Inv, Trace, Aimed, Straight, Plain, UNCHANGED nestVars,
           FlushStart \/ (\E h \in Handlers : Send(h)) \/ Refused \/ FlushEnd \/ HubFaults
    PROVE  Straight'
<1>1. Line'
    BY FlushLine DEF Straight, Flushing
<1>2. ~ Refused
    <2>1. reply.status \in {"rejected", "reset"} => reply # NoReply /\ reply.status \notin SyncedStatuses
        BY DEF NoReply, SyncedStatuses
    <2> QED
        BY <2>1 DEF Refused, Straight, Told
<1>3. ~ Fault("httperror")
    BY DEF Fault, Plain
<1>4. /\ UNCHANGED <<floor, asked, idMap, acked>>
      /\ \A h \in Handlers : calls'[h] = calls[h] \/ calls'[h].stage = "received"
      /\ reply' = NoReply \/ (reply' = reply /\ flush' = flush)
    <2>1. CASE FlushStart \/ FlushEnd
        BY <2>1, NotWaiting DEF FlushStart, FlushEnd, channelVars
    <2>2. ASSUME NEW h \in Handlers, Send(h)
          PROVE  /\ UNCHANGED <<floor, asked, idMap, acked>>
                 /\ \A g \in Handlers : calls'[g] = calls[g] \/ calls'[g].stage = "received"
                 /\ reply' = NoReply
        <3>1. calls \in [Handlers -> Call] /\ reply = NoReply
            BY <2>2, NotWaiting DEF Send, Inv, TypeOK, ChannelTypeOK
        <3> QED
            BY <2>2, <3>1 DEF Send, IdleCall
    <2>3. CASE SendFails \/ GiveUp
        BY <1>3, <2>3, NotWaiting DEF SendFails, GiveUp, StopOffline
    <2>4. CASE HubCrash
        BY <2>4 DEF HubCrash
    <2> QED
        BY <1>2, <2>1, <2>2, <2>3, <2>4 DEF HubFaults
<1>5. Prefix /\ Sensible'
    BY <1>4, SensibleStays DEF Straight
<1>6. Served' /\ Told'
    BY <1>4, <1>5, HubFrame DEF Straight
<1> QED
    BY <1>1, <1>5, <1>6 DEF Straight

\* An answer that takes an entry off the queue: Nest has done what it says, and
\* for an open the answer names the session Nest opened for the party.
LEMMA SyncedGives ==
    ASSUME Inv, Trace, Aimed, Straight, Synced, UNCHANGED nestVars
    PROVE  /\ UNCHANGED <<asked, calls>> /\ reply' = NoReply
           /\ \E n \in 1 .. Len(effects) :
                 /\ acked' = acked \cup {n}
                 /\ \/ asked[n].kind # "open" /\ UNCHANGED <<idMap, floor>>
                    \/ \E l \in Locals, c \in Clouds :
                          /\ asked[n].kind = "open" /\ asked[n].ref = l /\ Cloud(l, c)
                          /\ floor' \in Remapped(l, c)
                          /\ idMap'[l] = c /\ idMap[l] \in {None, c}
                          /\ \A r \in Refs : r # l => idMap'[r] = idMap[r]
<1>1. PICK i \in Item : i = Head(flush.rest) /\ i \in Entries /\ acked' = acked \cup {i.id}
    BY SyncedEntries
<1>2. reply # NoReply
    BY DEF Synced, NoReply, SyncedStatuses
<1>3. i.id \in 1 .. Len(effects) /\ (i.kind = "open" => reply.sid = effects[i.id].sid)
    BY <1>1, <1>2 DEF Straight, Told, Result
<1>4. PICK n \in 1 .. Len(effects) : n = i.id
    BY <1>3
<1>5. n \in 1 .. Len(asked) /\ effects[n].sid \in Clouds /\ effects[n].sid # None
    BY <1>4, EffectFacts, MapFacts DEF Straight
<1>6. asked[n].kind = i.kind /\ (i.kind = "open" => i.ref = asked[n].ref /\ i.ref \in Locals)
    BY <1>1, <1>4 DEF Trace, Known, AsAsked, Same, Aimed, Meant
<1>7. UNCHANGED <<asked, calls>> /\ reply' = NoReply
    BY DEF Synced
<1>8. CASE i.kind # "open"
    <2>1. UNCHANGED <<idMap, floor>>
        BY <1>1, <1>8 DEF Synced, Opens
    <2> QED
        BY <1>1, <1>4, <1>6, <1>7, <1>8, <2>1
<1>9. CASE i.kind = "open"
    <2>1. PICK l \in Locals, c \in Clouds : l = i.ref /\ c = reply.sid /\ c = effects[n].sid /\ c # None
        BY <1>3, <1>4, <1>5, <1>6, <1>9
    <2>2. idMap' = Remembered(l, c) /\ floor' \in Remapped(l, c)
        BY <1>1, <1>9, <2>1 DEF Synced, Opens
    <2>3. Cloud(l, c)
        BY <1>6, <1>9, <2>1 DEF Cloud
    <2>4. l \in Refs /\ idMap \in [Refs -> Refs \cup {None}] /\ l # None
        BY MapFacts DEF Inv, TypeOK, HubTypeOK
    <2>5. \A r \in Refs : idMap[r] # l
        BY <2>4, MapFacts
    <2>6. idMap'[l] = c /\ \A r \in Refs : r # l => idMap'[r] = idMap[r]
        BY <2>2, <2>4, <2>5 DEF Remembered
    <2>7. idMap[l] \in {None, c}
        BY <2>4, <2>6, SyncedMaps DEF Stable
    <2> QED
        BY <1>1, <1>4, <1>6, <1>7, <1>9, <2>1, <2>2, <2>3, <2>6, <2>7
<1> QED
    BY <1>8, <1>9

\* A party gets the name of its session: nothing else was asked for under it.
LEMMA NamedPrefix ==
    ASSUME Inv, Trace, Aimed, Straight, asked' = asked,
           NEW l \in Locals, NEW c \in Clouds, Cloud(l, c), idMap'[l] = c,
           idMap[l] \in {None, c}, \A r \in Refs : r # l => idMap'[r] = idMap[r]
    PROVE  Prefix
<1>1. \A x \in Locals : x \in Refs /\ x # None
    BY MapFacts
<1>2. ASSUME NEW k \in 1 .. Len(asked), asked[k].ref = c PROVE idMap[l] = c
    <2>1. PICK m \in Locals : Of(k, m)
        BY <1>2 DEF Straight, Sensible, Valid, Opening, Going, Of, Owner
    <2>2. idMap[m] = c
        BY <1>2, <2>1, MapFacts DEF Of, Owner
    <2>3. Cloud(m, c)
        BY <2>2, MapFacts DEF Straight, Told
    <2>4. m = l
        BY <2>3 DEF Straight, Served
    <2> QED
        BY <2>2, <2>4
<1>3. ASSUME NEW k \in 1 .. Len(asked), NEW x \in Locals PROVE Of(k, x)' = Of(k, x)
    <2>1. asked[k].ref # None
        BY AskedFacts, IdsAssumption DEF Refs
    <2>2. idMap'[x] = asked[k].ref <=> idMap[x] = asked[k].ref
        BY <1>1, <1>2, <2>1
    <2> QED
        BY <2>2 DEF Of, Owner
<1> QED
    BY <1>3, AskedFacts DEF Prefix

\* The floor follows: the entry of the party is the same under the new name.
LEMMA NamedFloor ==
    ASSUME Inv, Trace, Aimed, Straight, NEW l \in Locals, NEW c \in Clouds, Cloud(l, c),
           idMap[l] = None, floor' \in Remapped(l, c), NEW r \in Refs, NEW t \in Tables
    PROVE  <<r, t>> \in floor' <=>
               \/ <<r, t>> \in floor /\ r # l
               \/ r = c /\ <<l, t>> \in floor
<1>1. l # c /\ floor \subseteq Refs \X Tables
    BY MapFacts DEF Inv, TypeOK, HubTypeOK
<1>2. CASE {p \in floor : p[1] = l} = {}
    <2>1. floor' = floor
        BY <1>2 DEF Remapped
    <2>2. <<l, t>> \notin floor
        BY <1>2
    <2>3. <<r, t>> \in floor => r # l
        BY <1>2
    <2> QED
        BY <2>1, <2>2, <2>3
<1>3. CASE {p \in floor : p[1] = l} # {}
    <2>1. PICK p \in floor : p[1] = l /\ floor' = (floor \ {p}) \cup {<<c, p[2]>>}
        BY <1>1, <1>3 DEF Remapped
    <2>2. PICK u \in Tables : p = <<l, u>>
        BY <1>1, <2>1
    <2>3. \A q \in floor : q[1] = l => q = p
        BY <2>1, Seated DEF Straight
    <2>4. <<l, t>> \in floor <=> t = u
        BY <2>1, <2>2, <2>3
    <2>5. <<r, t>> \in floor /\ <<r, t>> # p <=> <<r, t>> \in floor /\ r # l
        BY <2>2, <2>3
    <2>6. floor' = (floor \ {p}) \cup {<<c, u>>}
        BY <2>1, <2>2
    <2>7. <<r, t>> \in floor' <=> (<<r, t>> \in floor /\ <<r, t>> # p) \/ (r = c /\ t = u)
        BY <2>6
    <2> QED
        BY <2>4, <2>5, <2>7
<1> QED
    BY <1>2, <1>3

LEMMA NamedSensible ==
    ASSUME Inv, Trace, Aimed, Straight, asked' = asked,
           NEW l \in Locals, NEW c \in Clouds, Cloud(l, c), idMap'[l] = c,
           idMap[l] \in {None, c}, \A r \in Refs : r # l => idMap'[r] = idMap[r],
           floor' \in Remapped(l, c)
    PROVE  Sensible'
<1>1. Prefix
    BY NamedPrefix
<1>2. \A n \in 1 .. Len(asked') : Valid(n)'
    BY <1>1, ValidStays DEF Straight, Sensible
<1>3. PICK N \in 0 .. Len(asked) : N = Len(asked) /\ N = Len(asked')
    BY AskedFacts
<1>4. \A x \in Locals : /\ \A t : At(x, t, N)' = At(x, t, N)
                        /\ Opened(x, N)' = Opened(x, N)
                        /\ Gone(x, N)' = Gone(x, N)
    BY <1>1, AtStays
<1>5. \A x \in Locals : Settled(x, N)'
    <2>1. \A x \in Locals : Settled(x, N)
        BY <1>3 DEF Straight, Sensible
    <2> QED
        BY <1>4, <2>1 DEF Settled
<1>6. c # None /\ \A x \in Locals : x \in Refs
    BY MapFacts
<1>7. \A x \in Locals : Resolve(x)' = IF x = l THEN c ELSE Resolve(x)
    BY <1>6 DEF Resolve
<1>8. \A x \in Locals : Resolve(x) = l <=> (x = l /\ idMap[l] = None)
    <2>1. ASSUME NEW x \in Locals, Resolve(x) = l PROVE x = l /\ idMap[l] = None
        <3>1. idMap[x] # None => l \in Clouds
            BY <1>6, <2>1, MapFacts DEF Resolve
        <3> QED
            BY <2>1, <3>1, MapFacts DEF Resolve
    <2>2. idMap[l] = None => Resolve(l) = l
        BY DEF Resolve
    <2> QED
        BY <2>1, <2>2
<1>9. ASSUME NEW r \in Refs, NEW t \in Tables
      PROVE  <<r, t>> \in floor' <=> \E x \in Locals : r = Resolve(x)' /\ At(x, t, N)'
    <2>1. \A q \in Refs : <<q, t>> \in floor <=> \E x \in Locals : q = Resolve(x) /\ At(x, t, N)
        BY <1>3 DEF Straight, Sensible
    <2>2. \A x \in Locals : At(x, t, N)' <=> At(x, t, N)
        BY <1>4
    <2>3. CASE idMap[l] = None
        <3>1. <<r, t>> \in floor' <=> (<<r, t>> \in floor /\ r # l) \/ (r = c /\ <<l, t>> \in floor)
            BY <2>3, NamedFloor
        <3>2. <<l, t>> \in floor <=> At(l, t, N)
            BY <1>6, <1>8, <2>1, <2>3
        <3>3. <<r, t>> \in floor /\ r # l <=> \E x \in Locals \ {l} : r = Resolve(x) /\ At(x, t, N)
            BY <1>8, <2>1, <2>3
        <3> QED
            BY <1>7, <2>2, <3>1, <3>2, <3>3
    <2>4. CASE idMap[l] = c
        <3>1. {p \in floor : p[1] = l} = {}
            <4>1. ASSUME NEW p \in floor, p[1] = l PROVE FALSE
                <5>1. PICK x \in Locals : p[1] = Resolve(x)
                    BY Seated DEF Straight
                <5> QED
                    BY <1>6, <1>8, <2>4, <4>1, <5>1
            <4> QED
                BY <4>1
        <3>2. floor' = floor
            BY <3>1 DEF Remapped
        <3>3. Resolve(l) = c
            BY <1>6, <2>4 DEF Resolve
        <3>4. \A x \in Locals : Resolve(x)' = Resolve(x)
            BY <1>7, <3>3
        <3> QED
            BY <2>1, <2>2, <3>2, <3>4
    <2> QED
        BY <2>3, <2>4
<1>10. \A x \in Locals : Settled(x, Len(asked))'
    BY <1>3, <1>5
<1>11. \A r \in Refs, t \in Tables :
           <<r, t>> \in floor' <=> \E x \in Locals : r = Resolve(x)' /\ At(x, t, Len(asked))'
    BY <1>3, <1>9
<1> QED
    BY <1>2, <1>10, <1>11 DEF Sensible

LEMMA SyncedStraight ==
    ASSUME Inv, Trace, Aimed, Straight, Plain, Synced, UNCHANGED nestVars
    PROVE  Straight'
<1>1. /\ UNCHANGED <<asked, calls>> /\ reply' = NoReply
      /\ effects' = effects /\ log' = log
    BY SyncedGives DEF nestVars
<1>2. PICK n \in 1 .. Len(effects) :
          /\ acked' = acked \cup {n}
          /\ \/ asked[n].kind # "open" /\ UNCHANGED <<idMap, floor>>
             \/ \E l \in Locals, c \in Clouds :
                   /\ asked[n].kind = "open" /\ asked[n].ref = l /\ Cloud(l, c)
                   /\ floor' \in Remapped(l, c)
                   /\ idMap'[l] = c /\ idMap[l] \in {None, c}
                   /\ \A r \in Refs : r # l => idMap'[r] = idMap[r]
    BY SyncedGives
<1>3. Line'
    BY FlushLine DEF Straight, Flushing
<1>4. /\ Prefix /\ Sensible'
      /\ \A l \in Locals : idMap'[l] # None => Cloud(l, idMap'[l])
      /\ \A r \in Refs : idMap[r] # None => idMap'[r] # None
      /\ asked[n].kind = "open" => idMap'[asked[n].ref] # None
    <2>1. CASE asked[n].kind # "open" /\ UNCHANGED <<idMap, floor>>
        BY <1>1, <2>1, SensibleStays DEF Straight, Told
    <2>2. ASSUME NEW l \in Locals, NEW c \in Clouds,
                 asked[n].ref = l, Cloud(l, c), floor' \in Remapped(l, c),
                 idMap'[l] = c, idMap[l] \in {None, c}, \A r \in Refs : r # l => idMap'[r] = idMap[r]
          PROVE  /\ Prefix /\ Sensible'
                 /\ \A x \in Locals : idMap'[x] # None => Cloud(x, idMap'[x])
                 /\ \A r \in Refs : idMap[r] # None => idMap'[r] # None
                 /\ idMap'[asked[n].ref] # None
        <3>1. Prefix
            BY <1>1, <2>2, NamedPrefix
        <3>2. Sensible'
            BY <1>1, <2>2, NamedSensible
        <3>3. c # None /\ \A x \in Locals : x \in Refs
            BY MapFacts
        <3>4. \A x \in Locals : idMap'[x] # None => Cloud(x, idMap'[x])
            BY <2>2, <3>3 DEF Straight, Told
        <3> QED
            BY <2>2, <3>1, <3>2, <3>3, <3>4
    <2> QED
        BY <1>2, <2>1, <2>2
<1>5. Served'
    BY <1>4, ServedStays DEF Straight, nestVars
<1>6. Told'
    <2>1. \A l, c : Cloud(l, c)' = Cloud(l, c)
        BY <1>1, <1>4, CloudStays DEF Straight
    <2>2. \A l \in Locals : idMap'[l] # None => Cloud(l, idMap[l])'
        <3>1. ASSUME NEW l \in Locals, idMap'[l] # None PROVE Cloud(l, idMap[l])'
            <4>1. Cloud(l, idMap'[l])
                BY <1>4, <3>1
            <4> QED
                BY <1>1, <4>1 DEF Cloud
        <3> QED
            BY <3>1
    <2>3. acked' \subseteq 1 .. Len(effects')
        BY <1>1, <1>2 DEF Straight, Told
    <2>4. \A k \in acked' : asked'[k].kind = "open" => idMap'[asked'[k].ref] # None
        <3>1. \A k \in acked : asked[k].kind = "open" => idMap[asked[k].ref] # None /\ asked[k].ref \in Refs
            BY EffectFacts, AskedFacts DEF Straight, Told
        <3> QED
            BY <1>1, <1>2, <1>4, <3>1
    <2>5. \A e \in log' : \E k \in 1 .. Len(effects') :
              /\ e.key = EffectKey(effects'[k], asked'[k])
              /\ asked'[k].kind = "open" => e.sid = effects'[k].sid
        BY <1>1 DEF Straight, Told
    <2>6. \A h \in Handlers :
              /\ calls'[h].stage = "applied" =>
                    /\ calls'[h].ok /\ ~ Logged(Key(calls[h].item))'
                    /\ Result(calls[h].item, calls[h].sid)'
              /\ calls'[h].stage = "done" =>
                    calls'[h].status \in SyncedStatuses /\ Result(calls[h].item, calls[h].sid)'
        BY <1>1 DEF Straight, Told, Result, Logged
    <2> QED
        BY <1>1, <2>2, <2>3, <2>4, <2>5, <2>6 DEF Told
<1> QED
    BY <1>3, <1>4, <1>5, <1>6 DEF Straight

LEMMA HubStraight ==
    ASSUME Inv, Trace, Aimed, Straight, Plain, HubStep
    PROVE  Straight'
BY WaiterStraight, FlushStraight, SyncedStraight DEF HubStep, Flushing

-----------------------------------------------------------------------------
(* A request in Nest is what the hub asked for next, or it was done before *)

\* The entry of a request, and what was asked for.
LEMMA RequestFacts ==
    ASSUME Inv, Trace, Aimed, NEW h \in Handlers, Busy(h)
    PROVE  LET i == calls[h].item
           IN  /\ i \in Item /\ i.id \in 1 .. Len(asked)
               /\ i.kind = asked[i.id].kind /\ i.table = asked[i.id].table
               /\ Meant(i)
BY DEF Trace, Carries, Entries, Known, AsAsked, Same, Aimed

\* A request that is not an open names the session of its party.
LEMMA Target ==
    ASSUME Inv, Trace, Aimed, Once, Straight, NEW h \in Handlers, Busy(h),
           calls[h].item.kind # "open"
    PROVE  \E l \in Locals :
              /\ Going(calls[h].item.id, l)
              /\ calls[h].item.ref \in Clouds /\ idMap[l] = calls[h].item.ref
              /\ Cloud(l, calls[h].item.ref)
<1>1. PICK i \in Item, m \in 1 .. Len(asked) :
          /\ i = calls[h].item /\ m = i.id /\ i.kind = asked[m].kind /\ Meant(i)
    BY RequestFacts
<1>2. PICK l \in Locals : Going(m, l)
    BY <1>1 DEF Straight, Sensible, Valid, Opening
<1>3. idMap[l] # None
    <2>1. PICK k \in 1 .. m - 1 : asked[k].kind = "open" /\ asked[k].ref = l
        BY <1>2 DEF Going, Opened
    <2>2. k \in acked
        BY <1>1 DEF Straight, Line
    <2> QED
        BY <2>1, <2>2 DEF Straight, Told
<1>4. idMap[l] \in Clouds /\ Cloud(l, idMap[l])
    BY <1>3, MapFacts DEF Straight, Told
<1>5. i.ref = idMap[l]
    <2>1. idMap[i.ref] = None
        BY <1>1 DEF Once
    <2>2. i.ref = asked[m].ref \/ (idMap[asked[m].ref] # None /\ i.ref = idMap[asked[m].ref])
        BY <1>1 DEF Meant
    <2>3. asked[m].ref = l \/ asked[m].ref = idMap[l]
        BY <1>2 DEF Going, Of, Owner
    <2>4. asked[m].ref = idMap[l] => idMap[asked[m].ref] = None
        BY <1>4, MapFacts
    <2> QED
        BY <1>3, <2>1, <2>2, <2>3, <2>4
<1> QED
    BY <1>1, <1>2, <1>4, <1>5

\* Parties ask for different things: what has the key of a request is the same
\* request, carried out before.
LEMMA KeyDistinct ==
    ASSUME Inv, Trace, Aimed, Once, Straight, NEW h \in Handlers, Busy(h),
           NEW k \in 1 .. Len(effects), EffectKey(effects[k], asked[k]) = Key(calls[h].item)
    PROVE  calls[h].item.id = k
<1>1. PICK i \in Item, m \in 1 .. Len(asked) :
          /\ i = calls[h].item /\ m = i.id /\ i.kind = asked[m].kind /\ i.table = asked[m].table
          /\ Meant(i)
    BY RequestFacts
<1>2. PICK e \in Effect, a \in Item : e = effects[k] /\ a = asked[k] /\ k \in 1 .. Len(asked) /\ e.id = k
    BY EffectFacts, AskedFacts DEF Straight, Served
<1>3. e.kind = a.kind
    BY <1>2 DEF Once, CarriedOut
<1>4. EffectKey(e, a) = Key(i)
    BY <1>1, <1>2
<1>5. e.kind = i.kind
    BY <1>4 DEF EffectKey, Key
<1>6. CASE i.kind \in {"order", "pay", "fire"}
    BY <1>1, <1>2, <1>4, <1>5, <1>6 DEF EffectKey, Key
<1>7. CASE i.kind = "open"
    <2>1. a.ref = i.ref
        BY <1>4, <1>5, <1>7 DEF EffectKey, Key
    <2>2. i.ref = asked[m].ref
        BY <1>1, <1>7 DEF Meant
    <2> QED
        BY <1>1, <1>2, <1>3, <1>5, <1>7, <2>1, <2>2, OpenOnce DEF Straight
<1>8. CASE i.kind \in {"move", "release"}
    <2>1. e.sid = i.ref /\ (i.kind = "move" => a.table = i.table)
        BY <1>4, <1>5, <1>8 DEF EffectKey, Key
    <2>2. PICK l \in Locals : Going(m, l) /\ i.ref \in Clouds /\ Cloud(l, i.ref)
        BY <1>1, <1>8, Target
    <2>3. PICK x \in Locals : Going(k, x)
        BY <1>2, <1>3, <1>5, <1>8 DEF Straight, Sensible, Valid, Opening
    <2>4. Cloud(x, i.ref)
        BY <1>2, <2>1, <2>3 DEF Straight, Served, Going
    <2>5. x = l
        BY <2>2, <2>4 DEF Straight, Served
\* The later of two equal moves or releases would make no sense.
    <2>6. ASSUME NEW b \in 1 .. Len(asked), NEW d \in 1 .. Len(asked), b < d,
                 Of(b, l), Going(d, l), asked[b].kind = asked[d].kind, asked[d].kind \in {"move", "release"},
                 asked[d].kind = "move" => asked[b].table = asked[d].table
          PROVE  FALSE
        <3>1. b \in 1 .. d - 1
            BY <2>6
        <3> QED
            BY <2>6, <3>1 DEF Going, Gone
    <2>7. Of(k, l) /\ Of(m, l)
        BY <2>2, <2>3, <2>5 DEF Going
    <2>8. asked[k].kind = asked[m].kind /\ (asked[m].kind = "move" => asked[k].table = asked[m].table)
        BY <1>1, <1>2, <1>3, <1>5, <2>1
    <2>9. ~ (k < m) /\ ~ (m < k)
        BY <1>1, <1>2, <1>8, <2>2, <2>3, <2>5, <2>6, <2>7, <2>8
    <2> QED
        BY <1>1, <1>2, <2>9, AskedFacts
<1> QED
    BY <1>6, <1>7, <1>8, ItemFields DEF Kinds

\* What is about to be carried out is the next thing that was asked for.
LEMMA NextInLine ==
    ASSUME Inv, Trace, Aimed, Once, Straight, Plain, NEW h \in Handlers, calls[h].stage = "checked"
    PROVE  calls[h].item.id = Len(effects) + 1
<1>0. Busy(h)
    BY DEF Busy
<1>1. PICK i \in Item, m \in 1 .. Len(asked) : i = calls[h].item /\ m = i.id
    BY <1>0, RequestFacts
<1>2. PICK N \in Nat : N = Len(effects)
    BY EffectFacts DEF Straight
<1>3. 1 .. (m - 1) \subseteq 1 .. N
    BY <1>0, <1>1, <1>2 DEF Straight, Line, Told
<1>4. m \in Nat /\ m - 1 <= N
    <2>1. m \in Nat /\ m >= 1
        BY <1>1, AskedFacts
    <2>2. m = 1 \/ m - 1 \in 1 .. (m - 1)
        BY <2>1
    <2> QED
        BY <1>2, <1>3, <2>1, <2>2
<1>5. m \notin 1 .. N
    <2>1. ASSUME m \in 1 .. N PROVE FALSE
        <3>1. effects[m].id = m
            BY <1>2, <2>1 DEF Straight, Served
        <3>2. EffectKey(effects[m], asked[effects[m].id]) = Key(i)
            BY <1>0, <1>1, <1>2, <2>1, <3>1, SameKey
        <3>3. CarriedOut(effects[m])
            BY <1>2, <2>1 DEF Once
        <3>4. ~ Logged(Key(i))
            BY <1>1 DEF Once
        <3> QED
            BY <3>2, <3>3, <3>4 DEF CarriedOut, Plain
    <2> QED
        BY <2>1
<1> QED
    BY <1>1, <1>2, <1>4, <1>5, AskedFacts

-----------------------------------------------------------------------------
(* Nest does the next thing *)

\* Where the parties are after the n-th thing.
LEMMA AfterNext ==
    ASSUME Inv, Trace, NEW N \in Nat, N + 1 \in 1 .. Len(asked), NEW l, NEW t
    PROVE  At(l, t, N + 1) <=>
               \/ asked[N + 1].kind \in {"open", "move"} /\ Of(N + 1, l) /\ asked[N + 1].table = t
               \/ At(l, t, N) /\ ~ (asked[N + 1].kind \in {"move", "release"} /\ Of(N + 1, l))
<1>1. At(l, t, N + 1) = (N + 1 \in PlacesOf(l, t) \/ (At(l, t, N) /\ N + 1 \notin EndsOf(l)))
    BY AskedFacts, AtStep
<1>2. N + 1 \in PlacesOf(l, t) <=>
          asked[N + 1].kind \in {"open", "move"} /\ Of(N + 1, l) /\ asked[N + 1].table = t
    BY DEF PlacesOf
<1>3. N + 1 \in EndsOf(l) <=> asked[N + 1].kind \in {"move", "release"} /\ Of(N + 1, l)
    BY DEF EndsOf
<1> QED
    BY <1>1, <1>2, <1>3

\* One thing more was done for a party, in the session it has or is given.
LEMMA ServedMore ==
    ASSUME Inv, Trace, Aimed, Straight, UNCHANGED <<hubVars, register>>,
           NEW N \in Nat, N = Len(effects), N + 1 \in 1 .. Len(asked),
           NEW e \in Effect, effects' = Append(effects, e), e.id = N + 1,
           NEW l \in Locals, NEW c \in Clouds, e.sid = c, Of(N + 1, l),
           \/ /\ asked[N + 1].kind = "open" /\ asked[N + 1].ref = l
              /\ sess[c].st = "none" /\ \A d : ~ Cloud(l, d)
           \/ asked[N + 1].kind # "open" /\ Cloud(l, c),
           \A d \in Clouds : d # c => sess'[d] = sess[d],
           sess'[c].st \in {"open", "closed"},
           \A t \in Tables : At(l, t, N + 1) <=> sess'[c].st = "open" /\ sess'[c].table = t
    PROVE  Served'
<1>1. /\ Len(effects') = N + 1 /\ effects'[N + 1] = e
      /\ \A k \in 1 .. N : effects'[k] = effects[k]
    BY EffectFacts DEF Straight
<1>2. \A k \in 1 .. N + 1 : k \in 1 .. N \/ k = N + 1
    OBVIOUS
<1>3. asked' = asked /\ idMap' = idMap
    BY DEF hubVars
<1>4. \A k, x : Of(k, x)' = Of(k, x)
    BY <1>3 DEF Of, Owner
<1>5. \A x, d : Cloud(x, d)' <=> Cloud(x, d) \/ (asked[N + 1].kind = "open" /\ x = l /\ d = c)
    <2>1. ASSUME NEW x, NEW d, Cloud(x, d)' PROVE Cloud(x, d) \/ (asked[N + 1].kind = "open" /\ x = l /\ d = c)
        <3>1. PICK k \in 1 .. N + 1 : asked[k].kind = "open" /\ asked[k].ref = x /\ effects'[k].sid = d
            BY <1>1, <1>3, <2>1 DEF Cloud
        <3> QED
            BY <1>1, <1>2, <3>1 DEF Cloud
    <2>2. ASSUME NEW x, NEW d, Cloud(x, d) PROVE Cloud(x, d)'
        <3>1. PICK k \in 1 .. N : asked[k].kind = "open" /\ asked[k].ref = x /\ effects[k].sid = d
            BY <2>2 DEF Cloud
        <3>2. k \in 1 .. Len(effects') /\ effects'[k] = effects[k]
            BY <1>1, <3>1
        <3> QED
            BY <1>3, <3>1, <3>2 DEF Cloud
    <2>3. asked[N + 1].kind = "open" => Cloud(l, c)'
        <3>1. N + 1 \in 1 .. Len(effects')
            BY <1>1
        <3> QED
            BY <1>1, <1>3, <3>1 DEF Cloud
    <2> QED
        BY <2>1, <2>2, <2>3
<1>6. Cloud(l, c)'
    BY <1>5
<1>7. \A x \in Locals : Of(N + 1, x) => x = l
    BY AskedFacts, OneOwner DEF Of, Straight
<1>8. \A k \in 1 .. N, x \in Locals : Of(k, x) => Cloud(x, effects[k].sid)
    BY DEF Straight, Served
<1>9. \A k \in 1 .. N + 1, x \in Locals : Of(k, x)' => Cloud(x, effects[k].sid)'
    <2>1. ASSUME NEW k \in 1 .. N + 1, NEW x \in Locals, Of(k, x), NEW d, d = effects'[k].sid
          PROVE  Cloud(x, d)'
        <3>1. CASE k \in 1 .. N
            BY <1>1, <1>5, <1>8, <2>1, <3>1
        <3>2. CASE k = N + 1
            BY <1>1, <1>6, <1>7, <2>1, <3>2
        <3> QED
            BY <1>2, <3>1, <3>2
    <2>2. ASSUME NEW k \in 1 .. N + 1, NEW x \in Locals, Of(k, x)' PROVE Cloud(x, effects[k].sid)'
        <3>1. PICK d : d = effects'[k].sid
            OBVIOUS
        <3>2. Cloud(x, d)'
            BY <1>4, <2>1, <2>2, <3>1
        <3> QED
            BY <3>1, <3>2 DEF Cloud
    <2> QED
        BY <2>2
<1>10. \A d \in Clouds : sess[d].st # "none" <=> \E x \in Locals : Cloud(x, d)
    BY DEF Straight, Served
<1>11. \A d \in Clouds : sess'[d].st # "none" <=> \E x \in Locals : Cloud(x, d)'
    BY <1>5, <1>6, <1>10
<1>12. \A k, x \in Locals, d \in Clouds : Cloud(k, d) /\ Cloud(x, d) => k = x
    BY DEF Straight, Served
<1>13. \A k, x \in Locals, d \in Clouds : Cloud(k, d)' /\ Cloud(x, d)' => k = x
    BY <1>5, <1>10, <1>12
<1>14. ASSUME NEW x \in Locals, NEW d \in Clouds, NEW t \in Tables, Cloud(x, d)'
       PROVE  At(x, t, N + 1) <=> sess'[d].st = "open" /\ sess'[d].table = t
    <2>1. CASE d = c
        <3>1. x = l
            BY <1>6, <1>13, <1>14, <2>1
        <3> QED
            BY <2>1, <3>1
    <2>2. CASE d # c
        <3>1. Cloud(x, d) /\ x # l
            <4>1. Cloud(x, d)
                BY <1>5, <1>14, <2>2
            <4>2. ~ Cloud(l, d)
                BY <2>2, OneCloud DEF Straight
            <4> QED
                BY <4>1, <4>2
        <3>2. ~ Of(N + 1, x)
            BY <1>7, <3>1
        <3>3. At(x, t, N + 1) <=> At(x, t, N)
            BY <3>2, AfterNext
        <3>4. At(x, t, N) <=> sess[d].st = "open" /\ sess[d].table = t
            BY <3>1 DEF Straight, Served
        <3> QED
            BY <2>2, <3>3, <3>4
    <2> QED
        BY <2>1, <2>2
<1>15. \A x \in Locals, d \in Clouds, t \in Tables : Cloud(x, d)' =>
           (At(x, t, Len(effects))' <=> sess'[d].st = "open" /\ sess'[d].table = t)
    <2>1. \A x, t : At(x, t, N + 1)' <=> At(x, t, N + 1)
        BY <1>3, <1>4 DEF At, PlacesOf, EndsOf
    <2>2. \A x, t : At(x, t, Len(effects))' <=> At(x, t, N + 1)'
        BY <1>1
    <2> QED
        BY <1>14, <2>1, <2>2
<1>16. register' /\ \A d \in Clouds : sess'[d].st # "paid"
    BY DEF Straight, Served
<1>17. \A k \in 1 .. Len(effects') : effects'[k].id = k
    BY <1>1, <1>2 DEF Straight, Served
<1> QED
    BY <1>1, <1>9, <1>11, <1>13, <1>15, <1>16, <1>17 DEF Served

\* Where no party is, Nest has no active session.
LEMMA NoneActive ==
    ASSUME Inv, Straight, NEW t \in Tables, ~ Is(t, Len(effects))
    PROVE  ActiveAt(t) = {}
<1>1. ASSUME NEW c \in ActiveAt(t) PROVE FALSE
    <2>1. c \in Clouds /\ sess[c].st \in {"open", "paid"} /\ sess[c].table = t
        BY <1>1 DEF ActiveAt, IsActive
    <2>2. PICK l \in Locals : Cloud(l, c)
        BY <2>1 DEF Straight, Served
    <2>3. At(l, t, Len(effects))
        BY <2>1, <2>2 DEF Straight, Served
    <2> QED
        BY <2>3 DEF Is
<1> QED
    BY <1>1

\* The request that was looked up is the next thing.
LEMMA NextFacts ==
    ASSUME Inv, Trace, Aimed, Once, Straight, Plain, NEW h \in Handlers, calls[h].stage = "checked"
    PROVE  \E i \in Item, N \in Nat, l \in Locals :
              /\ i = calls[h].item /\ N = Len(effects) /\ i.id = N + 1 /\ N + 1 \in 1 .. Len(asked)
              /\ i.kind = asked[N + 1].kind /\ i.table = asked[N + 1].table /\ Of(N + 1, l)
              /\ \/ /\ i.kind = "open" /\ asked[N + 1].ref = l
                    /\ ActiveAt(i.table) = {} /\ i.table \in Tables
                    /\ \A d : ~ Cloud(l, d)
                    /\ \A t : ~ At(l, t, N)
                 \/ /\ i.kind \in {"order", "fire", "move", "release"}
                    /\ i.ref \in Clouds /\ Cloud(l, i.ref) /\ sess[i.ref].st = "open"
                    /\ \A t \in Tables : At(l, t, N) <=> sess[i.ref].table = t
                    /\ i.kind = "move" => ActiveAt(i.table) = {} /\ i.table \in Tables
<1>0. Busy(h)
    BY DEF Busy
<1>1. PICK i \in Item, N \in Nat :
          /\ i = calls[h].item /\ N = Len(effects) /\ i.id = N + 1 /\ N + 1 \in 1 .. Len(asked)
          /\ i.kind = asked[N + 1].kind /\ i.table = asked[N + 1].table
    BY <1>0, RequestFacts, NextInLine, EffectFacts DEF Straight
<1>2. i.kind \in {"open", "move"} => i.table \in Tables
    BY ItemFields
<1>3. CASE i.kind = "open"
    <2>1. PICK l \in Locals : Opening(N + 1, l)
        BY <1>1, <1>3 DEF Straight, Sensible, Valid, Going
    <2>2. (N + 1) - 1 = N
        OBVIOUS
    <2>3. asked[N + 1].ref = l /\ (\A k \in 1 .. N : ~ Of(k, l)) /\ ~ Is(i.table, N)
        BY <1>1, <2>1, <2>2 DEF Opening
    <2>4. Of(N + 1, l)
        BY <2>3 DEF Of, Owner
    <2>5. \A d : ~ Cloud(l, d)
        BY <1>1, <2>3 DEF Cloud, Of, Owner
    <2>6. \A t : ~ At(l, t, N)
        <3>1. ASSUME NEW t, At(l, t, N) PROVE FALSE
            <4>1. PICK k \in PlacesOf(l, t) : k <= N
                BY <3>1 DEF At, Lasts
            <4>2. k \in 1 .. N /\ Of(k, l)
                BY <4>1 DEF PlacesOf
            <4> QED
                BY <2>3, <4>2
        <3> QED
            BY <3>1
    <2>7. ActiveAt(i.table) = {}
        BY <1>1, <1>2, <1>3, <2>3, NoneActive
    <2> QED
        BY <1>1, <1>2, <1>3, <2>3, <2>4, <2>5, <2>6, <2>7
<1>4. CASE i.kind # "open"
    <2>1. PICK l \in Locals : Going(N + 1, l) /\ i.ref \in Clouds /\ Cloud(l, i.ref)
        BY <1>0, <1>1, <1>4, Target
    <2>2. (N + 1) - 1 = N
        OBVIOUS
    <2>3. /\ i.kind \in {"order", "fire", "move", "release"} /\ Of(N + 1, l)
          /\ \E t \in Tables : At(l, t, N)
          /\ i.kind = "move" => ~ Is(i.table, N)
        BY <1>1, <2>1, <2>2 DEF Going
    <2>4. \A t \in Tables : At(l, t, N) <=> sess[i.ref].st = "open" /\ sess[i.ref].table = t
        BY <1>1, <2>1 DEF Straight, Served
    <2>5. sess[i.ref].st = "open" /\ \A t \in Tables : At(l, t, N) <=> sess[i.ref].table = t
        BY <2>3, <2>4
    <2>6. i.kind = "move" => ActiveAt(i.table) = {}
        BY <1>1, <1>2, <2>3, NoneActive
    <2> QED
        BY <1>1, <1>2, <2>1, <2>3, <2>5, <2>6
<1> QED
    BY <1>3, <1>4

\* It is carried out, and recorded for the session of its party.
LEMMA NextIsDone ==
    ASSUME Inv, Trace, Aimed, Once, Straight, Plain, NEW h \in Handlers, calls[h].stage = "checked",
           Ingest(h), UNCHANGED hubVars
    PROVE  /\ Served'
           /\ \E c \in Clouds : /\ Changed(calls[h].item, c)
                                /\ \/ Return(h, TRUE, c)
                                   \/ calls[h].item.kind # "open" /\ Return(h, TRUE, None)
           /\ UNCHANGED <<log, conn, reply>>
<1>1. PICK i \in Item, N \in Nat, l \in Locals :
          /\ i = calls[h].item /\ N = Len(effects) /\ i.id = N + 1 /\ N + 1 \in 1 .. Len(asked)
          /\ i.kind = asked[N + 1].kind /\ i.table = asked[N + 1].table /\ Of(N + 1, l)
          /\ \/ /\ i.kind = "open" /\ asked[N + 1].ref = l
                /\ ActiveAt(i.table) = {} /\ i.table \in Tables
                /\ \A d : ~ Cloud(l, d)
                /\ \A t : ~ At(l, t, N)
             \/ /\ i.kind \in {"order", "fire", "move", "release"}
                /\ i.ref \in Clouds /\ Cloud(l, i.ref) /\ sess[i.ref].st = "open"
                /\ \A t \in Tables : At(l, t, N) <=> sess[i.ref].table = t
                /\ i.kind = "move" => ActiveAt(i.table) = {} /\ i.table \in Tables
    BY NextFacts
<1>2. register /\ sess \in [Clouds -> Session \cup {NoSession}] /\ effects \in Seq(Effect)
    BY DEF Straight, Served, Inv, TypeOK, NestTypeOK, Effect
<1>3. ASSUME NEW c \in Clouds, Changed(i, c)
      PROVE  \E e \in Effect : effects' = Append(effects, e) /\ e.id = N + 1 /\ e.kind = i.kind /\ e.sid = c
    <2>1. PICK e : e = [id |-> i.id, kind |-> i.kind, sid |-> c]
        OBVIOUS
    <2>2. e \in Effect /\ e.id = N + 1 /\ e.kind = i.kind /\ e.sid = c
        BY <1>1, <2>1, ItemFields DEF Effect
    <2>3. effects' = Append(effects, e)
        BY <1>3, <2>1 DEF Changed
    <2> QED
        BY <2>2, <2>3
<1>4. \A t : At(l, t, N + 1) <=>
          \/ i.kind \in {"open", "move"} /\ i.table = t
          \/ At(l, t, N) /\ i.kind \notin {"move", "release"}
    BY <1>1, AfterNext
<1>5. ASSUME ApplyOpen(h)
      PROVE  /\ Served'
             /\ \E c \in Clouds : Changed(i, c) /\ Return(h, TRUE, c)
             /\ UNCHANGED <<log, conn, reply>>
    <2>1. i.kind = "open" /\ UNCHANGED <<register, log, conn, reply>>
        BY <1>1, <1>5 DEF ApplyOpen, Applying
    <2>2. PICK c \in Clouds :
              /\ sess[c].st = "none"
              /\ sess' = [sess EXCEPT ![c] = [table |-> i.table, st |-> "open"]]
              /\ Return(h, TRUE, c) /\ Changed(i, c)
        BY <1>1, <1>5, <2>1 DEF ApplyOpen
    <2>3. PICK e \in Effect : effects' = Append(effects, e) /\ e.id = N + 1 /\ e.sid = c
        BY <1>3, <2>2
    <2>4. /\ \A d \in Clouds : d # c => sess'[d] = sess[d]
          /\ sess'[c].st = "open" /\ sess'[c].table = i.table
        BY <1>2, <2>2
    <2>5. \A t \in Tables : At(l, t, N + 1) <=> sess'[c].st = "open" /\ sess'[c].table = t
        BY <1>1, <1>4, <2>1, <2>4
    <2>6. Served'
        <3>1. asked[N + 1].kind = "open" /\ asked[N + 1].ref = l /\ \A d : ~ Cloud(l, d)
            BY <1>1, <2>1
        <3>2. sess'[c].st \in {"open", "closed"} /\ UNCHANGED <<hubVars, register>>
            BY <2>1, <2>4
        <3>3. N = Len(effects) /\ N + 1 \in 1 .. Len(asked) /\ Of(N + 1, l)
            BY <1>1
        <3> QED
            BY <2>2, <2>3, <2>4, <2>5, <3>1, <3>2, <3>3, ServedMore
    <2> QED
        BY <2>1, <2>2, <2>6
<1>6. ASSUME i.kind # "open", Changed(i, i.ref), UNCHANGED <<register, log, conn, reply>>,
             NEW s, sess' = [sess EXCEPT ![i.ref] = s], s.st \in {"open", "closed"},
             \A t \in Tables : At(l, t, N + 1) <=> s.st = "open" /\ s.table = t
      PROVE  Served'
    <2>1. i.ref \in Clouds /\ Cloud(l, i.ref)
        BY <1>1, <1>6
    <2>2. PICK e \in Effect : effects' = Append(effects, e) /\ e.id = N + 1 /\ e.sid = i.ref
        BY <1>3, <1>6, <2>1
    <2>3. sess'[i.ref] = s /\ \A d \in Clouds : d # i.ref => sess'[d] = sess[d]
        BY <1>2, <1>6, <2>1
    <2> QED
        BY <1>1, <1>6, <2>1, <2>2, <2>3, ServedMore
<1>7. i.kind # "open" =>
          /\ i.kind \in {"order", "fire", "move", "release"}
          /\ i.ref \in Clouds /\ sess[i.ref].st = "open" /\ sess[i.ref] \in Session
          /\ \A t \in Tables : At(l, t, N) <=> sess[i.ref].table = t
    BY <1>1, <1>2 DEF NoSession
<1>8. \A t : sess[i.ref] \in Session =>
          /\ [sess[i.ref] EXCEPT !.table = t].table = t /\ [sess[i.ref] EXCEPT !.table = t].st = sess[i.ref].st
          /\ [sess[i.ref] EXCEPT !.st = "closed"].st = "closed"
    BY DEF Session
<1>9. ASSUME ApplyOrder(h) \/ ApplyFire(h)
      PROVE  /\ Served'
             /\ i.kind # "open" /\ Changed(i, i.ref) /\ i.ref \in Clouds /\ Return(h, TRUE, None)
             /\ UNCHANGED <<log, conn, reply>>
    <2>1. i.kind \in {"order", "fire"} /\ UNCHANGED <<sess, register, log, conn, reply>> /\ Return(h, TRUE, None)
        BY <1>1, <1>9 DEF ApplyOrder, ApplyFire, Applying
    <2>2. Exists(i.ref)
        BY <1>7, <2>1 DEF Exists
    <2>3. Changed(i, i.ref)
        BY <1>1, <1>9, <2>2 DEF ApplyOrder, ApplyFire
    <2>4. sess' = [sess EXCEPT ![i.ref] = sess[i.ref]]
        BY <1>2, <1>7, <2>1
    <2>5. \A t \in Tables : At(l, t, N + 1) <=> sess[i.ref].st = "open" /\ sess[i.ref].table = t
        BY <1>4, <1>7, <2>1
    <2>6. Served'
        BY <1>6, <1>7, <2>1, <2>3, <2>4, <2>5
    <2> QED
        BY <1>7, <2>1, <2>3, <2>6
<1>10. ASSUME ApplyMove(h)
      PROVE  /\ Served'
             /\ i.kind # "open" /\ Changed(i, i.ref) /\ i.ref \in Clouds /\ Return(h, TRUE, None)
             /\ UNCHANGED <<log, conn, reply>>
    <2>1. /\ i.kind = "move" /\ UNCHANGED <<register, log, conn, reply>> /\ Return(h, TRUE, None)
          /\ Changed(i, i.ref) /\ sess' = [sess EXCEPT ![i.ref].table = i.table]
        BY <1>1, <1>10 DEF ApplyMove, Applying
    <2>2. PICK s : s = [sess[i.ref] EXCEPT !.table = i.table]
        OBVIOUS
    <2>3. s.table = i.table /\ s.st = "open" /\ sess' = [sess EXCEPT ![i.ref] = s]
        BY <1>7, <1>8, <2>1, <2>2
    <2>4. \A t \in Tables : At(l, t, N + 1) <=> s.st = "open" /\ s.table = t
        BY <1>4, <2>1, <2>3
    <2>5. Served'
        BY <1>6, <2>1, <2>3, <2>4
    <2> QED
        BY <1>7, <2>1, <2>5
<1>11. ASSUME ApplyRelease(h)
      PROVE  /\ Served'
             /\ i.kind # "open" /\ Changed(i, i.ref) /\ i.ref \in Clouds /\ Return(h, TRUE, None)
             /\ UNCHANGED <<log, conn, reply>>
    <2>1. /\ i.kind = "release" /\ UNCHANGED <<register, log, conn, reply>> /\ Return(h, TRUE, None)
          /\ Changed(i, i.ref) /\ sess' = [sess EXCEPT ![i.ref].st = "closed"]
        BY <1>1, <1>11 DEF ApplyRelease, Applying
    <2>2. PICK s : s = [sess[i.ref] EXCEPT !.st = "closed"]
        OBVIOUS
    <2>3. s.st = "closed" /\ sess' = [sess EXCEPT ![i.ref] = s]
        BY <1>7, <1>8, <2>1, <2>2
    <2>4. \A t \in Tables : ~ At(l, t, N + 1)
        BY <1>4, <2>1
    <2>5. Served'
        BY <1>6, <2>1, <2>3, <2>4
    <2> QED
        BY <1>7, <2>1, <2>5
\* Nothing is refused: the till is open, the session is, and the table is free.
<1>12. ~ ApplyRefused(h) /\ ~ ApplyPayment(h)
    <2>1. i.kind \in {"open", "order", "fire", "move", "release"}
        BY <1>1
    <2>2. i.kind \in {"order", "move", "release"} => Exists(i.ref) /\ IsActive(i.ref) /\ sess[i.ref].st = "open"
        BY <1>7, <2>1 DEF Exists, IsActive
    <2>3. i.kind = "move" => ActiveAt(i.table) = {}
        BY <1>1
    <2>4. ~ Refusal(i)
        BY <1>2, <2>1, <2>2, <2>3 DEF Refusal
    <2> QED
        BY <1>1, <2>1, <2>4 DEF ApplyRefused, ApplyPayment, Applying
<1>13. ~ (LookupHit(h) \/ LookupMiss(h) \/ InsertKey(h) \/ InsertDuplicate(h) \/ InsertFails(h) \/ Answer(h))
    BY DEF LookupHit, LookupMiss, InsertKey, InsertDuplicate, InsertFails, Answer
<1> QED
    BY <1>1, <1>5, <1>9, <1>10, <1>11, <1>12, <1>13 DEF Ingest

\* What was told stays true when Nest does more.
LEMMA ToldStays ==
    ASSUME Inv, Trace, Aimed, Straight, UNCHANGED <<asked, idMap, acked>>,
           NEW N \in Nat, N = Len(effects), NEW M \in Nat, M = Len(effects'), N <= M,
           \A k \in 1 .. N : effects'[k] = effects[k],
           \A e \in log' : \/ e \in log
                           \/ \E k \in 1 .. M : /\ e.key = EffectKey(effects'[k], asked[k])
                                                /\ asked[k].kind = "open" => e.sid = effects'[k].sid,
           \A h \in Handlers :
              /\ calls'[h].stage = "applied" =>
                    /\ calls'[h].ok /\ ~ Logged(Key(calls[h].item))'
                    /\ Result(calls[h].item, calls[h].sid)'
              /\ calls'[h].stage = "done" =>
                    calls'[h].status \in SyncedStatuses /\ Result(calls[h].item, calls[h].sid)',
           reply' # NoReply => reply'.status \in SyncedStatuses /\ Result(Head(flush.rest), reply.sid)'
    PROVE  Told'
<1>1. \A k \in 1 .. N : k \in 1 .. M
    OBVIOUS
<1>2. ASSUME NEW l \in Locals, idMap'[l] # None PROVE Cloud(l, idMap[l])'
    <2>1. PICK k \in 1 .. N : asked[k].kind = "open" /\ asked[k].ref = l /\ effects[k].sid = idMap[l]
        BY <1>2 DEF Straight, Told, Cloud
    <2>2. k \in 1 .. Len(effects') /\ asked'[k].kind = "open" /\ asked'[k].ref = l /\ effects'[k].sid = idMap'[l]
        BY <1>1, <2>1
    <2> QED
        BY <2>2 DEF Cloud
<1>3. acked' \subseteq 1 .. Len(effects')
    BY <1>1 DEF Straight, Told
<1>4. \A k \in acked' : asked'[k].kind = "open" => idMap'[asked'[k].ref] # None
    BY DEF Straight, Told
<1>5. \A e \in log' : \E k \in 1 .. Len(effects') :
          /\ e.key = EffectKey(effects'[k], asked'[k])
          /\ asked'[k].kind = "open" => e.sid = effects'[k].sid
    <2>1. ASSUME NEW e \in log
          PROVE  \E k \in 1 .. M : /\ e.key = EffectKey(effects'[k], asked[k])
                                   /\ asked[k].kind = "open" => e.sid = effects'[k].sid
        <3>1. PICK k \in 1 .. N : /\ e.key = EffectKey(effects[k], asked[k])
                                  /\ asked[k].kind = "open" => e.sid = effects[k].sid
            BY DEF Straight, Told
        <3> QED
            BY <1>1, <3>1
    <2> QED
        BY <2>1
<1> QED
    BY <1>2, <1>3, <1>4, <1>5 DEF Told

LEMMA IngestStraight ==
    ASSUME Inv, Trace, Aimed, Once, Straight, Plain, NEW h \in Handlers, Ingest(h), UNCHANGED hubVars
    PROVE  Served' /\ Told'
<1>1. UNCHANGED <<asked, idMap, acked, flush, floor, items>>
    BY DEF hubVars
<1>2. \A g \in Handlers : g = h
    BY DEF Plain
<1>3. PICK N \in Nat : N = Len(effects) /\ effects \in Seq(Effect)
    BY EffectFacts DEF Straight
<1>4. Prefix
    BY <1>1, SensibleStays DEF Straight
\* A step that carries nothing out.
<1>5. ASSUME UNCHANGED <<sess, register, effects>>,
             \A e \in log' : \/ e \in log
                             \/ \E k \in 1 .. N : /\ e.key = EffectKey(effects[k], asked[k])
                                                  /\ asked[k].kind = "open" => e.sid = effects[k].sid,
             calls'[h].stage \notin {"applied", "done"}
                 \/ /\ calls'[h].stage = "done" /\ calls'[h].status \in SyncedStatuses
                    /\ Result(calls'[h].item, calls'[h].sid),
             reply' # NoReply => reply'.status \in SyncedStatuses /\ Result(Head(flush.rest), reply'.sid)
      PROVE  Served' /\ Told'
    <2>1. Served'
        BY <1>4, <1>5, ServedStays DEF Straight
    <2>2. \A g \in Handlers :
              /\ calls'[g].stage = "applied" =>
                    /\ calls'[g].ok /\ ~ Logged(Key(calls[g].item))'
                    /\ Result(calls[g].item, calls[g].sid)'
              /\ calls'[g].stage = "done" =>
                    calls'[g].status \in SyncedStatuses /\ Result(calls[g].item, calls[g].sid)'
        BY <1>2, <1>5 DEF Result
    <2>3. reply' # NoReply => reply'.status \in SyncedStatuses /\ Result(Head(flush.rest), reply.sid)'
        BY <1>1, <1>5 DEF Result
    <2>4. \A e \in log' : \/ e \in log
                          \/ \E k \in 1 .. N : /\ e.key = EffectKey(effects'[k], asked[k])
                                               /\ asked[k].kind = "open" => e.sid = effects'[k].sid
        BY <1>5
    <2>5. N = Len(effects') /\ N <= N /\ \A k \in 1 .. N : effects'[k] = effects[k]
        BY <1>3, <1>5
    <2>6. Told'
        BY <1>1, <1>3, <2>2, <2>3, <2>4, <2>5, ToldStays
    <2> QED
        BY <2>1, <2>6
<1>6. PICK i \in Item : i = calls[h].item /\ (Busy(h) => i.id \in 1 .. Len(asked) /\ i.kind = asked[i.id].kind)
    <2>1. Busy(h)
        BY DEF Ingest, LookupHit, LookupMiss, ApplyOpen, ApplyOrder, ApplyPayment, ApplyFire, ApplyMove,
               ApplyRelease, ApplyRefused, InsertKey, InsertDuplicate, InsertFails, Answer, Applying, Busy
    <2> QED
        BY <2>1, RequestFacts
<1>7. Busy(h) => reply = NoReply
    BY DEF Once
<1>8. CASE LookupHit(h)
    <2>1. calls[h].stage = "received" /\ Busy(h) /\ UNCHANGED <<sess, register, effects, log, reply>>
        BY <1>8 DEF LookupHit, nestVars, Busy
    <2>2. PICK e \in log : e.key = Key(i) /\ Finish(h, "duplicate", e.sid)
        BY <1>6, <1>8 DEF LookupHit
    <2>3. PICK k \in 1 .. N : /\ e.key = EffectKey(effects[k], asked[k])
                              /\ asked[k].kind = "open" => e.sid = effects[k].sid
        BY <1>3 DEF Straight, Told
    <2>4. i.id = k
        BY <1>3, <1>6, <2>1, <2>2, <2>3, KeyDistinct
    <2>5. Result(i, e.sid)
        BY <1>3, <1>6, <2>1, <2>3, <2>4 DEF Result
    <2>6. calls'[h].stage = "done" /\ calls'[h].status = "duplicate" /\ calls'[h].item = i /\ calls'[h].sid = e.sid
        BY <1>6, <2>2, RequestSteps
    <2> QED
        BY <1>5, <1>7, <2>1, <2>5, <2>6 DEF SyncedStatuses
<1>9. CASE LookupMiss(h)
    <2>1. calls[h].stage = "received" /\ Busy(h) /\ UNCHANGED <<sess, register, effects, log, reply>> /\ Proceed(h)
        BY <1>9 DEF LookupMiss, nestVars, Busy
    <2>2. calls'[h].stage = "checked"
        BY <2>1, RequestSteps
    <2> QED
        BY <1>5, <1>7, <2>1, <2>2
<1>10. CASE calls[h].stage = "checked"
    <2>1. PICK c \in Clouds, d \in Clouds \cup {None} :
              /\ Changed(i, c) /\ Return(h, TRUE, d) /\ (i.kind = "open" => d = c)
        BY <1>6, <1>10, NextIsDone
    <2>2. Served' /\ UNCHANGED <<log, reply>> /\ Busy(h)
        BY <1>10, NextIsDone DEF Busy
    <2>3. PICK e \in Effect : effects' = Append(effects, e) /\ e.sid = c
        <3>1. PICK e : e = [id |-> i.id, kind |-> i.kind, sid |-> c]
            OBVIOUS
        <3>2. e \in Effect /\ e.sid = c
            BY <3>1, ItemFields DEF Effect
        <3> QED
            BY <2>1, <3>1, <3>2 DEF Changed
    <2>4. /\ Len(effects') = N + 1 /\ effects'[N + 1] = e
          /\ \A k \in 1 .. N : effects'[k] = effects[k]
        BY <1>3, <2>3
    <2>5. i.id = N + 1
        BY <1>3, <1>6, <1>10, NextInLine
    <2>6. calls'[h].stage = "applied" /\ calls'[h].ok /\ calls'[h].item = i /\ calls'[h].sid = d
        <3>1. calls'[h].stage = "applied" /\ calls'[h].item = i
            BY <1>6, <2>1, RequestSteps
        <3>2. calls \in [Handlers -> Call] /\ calls[h] \in Call
            BY DEF Inv, TypeOK, ChannelTypeOK
        <3>3. PICK b : b = [calls[h] EXCEPT !.stage = "applied", !.ok = TRUE, !.sid = d]
            OBVIOUS
        <3>4. calls' = [calls EXCEPT ![h] = b] /\ b.ok = TRUE /\ b.sid = d
            BY <2>1, <3>2, <3>3 DEF Return, Call
        <3> QED
            BY <3>1, <3>2, <3>4
    <2>7. Result(i, d)'
        BY <2>1, <2>3, <2>4, <2>5, <1>3 DEF Result
    <2>8. ~ Logged(Key(i))
        BY <1>6, <1>10 DEF Once
    <2>9. \A g \in Handlers :
              /\ calls'[g].stage = "applied" =>
                    /\ calls'[g].ok /\ ~ Logged(Key(calls[g].item))'
                    /\ Result(calls[g].item, calls[g].sid)'
              /\ calls'[g].stage = "done" =>
                    calls'[g].status \in SyncedStatuses /\ Result(calls[g].item, calls[g].sid)'
        BY <1>2, <2>2, <2>6, <2>7, <2>8 DEF Result, Logged
    <2>10. reply' = NoReply
        BY <1>7, <2>2
    <2>11. Told'
        BY <1>1, <1>3, <2>2, <2>4, <2>9, <2>10, ToldStays
    <2> QED
        BY <2>2, <2>11
\* The event of a request whose result is here was carried out: its key is that
\* of what was done, and its session is there.
<1>11. ASSUME calls[h].stage = "applied"
       PROVE  /\ calls[h].ok /\ ~ Logged(Key(i)) /\ Result(i, calls[h].sid) /\ i.id \in 1 .. N
              /\ EffectKey(effects[i.id], asked[i.id]) = Key(i)
              /\ ForeignKeyHolds(i)
    <2>1. calls[h].ok /\ ~ Logged(Key(i)) /\ Result(i, calls[h].sid)
        BY <1>6, <1>11 DEF Straight, Told
    <2>2. i.id \in 1 .. N
        BY <1>3, <2>1 DEF Result
    <2>3. effects[i.id].id = i.id /\ Busy(h)
        BY <1>3, <1>11, <2>2 DEF Straight, Served, Busy
    <2>4. /\ EffectKey(effects[i.id], asked[i.id]) = Key(i)
          /\ i.kind # "open" => effects[i.id].sid = i.ref
        BY <1>3, <1>6, <2>2, <2>3, SameKey
    <2>5. Exists(effects[i.id].sid)
        BY <1>3, <2>2 DEF Once, CarriedOut
    <2> QED
        BY <2>1, <2>2, <2>4, <2>5 DEF ForeignKeyHolds
<1>12. CASE InsertKey(h)
    <2>1. PICK s, e : s = calls[h].sid /\ e = [key |-> Key(i), sid |-> s]
        OBVIOUS
    <2>2. calls[h].stage = "applied" /\ Busy(h) /\ UNCHANGED <<sess, register, effects, reply>> /\ log' = log \cup {e}
        BY <1>6, <1>12, <2>1 DEF InsertKey, Busy
    <2>3. Finish(h, "applied", s)
        BY <1>11, <1>12, <2>1, <2>2 DEF InsertKey
    <2>4. calls'[h].stage = "done" /\ calls'[h].status = "applied" /\ calls'[h].item = i /\ calls'[h].sid = s
        BY <1>6, <2>3, RequestSteps
    <2>5. /\ e.key = EffectKey(effects[i.id], asked[i.id]) /\ e.sid = s
          /\ asked[i.id].kind = "open" => s = effects[i.id].sid
        BY <1>6, <1>11, <2>1, <2>2 DEF Result
    <2>6. i.id \in 1 .. N /\ Result(i, s)
        BY <1>11, <2>1, <2>2
    <2> QED
        BY <1>5, <1>7, <2>2, <2>4, <2>5, <2>6 DEF SyncedStatuses
<1>13. ~ InsertDuplicate(h)
    BY <1>6, <1>11 DEF InsertDuplicate
<1>14. ~ InsertFails(h)
    BY <1>6, <1>11 DEF InsertFails, Fault, Plain
<1>15. CASE Answer(h)
    <2>1. calls[h].stage = "done" /\ Busy(h) /\ UNCHANGED <<sess, register, effects, log>>
        BY <1>15 DEF Answer, nestVars, Busy
    <2>2. calls' = [calls EXCEPT ![h] = IdleCall] /\ calls \in [Handlers -> Call]
        BY <1>15 DEF Answer, Inv, TypeOK, ChannelTypeOK
    <2>3. calls'[h].stage = "idle"
        BY <2>2 DEF IdleCall
    <2>4. calls[h].status \in SyncedStatuses /\ Result(i, calls[h].sid)
        BY <1>6, <2>1 DEF Straight, Told
    <2>5. reply' # NoReply => reply'.status \in SyncedStatuses /\ Result(Head(flush.rest), reply'.sid)
        <3>1. CASE conn = h
            <4>1. i = Head(flush.rest)
                BY <1>6, <2>1, <3>1, IdsAssumption DEF Trace, Paired
            <4>2. reply' = [status |-> calls[h].status, sid |-> calls[h].sid]
                BY <1>15, <3>1 DEF Answer
            <4> QED
                BY <2>4, <4>1, <4>2
        <3>2. CASE conn # h
            BY <1>7, <1>15, <2>1, <3>2 DEF Answer
        <3> QED
            BY <3>1, <3>2
    <2> QED
        BY <1>5, <2>1, <2>3, <2>5
<1> QED
    BY <1>8, <1>9, <1>10, <1>12, <1>13, <1>14, <1>15
       DEF Ingest, ApplyOpen, ApplyOrder, ApplyPayment, ApplyFire, ApplyMove, ApplyRelease, ApplyRefused, Applying

LEMMA NestStraight ==
    ASSUME Inv, Trace, Aimed, Once, Straight, Plain, NestStep
    PROVE  Straight'
<1>1. UNCHANGED hubVars
    BY DEF NestStep
<1>2. PICK h \in Handlers : Ingest(h)
    <2>1. ~ NestFaults /\ ~ CloseRegister
        BY DEF NestFaults, NestCrash, LookupError, CloseRegister, Fault, Plain
    <2>2. ~ OpenRegister
        BY DEF OpenRegister, Straight, Served
    <2> QED
        BY <2>1, <2>2 DEF NestStep
<1>3. Served' /\ Told'
    BY <1>1, <1>2, IngestStraight
<1>4. Sensible'
    BY <1>1, SensibleStays DEF Straight, hubVars
<1>5. Line'
    BY NestLine DEF Straight
<1> QED
    BY <1>3, <1>4, <1>5 DEF Straight

LEMMA InitStraight == Init => Straight
<1> SUFFICES ASSUME Init PROVE Straight
    OBVIOUS
<1> USE DEF Init, HubInit, NestInit, ChannelInit
<1>1. asked = <<>> /\ effects = <<>> /\ Len(asked) = 0 /\ Len(effects) = 0 /\ 1 .. 0 = {}
    OBVIOUS
<1>2. \A l, t : ~ At(l, t, 0)
    BY <1>1, AtStart
<1>3. Sensible
    BY <1>1, <1>2 DEF Sensible, Settled
<1>4. \A h \in Handlers : calls[h].stage = "idle"
    BY DEF IdleCall
<1>5. Line
    <2>1. Queue = <<>> /\ Len(Queue) = 0 /\ flush.kept = <<>>
        BY DEF Queue, NoFlush
    <2> QED
        BY <1>1, <1>4, <2>1 DEF Line, InLine, Busy
<1>6. \A l, c : ~ Cloud(l, c)
    BY <1>1 DEF Cloud
<1>7. Served
    BY <1>1, <1>2, <1>6 DEF Served, NoSession
<1>8. Told
    <2>1. \A l \in Locals : idMap[l] = None
        BY DEF Refs
    <2> QED
        BY <1>1, <1>4, <2>1 DEF Told
<1> QED
    BY <1>3, <1>5, <1>7, <1>8 DEF Straight

LEMMA StepStraight ==
    ASSUME Plain, Inv, Trace, Aimed, Once, Straight, [Next]_vars
    PROVE  Straight'
<1>1. CASE UNCHANGED vars
    <2>1. UNCHANGED <<hubVars, nestVars, channelVars>>
        BY <1>1 DEF vars
    <2>2. UNCHANGED <<floor, items, flush, idMap, asked, acked, calls, reply>>
        BY <2>1 DEF hubVars, channelVars
    <2>3. Prefix /\ Sensible'
        BY <2>2, SensibleStays DEF Straight
    <2>4. Served' /\ Told'
        BY <2>1, <2>2, <2>3, HubFrame DEF Straight
    <2>5. Line'
        BY <2>2 DEF Straight, Line, InLine, Queue, Busy
    <2> QED
        BY <2>3, <2>4, <2>5 DEF Straight
<1>2. ~ PullBootstrap
    BY DEF PullBootstrap, Fault, Plain
<1> QED
    BY <1>1, <1>2, HubStraight, NestStraight DEF Next

LEMMA StraightThroughout ==
    ASSUME Plain
    PROVE  Spec => [](Inv /\ Trace /\ Aimed /\ Once /\ Straight)
<1>1. OneAtATime /\ "reopen" \notin UserOps
    BY DEF Plain, OneAtATime
<1>2. Spec => []Aimed
    BY <1>1, AimedThroughout
<1>3. Inv /\ Trace /\ Aimed /\ Once /\ [Next]_vars => Once'
    BY <1>1, HubOnce, NestOnce DEF Next
<1>4. Inv /\ Trace /\ Aimed /\ Once /\ Straight /\ [Next]_vars => Straight'
    BY StepStraight
<1> QED
    BY <1>2, <1>3, <1>4, InitOnce, InitStraight, Traced, Invariance, PTL DEF Spec

\* What the hub drops as synced has been carried out: processViaNest takes an
\* entry off only on an answer behind which there is an effect of ingest, and
\* no two requests of the parties have the same key.
THEOREM SyncedIsApplied ==
    ASSUME Plain
    PROVE  Spec => []AckedIsApplied
<1>1. Straight => AckedIsApplied
    BY DEF Straight, Told, Served, AckedIsApplied
<1> QED
    BY <1>1, StraightThroughout, PTL

\* Two parties of the hub never share a session of the cloud: a table is asked
\* for by one party at a time, and SessionsService.open finds no session there
\* that it could give to the next.
THEOREM PartiesSeparate ==
    ASSUME Plain
    PROVE  Spec => []SessionsStaySeparate
<1>1. Inv /\ Aimed /\ Straight => SessionsStaySeparate
    <2> SUFFICES ASSUME Inv, Aimed, Straight, NEW a \in Locals, NEW b \in Locals,
                        idMap[a] # None, idMap[a] = idMap[b]
                 PROVE  a = b
        BY DEF SessionsStaySeparate
    <2>1. Cloud(a, idMap[a]) /\ Cloud(b, idMap[a]) /\ idMap[a] \in Clouds
        BY MapFacts DEF Straight, Told
    <2> QED
        BY <2>1 DEF Straight, Served
<1> QED
    BY <1>1, StraightThroughout, PTL

\* The outbox keeps the safety half of its promise: whatever is asked for is
\* carried out in the order in which it was asked for, each thing once, through
\* time-outs, late answers and restarts of the hub.
THEOREM CarriedOutInOrder ==
    ASSUME Plain
    PROVE  Spec => Promise!Spec
<1> DEFINE carried == [k \in 1 .. Len(effects) |-> effects[k].id]
<1>1. Init => Promise!Init
    BY DEF Init, HubInit, NestInit, Promise!Init
<1>2. Inv /\ Trace /\ Aimed /\ Once /\ Straight /\ [Next]_vars => [Promise!Next]_(Promise!promiseVars)
    <2> SUFFICES ASSUME Inv, Trace, Aimed, Once, Straight, [Next]_vars
                 PROVE  Promise!Next \/ UNCHANGED Promise!promiseVars
        OBVIOUS
    <2>1. PICK N \in Nat : N = Len(effects) /\ effects \in Seq(Effect) /\ asked \in Seq(Item)
        BY EffectFacts, AskedFacts DEF Straight
    <2>2. CASE effects' = effects /\ asked' = asked
        BY <2>2 DEF Promise!promiseVars
    <2>3. ASSUME NEW a, FromWaiter(a) PROVE Promise!Ask
        <3>1. asked' = Append(asked, a) /\ a \in Item /\ effects' = effects
            BY <2>3 DEF FromWaiter, nestVars
        <3>2. Len(asked') = Len(asked) + 1 /\ SubSeq(asked', 1, Len(asked)) = asked
            BY <2>1, <3>1
        <3> QED
            BY <3>1, <3>2 DEF Promise!Ask
    <2>4. ASSUME NEW h \in Handlers, NEW c \in Clouds, calls[h].stage = "checked",
                 Changed(calls[h].item, c), asked' = asked
          PROVE  Promise!Carry
        <3>1. PICK i : i = calls[h].item /\ i.id = N + 1 /\ N + 1 \in 1 .. Len(asked)
            BY <2>1, <2>4, NextFacts
        <3>2. PICK e : e = [id |-> i.id, kind |-> i.kind, sid |-> c]
            OBVIOUS
        <3>3. e.id = N + 1
            BY <3>1, <3>2
        <3>4. effects' = Append(effects, e)
            BY <2>4, <3>1, <3>2 DEF Changed
        <3>5. /\ Len(effects') = N + 1 /\ effects'[N + 1] = e
              /\ \A k \in 1 .. N : effects'[k] = effects[k]
            BY <2>1, <3>4
        <3>6. carried \in Seq(Nat) /\ Len(carried) = N
            <4>1. \A k \in 1 .. N : effects[k] \in Effect
                BY <2>1
            <4>2. \A k \in 1 .. N : effects[k].id \in Nat
                BY <4>1 DEF Effect
            <4> QED
                BY <2>1, <4>2
        <3>7. carried' = Append(carried, Len(carried) + 1)
            BY <2>1, <3>3, <3>5, <3>6
        <3> QED
            BY <2>1, <2>4, <3>1, <3>6, <3>7, AskedFacts DEF Promise!Carry
    <2> QED
        BY <2>2, <2>3, <2>4, StepEntries, StepEffects DEF Promise!Next, FromBefore
<1> QED
    BY <1>1, <1>2, StraightThroughout, PTL DEF Spec, Promise!Spec
=============================================================================
