--------------------------- MODULE HubSync_proofs ---------------------------
(***************************************************************************)
(* Proofs about HubSync for every set of sessions, tables and requests,    *)
(* every mix of operations and faults, and every bound.                    *)
(***************************************************************************)
EXTENDS HubSync, TLAPS

-----------------------------------------------------------------------------
(* Facts about queue entries and sequences of them *)

\* An entry stays an entry when its session id is replaced (remapQueueItem).
LEMMA ItemRef ==
    ASSUME NEW i \in Item, NEW r \in Refs
    PROVE  /\ [i EXCEPT !.ref = r] \in Item
           /\ [i EXCEPT !.ref = r].id = i.id
BY DEF Item

\* Entries have a number, a kind, a session, and perhaps a table.
LEMMA ItemFields ==
    ASSUME NEW i \in Item
    PROVE  /\ i.id \in Nat
           /\ i.kind \in Kinds
           /\ i.ref \in Refs
           /\ i.table \in Tables \cup {None}
           /\ i.kind \in {"open", "move"} => i.table \in Tables
BY DEF Item, Kinds

\* The key of an entry is a key.
LEMMA KeyType ==
    ASSUME NEW i \in Item
    PROVE  Key(i) \in Keys
BY ItemFields DEF Key, Keys

\* Rewriting a queue keeps its length and the ids of its entries.
LEMMA RewrittenType ==
    ASSUME NEW s \in Seq(Item), NEW l \in Refs, NEW c \in Clouds
    PROVE  /\ Rewritten(s, l, c) \in Seq(Item)
           /\ Len(Rewritten(s, l, c)) = Len(s)
           /\ \A n \in 1 .. Len(s) : Rewritten(s, l, c)[n].id = s[n].id
<1> DEFINE f(n) == IF s[n].kind # "open" /\ s[n].ref = l
                   THEN [s[n] EXCEPT !.ref = c] ELSE s[n]
<1>1. c \in Refs
  BY DEF Refs
<1>2. ASSUME NEW n \in 1 .. Len(s)
      PROVE  f(n) \in Item /\ f(n).id = s[n].id
  <2>1. s[n] \in Item
    OBVIOUS
  <2> QED BY <2>1, <1>1, ItemRef
<1>3. Rewritten(s, l, c) = [n \in 1 .. Len(s) |-> f(n)]
  BY DEF Rewritten
<1> HIDE DEF f
<1>4. Len(s) \in Nat
  OBVIOUS
<1>5. [n \in 1 .. Len(s) |-> f(n)] \in Seq(Item)
  BY <1>2, <1>4
<1> QED BY <1>2, <1>3, <1>4, <1>5

\* Putting an entry with a larger id behind a queue.
LEMMA IncreasingAppend ==
    ASSUME NEW s \in Seq(Item), NEW i \in Item, Increasing(s),
           \A n \in 1 .. Len(s) : s[n].id < i.id
    PROVE  Increasing(Append(s, i))
<1>1. /\ Len(Append(s, i)) = Len(s) + 1
      /\ \A n \in 1 .. Len(s) : Append(s, i)[n] = s[n]
      /\ Append(s, i)[Len(s) + 1] = i
      /\ Len(s) \in Nat
  OBVIOUS
<1>2. \A n \in 1 .. Len(s) : s[n].id \in Nat
  BY ItemFields
<1>3. i.id \in Nat
  BY ItemFields
<1> DEFINE a == Append(s, i)
<1> HIDE DEF a
<1> SUFFICES ASSUME NEW m \in 1 .. Len(s) + 1, NEW n \in 1 .. Len(s) + 1, m < n
             PROVE  a[m].id < a[n].id
  BY <1>1 DEF Increasing, a
<1>4. m \in 1 .. Len(s) /\ a[m] = s[m]
  BY <1>1 DEF a
<1>5. CASE n = Len(s) + 1
  BY <1>1, <1>4, <1>5 DEF a
<1>6. CASE n # Len(s) + 1
  <2>1. n \in 1 .. Len(s) /\ a[n] = s[n]
    BY <1>1, <1>6 DEF a
  <2> QED BY <1>4, <2>1 DEF Increasing
<1> QED BY <1>5, <1>6

-----------------------------------------------------------------------------
(* The inductive invariant *)

\* The loop waits only with an entry in hand, a request that is being worked
\* on carries an entry, and one that is answered has a status.
Shape ==
    /\ flush.phase = "waiting" => flush.rest # <<>>
    /\ \A h \in Handlers :
          /\ calls[h].stage \in {"received", "checked", "applied"} => calls[h].item \in Item
          /\ calls[h].stage = "done" => calls[h].status \in Statuses

\* Entries are numbered in the order in which they were enqueued.
Numbered(s) == \A n \in 1 .. Len(s) : s[n].id <= Len(asked)

AllNumbered ==
    /\ Numbered(items)
    /\ Numbered(flush.kept)
    /\ Numbered(flush.rest)

OrderInv == QueueInOrder /\ AllNumbered

Inv == TypeOK /\ Shape /\ OrderInv

-----------------------------------------------------------------------------
(* The initial state *)

\* At the first start nothing is queued and nothing is in flight.
LEMMA InitInv == Init => Inv
<1> SUFFICES ASSUME Init PROVE Inv
  OBVIOUS
<1> USE DEF Init, HubInit, NestInit, ChannelInit
<1>1. HubTypeOK
  BY DEF HubTypeOK, NoFlush, Phases
<1>2. NestTypeOK
  BY DEF NestTypeOK
<1>3. ChannelTypeOK
  BY MaxFaultsAssumption DEF ChannelTypeOK, Call, IdleCall, Stages
<1>4. Shape
  BY DEF Shape, NoFlush, IdleCall
<1>5. OrderInv
  BY DEF OrderInv, QueueInOrder, Increasing, Before, AllNumbered, Numbered, NoFlush
<1> QED BY <1>1, <1>2, <1>3, <1>4, <1>5 DEF Inv, TypeOK

-----------------------------------------------------------------------------
(* Steps of the hub: enqueueing *)

\* What an enqueue does to the queue.
LEMMA EnqueueStep ==
    ASSUME Inv, NEW kind, NEW r \in Refs, NEW t,
           Enqueue(kind, r, t),
           [id |-> Len(asked) + 1, kind |-> kind, ref |-> r, table |-> t] \in Item
    PROVE  /\ items' \in Seq(Item)
           /\ asked' \in Seq(Item)
           /\ flush' = flush /\ idMap' = idMap /\ acked' = acked
           /\ ChannelTypeOK'
           /\ Shape'
           /\ OrderInv'
<1> DEFINE done == [id |-> Len(asked) + 1, kind |-> kind, ref |-> r, table |-> t]
           ref  == IF kind = "open" THEN r ELSE Resolve(r)
           new  == [done EXCEPT !.ref = ref]
<1>1. /\ items \in Seq(Item) /\ asked \in Seq(Item)
      /\ flush.kept \in Seq(Item) /\ flush.rest \in Seq(Item)
      /\ idMap \in [Refs -> Refs \cup {None}]
  BY DEF Inv, TypeOK, HubTypeOK
<1>2. ref \in Refs
  BY <1>1 DEF Resolve
<1>3. new \in Item /\ new.id = Len(asked) + 1
  <2>1. done \in Item /\ done.id = Len(asked) + 1
    OBVIOUS
  <2> HIDE DEF done, ref
  <2> QED BY <2>1, <1>2, ItemRef
<1>4. /\ asked' = Append(asked, done)
      /\ items' = Append(items, new)
      /\ UNCHANGED <<flush, idMap, acked, channelVars>>
  BY DEF Enqueue
<1>5. done \in Item
  OBVIOUS
<1> HIDE DEF done, ref, new
<1>6. /\ items' \in Seq(Item) /\ asked' \in Seq(Item)
      /\ Len(asked') = Len(asked) + 1
      /\ Len(asked) \in Nat
  BY <1>1, <1>3, <1>4, <1>5
<1>7. ChannelTypeOK' /\ Shape'
  BY <1>4 DEF channelVars, Inv, TypeOK, ChannelTypeOK, Shape
<1>8. Increasing(items')
  <2>1. ASSUME NEW n \in 1 .. Len(items) PROVE items[n].id < new.id
    <3>1. items[n].id <= Len(asked) /\ items[n] \in Item
      BY <1>1 DEF Inv, OrderInv, AllNumbered, Numbered
    <3>2. items[n].id \in Nat
      BY <3>1, ItemFields
    <3> QED BY <3>1, <3>2, <1>3, <1>6
  <2>2. Increasing(items)
    BY DEF Inv, OrderInv, QueueInOrder
  <2> QED BY <1>1, <1>3, <1>4, <2>1, <2>2, IncreasingAppend
<1>9. Numbered(items)' /\ Numbered(flush.kept)' /\ Numbered(flush.rest)'
  <2>1. ASSUME NEW s \in Seq(Item), Numbered(s), NEW n \in 1 .. Len(s)
        PROVE  s[n].id <= Len(asked')
    <3>1. s[n].id \in Nat
      BY ItemFields
    <3> QED BY <2>1, <3>1, <1>6 DEF Numbered
  <2>2. Numbered(flush.kept)' /\ Numbered(flush.rest)'
    BY <2>1, <1>1, <1>4 DEF Inv, OrderInv, AllNumbered, Numbered
  <2>3. ASSUME NEW n \in 1 .. Len(items') PROVE items'[n].id <= Len(asked')
    <3>1. CASE n \in 1 .. Len(items)
      <4>1. items'[n] = items[n]
        BY <1>1, <1>4, <3>1
      <4> QED BY <4>1, <3>1, <2>1, <1>1 DEF Inv, OrderInv, AllNumbered
    <3>2. CASE n \notin 1 .. Len(items)
      <4>1. items'[n] = new
        BY <1>1, <1>4, <3>2
      <4> QED BY <4>1, <1>3, <1>6
    <3> QED BY <3>1, <3>2
  <2> QED BY <2>2, <2>3 DEF Numbered
<1>10. OrderInv'
  BY <1>4, <1>8, <1>9 DEF Inv, OrderInv, QueueInOrder, AllNumbered, Increasing, Before
<1> QED BY <1>4, <1>6, <1>7, <1>10

\* Everything the waiters do puts one well-formed entry at the end.
LEMMA EnqueuingInv == Inv /\ Enqueuing /\ UNCHANGED nestVars => Inv'
<1> SUFFICES ASSUME Inv, Enqueuing, UNCHANGED nestVars
             PROVE  Inv'
  OBVIOUS
<1>1. /\ floor \subseteq Refs \X Tables
      /\ Len(asked) + 1 \in Nat
  BY DEF Inv, TypeOK, HubTypeOK
<1>2. NestTypeOK'
  BY DEF Inv, TypeOK, NestTypeOK, nestVars
<1>3. ASSUME NEW kind, NEW r \in Refs, NEW t, Enqueue(kind, r, t),
             [id |-> Len(asked) + 1, kind |-> kind, ref |-> r, table |-> t] \in Item,
             floor' \subseteq Refs \X Tables
      PROVE  Inv'
  BY <1>2, <1>3, EnqueueStep DEF Inv, TypeOK, HubTypeOK
<1>4. ASSUME NEW t \in Tables, OpenTable(t) PROVE Inv'
  <2>1. PICK l \in FreshLocals : floor' = floor \cup {<<l, t>>} /\ Enqueue("open", l, t)
    BY <1>4 DEF OpenTable
  <2>2. l \in Refs
    BY <2>1 DEF FreshLocals, Refs
  <2>3. floor' \subseteq Refs \X Tables
    BY <1>1, <2>1, <2>2
  <2>4. [id |-> Len(asked) + 1, kind |-> "open", ref |-> l, table |-> t] \in Item
    BY <1>1, <2>2 DEF Item
  <2> QED BY <1>3, <2>1, <2>2, <2>3, <2>4
<1>5. ASSUME NEW t \in Tables, ReopenTable(t) PROVE Inv'
  <2>1. PICK p \in floor : Enqueue("open", p[1], t) /\ floor' = floor
    BY <1>5 DEF ReopenTable
  <2>2. p[1] \in Refs
    BY <1>1, <2>1
  <2>3. [id |-> Len(asked) + 1, kind |-> "open", ref |-> p[1], table |-> t] \in Item
    BY <1>1, <2>2 DEF Item
  <2> QED BY <1>1, <1>3, <2>1, <2>2, <2>3
<1>6. ASSUME NEW t \in Tables, OrderOnFreeTable(t) PROVE Inv'
  <2>1. PICK l \in FreshLocals : floor' = floor \cup {<<l, t>>} /\ Enqueue("order", l, None)
    BY <1>6 DEF OrderOnFreeTable
  <2>2. l \in Refs
    BY <2>1 DEF FreshLocals, Refs
  <2>3. floor' \subseteq Refs \X Tables
    BY <1>1, <2>1, <2>2
  <2>4. [id |-> Len(asked) + 1, kind |-> "order", ref |-> l, table |-> None] \in Item
    BY <1>1, <2>2 DEF Item
  <2> QED BY <1>3, <2>1, <2>2, <2>3, <2>4
<1>7. ASSUME NEW t \in Tables, MoveSession(t) PROVE Inv'
  <2>1. PICK p \in floor : /\ floor' = (floor \ {p}) \cup {<<p[1], t>>}
                           /\ Enqueue("move", p[1], t)
    BY <1>7 DEF MoveSession
  <2>2. p[1] \in Refs
    BY <1>1, <2>1
  <2>3. floor' \subseteq Refs \X Tables
    BY <1>1, <2>1, <2>2
  <2>4. [id |-> Len(asked) + 1, kind |-> "move", ref |-> p[1], table |-> t] \in Item
    BY <1>1, <2>2 DEF Item
  <2> QED BY <1>3, <2>1, <2>2, <2>3, <2>4
<1>8. ASSUME NEW kind \in {"order", "pay", "fire", "release"}, NEW p \in floor,
             floor' \subseteq floor, Enqueue(kind, p[1], None)
      PROVE  Inv'
  <2>1. p[1] \in Refs
    BY <1>1
  <2>2. [id |-> Len(asked) + 1, kind |-> kind, ref |-> p[1], table |-> None] \in Item
    BY <1>1, <2>1 DEF Item
  <2>3. floor' \subseteq Refs \X Tables
    BY <1>1, <1>8
  <2> QED BY <1>3, <1>8, <2>1, <2>2, <2>3
<1>9. CASE CreateOrder
  <2>1. PICK p \in floor : Enqueue("order", p[1], None) /\ floor' = floor
    BY <1>9 DEF CreateOrder
  <2> QED BY <1>8, <2>1
<1>10. CASE CollectCash
  <2>1. PICK p \in floor : Enqueue("pay", p[1], None) /\ floor' = floor
    BY <1>10 DEF CollectCash
  <2> QED BY <1>8, <2>1
<1>11. CASE FireCourse
  <2>1. PICK p \in floor : Enqueue("fire", p[1], None) /\ floor' = floor
    BY <1>11 DEF FireCourse
  <2> QED BY <1>8, <2>1
<1>12. CASE ReleaseSession
  <2>1. PICK p \in floor : /\ floor' = {q \in floor : q[1] # p[1]}
                           /\ Enqueue("release", p[1], None)
    BY <1>12 DEF ReleaseSession
  <2> QED BY <1>8, <2>1
<1> QED BY <1>4, <1>5, <1>6, <1>7, <1>9, <1>10, <1>11, <1>12 DEF Enqueuing

-----------------------------------------------------------------------------
(* Steps of the hub: the flush *)

\* The entry in hand and the rest behind it.
LEMMA RestFacts ==
    ASSUME Inv, flush.rest # <<>>
    PROVE  /\ Head(flush.rest) \in Item
           /\ Outgoing \in Item /\ Outgoing.id = Head(flush.rest).id
           /\ Tail(flush.rest) \in Seq(Item)
           /\ RestOut \in Seq(Item) /\ Len(RestOut) = Len(flush.rest)
           /\ \A n \in 1 .. Len(flush.rest) : RestOut[n].id = flush.rest[n].id
           /\ RestOut # <<>>
<1>1. flush.rest \in Seq(Item) /\ idMap \in [Refs -> Refs \cup {None}]
  BY DEF Inv, TypeOK, HubTypeOK
<1>2. Head(flush.rest) \in Item /\ Tail(flush.rest) \in Seq(Item)
  BY <1>1
<1>3. Resolve(Head(flush.rest).ref) \in Refs
  BY <1>1, <1>2, ItemFields DEF Resolve
<1>4. Outgoing \in Item /\ Outgoing.id = Head(flush.rest).id
  BY <1>2, <1>3, ItemRef DEF Outgoing
<1>5. /\ RestOut \in Seq(Item) /\ Len(RestOut) = Len(flush.rest)
      /\ RestOut[1] = Outgoing
      /\ \A n \in 2 .. Len(flush.rest) : RestOut[n] = flush.rest[n]
  BY <1>1, <1>2, <1>4 DEF RestOut
<1>6. \A n \in 1 .. Len(flush.rest) : RestOut[n].id = flush.rest[n].id
  BY <1>1, <1>4, <1>5
<1>7. RestOut # <<>>
  BY <1>1, <1>5
<1> QED BY <1>2, <1>4, <1>5, <1>6, <1>7

\* Two queues whose entries have the same ids are in the same order.
LEMMA SameIds ==
    ASSUME NEW s \in Seq(Item), NEW t \in Seq(Item), Len(t) = Len(s),
           \A n \in 1 .. Len(s) : t[n].id = s[n].id
    PROVE  /\ Increasing(s) => Increasing(t)
           /\ Numbered(s) => Numbered(t)
           /\ \A u \in Seq(Item) : Before(u, s) => Before(u, t)
BY DEF Increasing, Numbered, Before

\* Taking the first entry away.
LEMMA TailOrder ==
    ASSUME NEW s \in Seq(Item), s # <<>>
    PROVE  /\ Tail(s) \in Seq(Item)
           /\ Increasing(s) => Increasing(Tail(s))
           /\ Numbered(s) => Numbered(Tail(s))
           /\ \A u \in Seq(Item) : Before(u, s) => Before(u, Tail(s))
<1>1. /\ Tail(s) \in Seq(Item)
      /\ Len(s) \in Nat /\ Len(Tail(s)) = Len(s) - 1
      /\ \A n \in 1 .. Len(Tail(s)) : Tail(s)[n] = s[n + 1] /\ n + 1 \in 1 .. Len(s)
  OBVIOUS
<1> DEFINE t == Tail(s)
<1>2. /\ t \in Seq(Item)
      /\ Len(t) \in Nat
      /\ \A n \in 1 .. Len(t) : t[n] = s[n + 1] /\ n + 1 \in 1 .. Len(s)
  BY <1>1
<1> HIDE DEF t
<1>3. Increasing(s) => Increasing(t)
  <2> SUFFICES ASSUME Increasing(s), NEW m \in 1 .. Len(t), NEW n \in 1 .. Len(t), m < n
               PROVE  t[m].id < t[n].id
    BY DEF Increasing
  <2>1. s[m + 1].id < s[n + 1].id
    BY <1>2 DEF Increasing
  <2> QED BY <1>2, <2>1
<1>4. Numbered(s) => Numbered(t)
  BY <1>2 DEF Numbered
<1>5. \A u \in Seq(Item) : Before(u, s) => Before(u, t)
  BY <1>2 DEF Before
<1> QED BY <1>1, <1>3, <1>4, <1>5 DEF t

\* Putting one queue behind another.
LEMMA ConcatOrder ==
    ASSUME NEW s \in Seq(Item), NEW t \in Seq(Item),
           Increasing(s), Increasing(t), Before(s, t), Numbered(s), Numbered(t)
    PROVE  /\ s \o t \in Seq(Item)
           /\ Increasing(s \o t)
           /\ Numbered(s \o t)
<1> DEFINE u == s \o t
<1>1. /\ u \in Seq(Item)
      /\ Len(s) \in Nat /\ Len(t) \in Nat /\ Len(u) = Len(s) + Len(t)
      /\ \A n \in 1 .. Len(u) : u[n] = IF n <= Len(s) THEN s[n] ELSE t[n - Len(s)]
  OBVIOUS
<1> HIDE DEF u
<1>2. \A n \in 1 .. Len(u) : n <= Len(s) => n \in 1 .. Len(s) /\ u[n] = s[n]
  BY <1>1
<1>3. \A n \in 1 .. Len(u) : ~(n <= Len(s)) => n - Len(s) \in 1 .. Len(t) /\ u[n] = t[n - Len(s)]
  BY <1>1
<1>4. Numbered(u)
  BY <1>2, <1>3 DEF Numbered
<1>5. Increasing(u)
  <2> SUFFICES ASSUME NEW m \in 1 .. Len(u), NEW n \in 1 .. Len(u), m < n
               PROVE  u[m].id < u[n].id
    BY DEF Increasing
  <2>1. CASE n <= Len(s)
    <3>1. m <= Len(s)
      BY <1>1, <2>1
    <3>2. s[m].id < s[n].id
      BY <1>2, <2>1, <3>1 DEF Increasing
    <3> QED BY <1>2, <2>1, <3>1, <3>2
  <2>2. CASE ~(n <= Len(s)) /\ m <= Len(s)
    <3>1. s[m].id < t[n - Len(s)].id
      BY <1>2, <1>3, <2>2 DEF Before
    <3> QED BY <1>2, <1>3, <2>2, <3>1
  <2>3. CASE ~(m <= Len(s))
    <3>1. ~(n <= Len(s))
      BY <1>1, <2>3
    <3>2. /\ m - Len(s) \in 1 .. Len(t) /\ n - Len(s) \in 1 .. Len(t)
          /\ m - Len(s) < n - Len(s)
      BY <1>1, <1>3, <2>3, <3>1
    <3>3. t[m - Len(s)].id < t[n - Len(s)].id
      BY <3>2 DEF Increasing
    <3> QED BY <1>3, <2>3, <3>1, <3>3
  <2> QED BY <2>1, <2>2, <2>3
<1> QED BY <1>1, <1>4, <1>5 DEF u

\* The loop stops: what was kept and what was not sent is the queue.
LEMMA StopOfflineInv ==
    ASSUME Inv, flush.rest # <<>>, StopOffline
    PROVE  HubTypeOK' /\ OrderInv' /\ flush'.phase = "idle"
<1>1. HubTypeOK /\ OrderInv
  BY DEF Inv, TypeOK
<1>2. /\ flush.kept \in Seq(Item) /\ flush.rest \in Seq(Item) /\ RestOut \in Seq(Item)
      /\ Increasing(flush.kept) /\ Numbered(flush.kept)
      /\ Increasing(flush.rest) /\ Numbered(flush.rest)
      /\ Before(flush.kept, flush.rest)
  BY <1>1, RestFacts DEF HubTypeOK, OrderInv, QueueInOrder, AllNumbered
<1>3. Increasing(RestOut) /\ Numbered(RestOut) /\ Before(flush.kept, RestOut)
  BY <1>2, RestFacts, SameIds
<1>4. items' \in Seq(Item) /\ Increasing(items') /\ Numbered(items')
  <2>1. items' = flush.kept \o RestOut
    BY DEF StopOffline
  <2> HIDE DEF RestOut
  <2> QED BY <1>2, <1>3, <2>1, ConcatOrder
<1>5. flush' = NoFlush /\ UNCHANGED <<floor, idMap, asked, acked>>
  BY DEF StopOffline
<1>6. HubTypeOK'
  BY <1>1, <1>4, <1>5 DEF HubTypeOK, NoFlush, Phases
<1>7. OrderInv'
  BY <1>4, <1>5 DEF OrderInv, QueueInOrder, AllNumbered, NoFlush, Increasing, Numbered, Before
<1> QED BY <1>5, <1>6, <1>7 DEF NoFlush

\* The loop keeps the entry in hand and goes on.
LEMMA KeepAndGoOnInv ==
    ASSUME Inv, flush.rest # <<>>, KeepAndGoOn
    PROVE  HubTypeOK' /\ OrderInv' /\ flush'.phase = "step"
<1>1. HubTypeOK /\ OrderInv
  BY DEF Inv, TypeOK
<1> DEFINE kept == flush.kept
           rest == flush.rest
           tail == Tail(flush.rest)
<1>2. /\ kept \in Seq(Item) /\ rest \in Seq(Item)
      /\ Increasing(kept) /\ Numbered(kept)
      /\ Increasing(rest) /\ Numbered(rest) /\ Before(kept, rest)
  BY <1>1 DEF HubTypeOK, OrderInv, QueueInOrder, AllNumbered
<1>3. /\ tail \in Seq(Item) /\ Increasing(tail) /\ Numbered(tail) /\ Before(kept, tail)
  BY <1>2, TailOrder
<1>4. /\ Outgoing \in Item /\ Outgoing.id = rest[1].id
      /\ Len(rest) \in Nat /\ 1 \in 1 .. Len(rest)
      /\ Len(tail) = Len(rest) - 1
      /\ \A n \in 1 .. Len(tail) : tail[n] = rest[n + 1] /\ n + 1 \in 1 .. Len(rest)
  BY <1>2, RestFacts
<1>5. /\ flush' = [phase |-> "step", rest |-> tail, kept |-> Append(kept, Outgoing)]
      /\ UNCHANGED <<floor, items, idMap, asked, acked>>
  BY DEF KeepAndGoOn
<1> DEFINE new == Append(kept, Outgoing)
<1>6. /\ new \in Seq(Item) /\ Len(new) = Len(kept) + 1 /\ Len(kept) \in Nat
      /\ \A n \in 1 .. Len(new) :
            new[n] = IF n = Len(kept) + 1 THEN Outgoing ELSE kept[n]
  BY <1>2, <1>4
<1> HIDE DEF kept, rest, tail, new
<1>7. Increasing(new)
  <2>1. \A n \in 1 .. Len(kept) : kept[n].id < Outgoing.id
    BY <1>2, <1>4 DEF Before
  <2> QED BY <1>2, <1>4, <2>1, IncreasingAppend DEF new
<1>8. Numbered(new)
  <2>1. Outgoing.id <= Len(asked)
    BY <1>2, <1>4 DEF Numbered
  <2> QED BY <1>2, <1>6, <2>1 DEF Numbered
<1>9. Before(new, tail)
  <2> SUFFICES ASSUME NEW m \in 1 .. Len(new), NEW n \in 1 .. Len(tail)
               PROVE  new[m].id < tail[n].id
    BY DEF Before
  <2>1. CASE m = Len(kept) + 1
    <3>1. rest[1].id < rest[n + 1].id
      BY <1>2, <1>4 DEF Increasing
    <3> QED BY <1>4, <1>6, <2>1, <3>1
  <2>2. CASE m # Len(kept) + 1
    <3>1. m \in 1 .. Len(kept) /\ new[m] = kept[m]
      BY <1>6, <2>2
    <3> QED BY <1>3, <3>1 DEF Before
  <2> QED BY <2>1, <2>2
<1>10. HubTypeOK'
  BY <1>1, <1>3, <1>5, <1>6 DEF HubTypeOK, Phases, new
<1>11. OrderInv'
  <2>1. /\ items' = items /\ asked' = asked
        /\ flush'.kept = new /\ flush'.rest = tail
    BY <1>5 DEF new, tail, kept
  <2>2. QueueInOrder'
    BY <1>1, <1>3, <1>7, <1>9, <2>1 DEF OrderInv, QueueInOrder
  <2>3. AllNumbered'
    BY <1>1, <1>3, <1>8, <2>1 DEF OrderInv, AllNumbered, Numbered
  <2> QED BY <2>2, <2>3 DEF OrderInv
<1> QED BY <1>5, <1>10, <1>11

\* The steps of the flush loop leave the order as it was.
LEMMA FlushInv == Inv /\ Flushing /\ UNCHANGED nestVars => Inv'
<1> SUFFICES ASSUME Inv, Flushing, UNCHANGED nestVars
             PROVE  Inv'
  OBVIOUS
<1>1. HubTypeOK /\ ChannelTypeOK /\ Shape /\ OrderInv
  BY DEF Inv, TypeOK
<1>2. NestTypeOK'
  BY DEF Inv, TypeOK, NestTypeOK, nestVars
<1>3. CASE FlushStart
  <2>1. /\ flush' = [phase |-> "step", rest |-> items, kept |-> <<>>]
        /\ UNCHANGED <<floor, items, idMap, asked, acked, channelVars>>
    BY <1>3 DEF FlushStart
  <2>2. HubTypeOK'
    BY <1>1, <2>1 DEF HubTypeOK, Phases
  <2>3. ChannelTypeOK' /\ Shape'
    BY <1>1, <2>1 DEF ChannelTypeOK, Shape, channelVars
  <2>4. OrderInv'
    BY <1>1, <2>1 DEF OrderInv, QueueInOrder, AllNumbered, Increasing, Numbered, Before
  <2> QED BY <1>2, <2>2, <2>3, <2>4 DEF Inv, TypeOK
<1>4. ASSUME NEW h \in Handlers, Send(h) PROVE Inv'
  <2> DEFINE call == [IdleCall EXCEPT !.stage = "received", !.item = Outgoing]
  <2>1. /\ calls' = [calls EXCEPT ![h] = call]
        /\ conn' = h
        /\ flush' = [flush EXCEPT !.phase = "waiting", !.rest = RestOut]
        /\ flush.rest # <<>>
        /\ UNCHANGED <<floor, items, idMap, asked, acked, reply, faults>>
    BY <1>4 DEF Send
  <2>2. /\ Outgoing \in Item /\ RestOut \in Seq(Item) /\ Len(RestOut) = Len(flush.rest)
        /\ \A n \in 1 .. Len(flush.rest) : RestOut[n].id = flush.rest[n].id
        /\ RestOut # <<>>
    BY <2>1, RestFacts
  <2>3. call \in Call /\ call.item \in Item
    BY <2>2 DEF Call, IdleCall, Stages
  <2>4. HubTypeOK'
    BY <1>1, <2>1, <2>2 DEF HubTypeOK, Phases
  <2>5. ChannelTypeOK' /\ Shape'
    BY <1>1, <2>1, <2>2, <2>3 DEF ChannelTypeOK, Shape, HubTypeOK
  <2>6. /\ flush.kept \in Seq(Item) /\ flush.rest \in Seq(Item)
        /\ flush'.kept = flush.kept /\ flush'.rest = RestOut
    BY <1>1, <2>1 DEF HubTypeOK
  <2>7. /\ Increasing(RestOut) /\ Numbered(RestOut) /\ Before(flush.kept, RestOut)
    BY <1>1, <2>2, <2>6, SameIds DEF OrderInv, QueueInOrder, AllNumbered
  <2> HIDE DEF RestOut
  <2>8. OrderInv'
    BY <1>1, <2>1, <2>6, <2>7
       DEF OrderInv, QueueInOrder, AllNumbered, Numbered
  <2> QED BY <1>2, <2>4, <2>5, <2>8 DEF Inv, TypeOK
<1>5. CASE Synced
  <2> DEFINE i == Head(flush.rest)
             tail == Tail(flush.rest)
  <2>1. /\ flush.phase = "waiting"
        /\ reply.status \in SyncedStatuses
        /\ acked' = acked \cup {i.id}
        /\ conn' = None /\ reply' = NoReply
        /\ UNCHANGED <<items, asked, calls, faults>>
    BY <1>5 DEF Synced
  <2>2. flush.rest # <<>> /\ flush.rest \in Seq(Item) /\ flush.kept \in Seq(Item)
    BY <1>1, <2>1 DEF Shape, HubTypeOK
  <2>3. i \in Item /\ i.id \in Nat /\ i.ref \in Refs
    BY <2>2, RestFacts, ItemFields
  <2>4. /\ tail \in Seq(Item)
        /\ Increasing(tail) /\ Numbered(tail) /\ Before(flush.kept, tail)
    BY <1>1, <2>2, TailOrder DEF OrderInv, QueueInOrder, AllNumbered
  <2>5. ChannelTypeOK'
    BY <1>1, <2>1 DEF ChannelTypeOK
  <2>6. acked' \subseteq Nat
    BY <1>1, <2>1, <2>3 DEF HubTypeOK
  <2>7. ASSUME NEW t \in Seq(Item), Increasing(t), Numbered(t), Before(flush.kept, t),
               flush' = [flush EXCEPT !.phase = "step", !.rest = t],
               idMap' \in [Refs -> Refs \cup {None}], floor' \subseteq Refs \X Tables
        PROVE  Inv'
    <3>1. HubTypeOK'
      BY <1>1, <2>1, <2>6, <2>7 DEF HubTypeOK, Phases
    <3>2. flush'.rest = t /\ flush'.kept = flush.kept /\ flush'.phase = "step"
      BY <1>1, <2>7 DEF HubTypeOK
    <3>3. Shape'
      BY <1>1, <2>1, <3>2 DEF Shape
    <3>4. OrderInv'
      BY <1>1, <2>1, <2>7, <3>2 DEF OrderInv, QueueInOrder, AllNumbered, Numbered
    <3> QED BY <1>2, <2>5, <3>1, <3>3, <3>4 DEF Inv, TypeOK
  <2>8. CASE Opens(i)
    <3> DEFINE c == reply.sid
    <3>1. c \in Clouds /\ c \in Refs
      BY <1>1, <2>1, <2>8 DEF ChannelTypeOK, Reply, NoReply, SyncedStatuses, Opens, Refs
    <3>2. /\ idMap' = Remembered(i.ref, c)
          /\ floor' \in Remapped(i.ref, c)
          /\ flush' = [flush EXCEPT !.phase = "step", !.rest = Rewritten(tail, i.ref, c)]
      BY <1>5, <2>8 DEF Synced
    <3>3. idMap' \in [Refs -> Refs \cup {None}]
      BY <1>1, <3>1, <3>2 DEF HubTypeOK, Remembered
    <3>4. floor' \subseteq Refs \X Tables
      BY <1>1, <3>1, <3>2 DEF HubTypeOK, Remapped
    <3> DEFINE t == Rewritten(tail, i.ref, c)
    <3>5. /\ t \in Seq(Item) /\ Len(t) = Len(tail)
          /\ \A n \in 1 .. Len(tail) : t[n].id = tail[n].id
      BY <2>3, <2>4, <3>1, RewrittenType
    <3> HIDE DEF t, tail, c
    <3>6. Increasing(t) /\ Numbered(t) /\ Before(flush.kept, t)
      BY <2>2, <2>4, <3>5, SameIds
    <3> QED BY <2>7, <3>2, <3>3, <3>4, <3>5, <3>6 DEF t
  <2>9. CASE ~Opens(i)
    <3>1. flush' = [flush EXCEPT !.phase = "step", !.rest = tail] /\ UNCHANGED <<idMap, floor>>
      BY <1>5, <2>9 DEF Synced
    <3> QED BY <1>1, <2>4, <2>7, <3>1 DEF HubTypeOK
  <2> QED BY <2>8, <2>9
<1>6. CASE Refused
  <2>1. /\ flush.phase = "waiting" /\ flush.rest # <<>>
        /\ KeepAndGoOn \/ StopOffline
        /\ conn' = None /\ reply' = NoReply
        /\ UNCHANGED <<calls, faults>>
    BY <1>1, <1>6 DEF Refused, Shape
  <2>2. HubTypeOK' /\ OrderInv' /\ flush'.phase # "waiting"
    BY <2>1, KeepAndGoOnInv, StopOfflineInv
  <2>3. ChannelTypeOK' /\ Shape'
    BY <1>1, <2>1, <2>2 DEF ChannelTypeOK, Shape
  <2> QED BY <1>2, <2>2, <2>3 DEF Inv, TypeOK
<1>7. CASE FlushEnd
  <2>1. /\ items' = flush.kept /\ flush' = NoFlush
        /\ UNCHANGED <<floor, idMap, asked, acked, channelVars>>
    BY <1>7 DEF FlushEnd
  <2>2. HubTypeOK'
    BY <1>1, <2>1 DEF HubTypeOK, NoFlush, Phases
  <2>3. ChannelTypeOK' /\ Shape'
    BY <1>1, <2>1 DEF ChannelTypeOK, Shape, channelVars, NoFlush
  <2>4. OrderInv'
    BY <1>1, <2>1
       DEF OrderInv, QueueInOrder, AllNumbered, Increasing, Numbered, Before, NoFlush
  <2> QED BY <1>2, <2>2, <2>3, <2>4 DEF Inv, TypeOK
<1> QED BY <1>3, <1>4, <1>5, <1>6, <1>7 DEF Flushing

\* A fault is counted.
LEMMA FaultType ==
    ASSUME NEW f, Fault(f), faults \in 0 .. MaxFaults
    PROVE  faults' \in 0 .. MaxFaults
BY MaxFaultsAssumption DEF Fault

\* Requests that fail, answers that stay away, and a hub that is restarted.
LEMMA HubFaultsInv == Inv /\ HubFaults /\ UNCHANGED nestVars => Inv'
<1> SUFFICES ASSUME Inv, HubFaults, UNCHANGED nestVars
             PROVE  Inv'
  OBVIOUS
<1>1. HubTypeOK /\ ChannelTypeOK /\ Shape /\ OrderInv
  BY DEF Inv, TypeOK
<1>2. NestTypeOK'
  BY DEF Inv, TypeOK, NestTypeOK, nestVars
<1>3. ASSUME flush.rest # <<>>, NEW f, Fault(f), StopOffline \/ KeepAndGoOn,
             conn' \in {conn, None}, UNCHANGED <<calls, reply>>
      PROVE  Inv'
  <2>1. HubTypeOK' /\ OrderInv' /\ flush'.phase # "waiting"
    BY <1>3, KeepAndGoOnInv, StopOfflineInv
  <2>2. ChannelTypeOK' /\ Shape'
    BY <1>1, <1>3, <2>1, FaultType DEF ChannelTypeOK, Shape
  <2> QED BY <1>2, <2>1, <2>2 DEF Inv, TypeOK
<1>4. CASE SendFails
  BY <1>3, <1>4 DEF SendFails
<1>5. CASE GiveUp
  BY <1>1, <1>3, <1>5 DEF GiveUp, Shape
<1>6. CASE HubCrash
  <2>1. /\ flush' = NoFlush /\ conn' = None /\ reply' = NoReply
        /\ Fault("hubcrash")
        /\ UNCHANGED <<floor, items, idMap, asked, acked, calls>>
    BY <1>6 DEF HubCrash
  <2>2. HubTypeOK'
    BY <1>1, <2>1 DEF HubTypeOK, NoFlush, Phases
  <2>3. ChannelTypeOK' /\ Shape'
    BY <1>1, <2>1, FaultType DEF ChannelTypeOK, Shape, NoFlush
  <2>4. OrderInv'
    BY <1>1, <2>1
       DEF OrderInv, QueueInOrder, AllNumbered, Increasing, Numbered, Before, NoFlush
  <2> QED BY <1>2, <2>2, <2>3, <2>4 DEF Inv, TypeOK
<1> QED BY <1>4, <1>5, <1>6 DEF HubFaults

-----------------------------------------------------------------------------
(* Steps of Nest *)

\* A request is still worked on as it was, or has an answer.
Continued(h) ==
    /\ calls'[h].stage \in {"received", "checked", "applied"} =>
          /\ calls[h].stage \in {"received", "checked", "applied"}
          /\ calls'[h].item = calls[h].item
    /\ calls'[h].stage = "done" => calls'[h].status \in Statuses

\* Nest leaves the hub alone: it is enough that its own variables, the
\* requests and the answer keep their types.
LEMMA NestFrame ==
    ASSUME Inv, UNCHANGED hubVars, NestTypeOK', ChannelTypeOK',
           \A h \in Handlers : Continued(h)
    PROVE  Inv'
<1>1. HubTypeOK' /\ OrderInv'
  BY DEF Inv, TypeOK, HubTypeOK, OrderInv, QueueInOrder, AllNumbered,
         Increasing, Before, Numbered, hubVars
<1>2. Shape'
  BY DEF Inv, Shape, hubVars, Continued
<1> QED BY <1>1, <1>2 DEF Inv, TypeOK

\* One request goes on: the others are not touched.
LEMMA OneRequest ==
    ASSUME Inv, NEW h \in Handlers, NEW new \in Call,
           calls' = [calls EXCEPT ![h] = new], Continued(h)
    PROVE  /\ calls' \in [Handlers -> Call]
           /\ \A g \in Handlers : Continued(g)
<1>1. calls \in [Handlers -> Call]
  BY DEF Inv, TypeOK, ChannelTypeOK
<1>2. calls' \in [Handlers -> Call]
  BY <1>1
<1>3. ASSUME NEW g \in Handlers, g # h PROVE Continued(g)
  BY <1>1, <1>3 DEF Continued, Inv, Shape
<1> QED BY <1>2, <1>3

\* The three ways in which ingest goes on with a request.
LEMMA RequestGoesOn ==
    ASSUME Inv, NEW h \in Handlers,
           calls[h].stage \in {"received", "checked", "applied"},
           NEW ok \in BOOLEAN, NEW sid \in Clouds \cup {None}, NEW status \in Statuses,
           Proceed(h) \/ Return(h, ok, sid) \/ Finish(h, status, sid)
    PROVE  /\ calls' \in [Handlers -> Call]
           /\ \A g \in Handlers : Continued(g)
<1>1. calls \in [Handlers -> Call] /\ calls[h] \in Call
  BY DEF Inv, TypeOK, ChannelTypeOK
<1>2. CASE Proceed(h)
  <2> DEFINE new == [calls[h] EXCEPT !.stage = "checked"]
  <2>1. new \in Call /\ new.item = calls[h].item /\ new.stage = "checked"
    BY <1>1 DEF Call, Stages
  <2>2. calls' = [calls EXCEPT ![h] = new] /\ calls'[h] = new
    BY <1>1, <1>2 DEF Proceed
  <2> HIDE DEF new
  <2>3. Continued(h)
    BY <2>1, <2>2 DEF Continued
  <2> QED BY <2>1, <2>2, <2>3, OneRequest
<1>3. CASE Return(h, ok, sid)
  <2> DEFINE new == [calls[h] EXCEPT !.stage = "applied", !.ok = ok, !.sid = sid]
  <2>1. new \in Call /\ new.item = calls[h].item /\ new.stage = "applied"
    BY <1>1 DEF Call, Stages
  <2>2. calls' = [calls EXCEPT ![h] = new] /\ calls'[h] = new
    BY <1>1, <1>3 DEF Return
  <2> HIDE DEF new
  <2>3. Continued(h)
    BY <2>1, <2>2 DEF Continued
  <2> QED BY <2>1, <2>2, <2>3, OneRequest
<1>4. CASE Finish(h, status, sid)
  <2> DEFINE new == [calls[h] EXCEPT !.stage = "done", !.status = status, !.sid = sid]
  <2>1. new \in Call /\ new.stage = "done" /\ new.status = status
    BY <1>1 DEF Call, Stages
  <2>2. calls' = [calls EXCEPT ![h] = new] /\ calls'[h] = new
    BY <1>1, <1>4 DEF Finish
  <2> HIDE DEF new
  <2>3. Continued(h)
    BY <2>1, <2>2 DEF Continued
  <2> QED BY <2>1, <2>2, <2>3, OneRequest
<1> QED BY <1>2, <1>3, <1>4

\* The steps of a request inside Nest.
LEMMA IngestInv ==
    ASSUME Inv, NEW h \in Handlers, Ingest(h), UNCHANGED hubVars
    PROVE  Inv'
<1>1. NestTypeOK /\ ChannelTypeOK /\ Shape /\ calls[h] \in Call
  BY DEF Inv, TypeOK, ChannelTypeOK
<1>2. ASSUME calls[h].stage \in {"received", "checked", "applied"},
             NEW ok \in BOOLEAN, NEW sid \in Clouds \cup {None}, NEW status \in Statuses,
             Proceed(h) \/ Return(h, ok, sid) \/ Finish(h, status, sid),
             UNCHANGED <<conn, reply>>, faults' \in 0 .. MaxFaults, NestTypeOK'
      PROVE  Inv'
  <2>1. calls' \in [Handlers -> Call] /\ \A g \in Handlers : Continued(g)
    BY <1>2, RequestGoesOn
  <2>2. ChannelTypeOK'
    BY <1>1, <1>2, <2>1 DEF ChannelTypeOK
  <2> QED BY <1>2, <2>1, <2>2, NestFrame
<1>3. faults \in 0 .. MaxFaults
  BY <1>1 DEF ChannelTypeOK
<1>4. UNCHANGED nestVars => NestTypeOK'
  BY <1>1 DEF NestTypeOK, nestVars
<1>5. "duplicate" \in Statuses /\ "rejected" \in Statuses /\ "applied" \in Statuses
  BY DEF Statuses
<1>6. CASE LookupHit(h)
  <2>1. PICK e \in log : Finish(h, "duplicate", e.sid)
    BY <1>6 DEF LookupHit
  <2>2. e.sid \in Clouds \cup {None}
    BY <1>1 DEF NestTypeOK
  <2>3. calls[h].stage = "received" /\ UNCHANGED <<nestVars, conn, reply, faults>>
    BY <1>6 DEF LookupHit
  <2> QED BY <1>2, <1>3, <1>4, <1>5, <2>1, <2>2, <2>3
<1>7. CASE LookupMiss(h)
  <2>1. /\ calls[h].stage = "received" /\ Proceed(h)
        /\ UNCHANGED <<nestVars, conn, reply, faults>>
    BY <1>7 DEF LookupMiss
  <2> QED BY <1>2, <1>3, <1>4, <1>5, <2>1
\* applyEvent: the services change the sessions and are recorded.
<1>8. ASSUME NEW ok \in BOOLEAN, NEW sid \in Clouds \cup {None},
             calls[h].stage = "checked", Return(h, ok, sid),
             UNCHANGED <<register, log, conn, reply, faults>>,
             sess' \in [Clouds -> Session \cup {NoSession}],
             \/ effects' = effects
             \/ \E c \in Clouds : Changed(calls[h].item, c)
      PROVE  Inv'
  <2>1. calls[h].item \in Item
    BY <1>1, <1>8 DEF Shape
  <2>2. calls[h].item.id \in Nat /\ calls[h].item.kind \in Kinds
    BY <2>1, ItemFields
  <2>3. effects' \in Seq([id: Nat, kind: Kinds, sid: Clouds])
    <3>1. effects \in Seq([id: Nat, kind: Kinds, sid: Clouds])
      BY <1>1 DEF NestTypeOK
    <3>2. \A c \in Clouds : [id |-> calls[h].item.id, kind |-> calls[h].item.kind, sid |-> c]
                               \in [id: Nat, kind: Kinds, sid: Clouds]
      BY <2>2
    <3>3. CASE effects' = effects
      BY <3>1, <3>3
    <3>4. ASSUME NEW c \in Clouds, Changed(calls[h].item, c)
          PROVE  effects' \in Seq([id: Nat, kind: Kinds, sid: Clouds])
      <4> DEFINE e == [id |-> calls[h].item.id, kind |-> calls[h].item.kind, sid |-> c]
      <4>1. effects' = Append(effects, e) /\ e \in [id: Nat, kind: Kinds, sid: Clouds]
        BY <3>2, <3>4 DEF Changed
      <4> HIDE DEF e
      <4> QED BY <3>1, <4>1
    <3> QED BY <1>8, <3>3, <3>4
  <2>4. NestTypeOK'
    BY <1>1, <1>8, <2>3 DEF NestTypeOK
  <2> QED BY <1>2, <1>3, <1>5, <1>8, <2>4
<1>9. CASE ApplyOpen(h)
  <2>1. calls[h].item \in Item /\ calls[h].item.kind = "open" /\ calls[h].stage = "checked"
    BY <1>1, <1>9 DEF ApplyOpen, Applying, Shape
  <2>2. calls[h].item.table \in Tables
    BY <2>1, ItemFields
  <2>3. PICK c \in Clouds : /\ Return(h, TRUE, c) /\ Changed(calls[h].item, c)
                            /\ \/ UNCHANGED sess
                               \/ sess' = [sess EXCEPT ![c] =
                                     [table |-> calls[h].item.table, st |-> "open"]]
    BY <1>9 DEF ApplyOpen, ActiveAt
  <2>4. sess' \in [Clouds -> Session \cup {NoSession}]
    BY <1>1, <2>2, <2>3 DEF NestTypeOK, Session
  <2> QED BY <1>8, <1>9, <2>1, <2>3, <2>4 DEF ApplyOpen
<1>10. CASE ApplyOrder(h)
  <2>1. /\ calls[h].item.ref \in Clouds /\ calls[h].stage = "checked"
        /\ sess' \in [Clouds -> Session \cup {NoSession}]
    BY <1>1, <1>10 DEF ApplyOrder, Applying, Exists, NestTypeOK
  <2> QED BY <1>8, <1>10, <2>1 DEF ApplyOrder
<1>11. CASE ApplyPayment(h)
  <2>1. /\ calls[h].item.ref \in Clouds /\ calls[h].stage = "checked"
        /\ sess[calls[h].item.ref].st # "none"
    BY <1>11 DEF ApplyPayment, Applying, Exists
  <2>2. PICK st \in {"open", "paid"} : sess' = [sess EXCEPT ![calls[h].item.ref].st = st]
    BY <1>11 DEF ApplyPayment
  <2>3. sess' \in [Clouds -> Session \cup {NoSession}]
    BY <1>1, <2>1, <2>2 DEF NestTypeOK, Session, NoSession
  <2> QED BY <1>8, <1>11, <2>1, <2>3 DEF ApplyPayment
<1>12. CASE ApplyFire(h)
  <2>1. /\ calls[h].stage = "checked"
        /\ sess' \in [Clouds -> Session \cup {NoSession}]
        /\ effects' = effects \/ \E c \in Clouds : Changed(calls[h].item, c)
    BY <1>1, <1>12 DEF ApplyFire, Applying, Exists, NestTypeOK
  <2> QED BY <1>8, <1>12, <2>1 DEF ApplyFire
<1>13. CASE ApplyMove(h)
  <2>1. /\ calls[h].item.ref \in Clouds /\ calls[h].stage = "checked"
        /\ sess[calls[h].item.ref].st # "none" /\ calls[h].item.kind = "move"
    BY <1>13 DEF ApplyMove, Applying, Exists
  <2>2. calls[h].item.table \in Tables
    BY <1>1, <2>1, ItemFields DEF Shape
  <2>3. sess' = [sess EXCEPT ![calls[h].item.ref].table = calls[h].item.table]
    BY <1>13 DEF ApplyMove
  <2>4. sess' \in [Clouds -> Session \cup {NoSession}]
    BY <1>1, <2>1, <2>2, <2>3 DEF NestTypeOK, Session, NoSession
  <2> QED BY <1>8, <1>13, <2>1, <2>4 DEF ApplyMove
<1>14. CASE ApplyRelease(h)
  <2>1. /\ calls[h].item.ref \in Clouds /\ calls[h].stage = "checked"
        /\ sess[calls[h].item.ref].st # "none"
    BY <1>14 DEF ApplyRelease, Applying, Exists
  <2>2. sess' = [sess EXCEPT ![calls[h].item.ref].st = "closed"]
    BY <1>14 DEF ApplyRelease
  <2>3. sess' \in [Clouds -> Session \cup {NoSession}]
    BY <1>1, <2>1, <2>2 DEF NestTypeOK, Session, NoSession
  <2> QED BY <1>8, <1>14, <2>1, <2>3 DEF ApplyRelease
<1>15. CASE ApplyRefused(h)
  <2>1. /\ UNCHANGED <<nestVars, conn, reply, faults>> /\ calls[h].stage = "checked"
        /\ Return(h, FALSE, None)
    BY <1>15 DEF ApplyRefused
  <2> QED BY <1>2, <1>3, <1>4, <1>5, <2>1
<1>16. CASE InsertKey(h)
  <2>1. /\ calls[h].stage = "applied"
        /\ log' = log \cup {[key |-> Key(calls[h].item), sid |-> calls[h].sid]}
        /\ UNCHANGED <<sess, register, effects, conn, reply, faults>>
    BY <1>16 DEF InsertKey
  <2>2. PICK status \in Statuses : Finish(h, status, calls[h].sid)
    BY <1>5, <1>16 DEF InsertKey
  <2>3. Key(calls[h].item) \in Keys /\ calls[h].sid \in Clouds \cup {None}
    BY <1>1, <2>1, KeyType DEF Shape, Call
  <2>4. NestTypeOK'
    BY <1>1, <2>1, <2>3 DEF NestTypeOK
  <2> QED BY <1>2, <1>3, <2>1, <2>2, <2>3, <2>4
<1>17. CASE InsertDuplicate(h)
  <2>1. /\ Finish(h, "duplicate", None) /\ calls[h].stage = "applied"
        /\ UNCHANGED <<nestVars, conn, reply, faults>>
    BY <1>17 DEF InsertDuplicate, LateResult
  <2> QED BY <1>2, <1>3, <1>4, <1>5, <2>1
<1>18. CASE InsertFails(h)
  <2>1. faults' \in 0 .. MaxFaults
    BY <1>3, <1>18, FaultType DEF InsertFails
  <2>2. /\ calls[h].stage = "applied" /\ UNCHANGED <<nestVars, conn, reply>>
        /\ Finish(h, "rejected", None)
    BY <1>18 DEF InsertFails
  <2> QED BY <1>2, <1>4, <1>5, <2>1, <2>2
<1>19. CASE Answer(h)
  <2>1. /\ calls' = [calls EXCEPT ![h] = IdleCall]
        /\ UNCHANGED <<nestVars, conn, faults>>
        /\ reply' = IF conn = h
                    THEN [status |-> calls[h].status, sid |-> calls[h].sid] ELSE reply
        /\ calls[h].stage = "done"
    BY <1>19 DEF Answer
  <2>2. IdleCall \in Call /\ IdleCall.stage = "idle"
    BY DEF IdleCall, Call, Stages
  <2>3. [status |-> calls[h].status, sid |-> calls[h].sid] \in Reply
    BY <1>1, <2>1 DEF Shape, Call, Reply
  <2>4. ChannelTypeOK'
    BY <1>1, <2>1, <2>2, <2>3 DEF ChannelTypeOK
  <2>5. Continued(h)
    BY <1>1, <2>1, <2>2 DEF ChannelTypeOK, Continued
  <2>6. \A g \in Handlers : Continued(g)
    BY <2>1, <2>2, <2>5, OneRequest
  <2> QED BY <1>4, <2>1, <2>4, <2>6, NestFrame
<1> QED BY <1>6, <1>7, <1>9, <1>10, <1>11, <1>12, <1>13, <1>14, <1>15, <1>16, <1>17,
           <1>18, <1>19 DEF Ingest

\* A failed lookup, a crash of Nest, and the till.
LEMMA NestOutsideInv ==
    ASSUME Inv, NestFaults \/ CloseRegister \/ OpenRegister, UNCHANGED hubVars
    PROVE  Inv'
<1>1. NestTypeOK /\ ChannelTypeOK /\ Shape
  BY DEF Inv, TypeOK
<1>2. UNCHANGED nestVars => NestTypeOK'
  BY <1>1 DEF NestTypeOK, nestVars
<1>3. UNCHANGED calls => \A h \in Handlers : Continued(h)
  BY <1>1 DEF Shape, Continued
<1>4. CASE NestCrash
  <2>1. /\ calls' = [h \in Handlers |-> IdleCall]
        /\ reply' \in {[status |-> "reset", sid |-> None], reply}
        /\ Fault("nestcrash") /\ UNCHANGED <<nestVars, conn>>
    BY <1>4 DEF NestCrash
  <2>2. IdleCall \in Call /\ IdleCall.stage = "idle"
    BY DEF IdleCall, Call, Stages
  <2>3. ChannelTypeOK'
    BY <1>1, <2>1, <2>2, FaultType DEF ChannelTypeOK, Reply, Statuses
  <2>4. \A h \in Handlers : Continued(h)
    BY <2>1, <2>2 DEF Continued
  <2> QED BY <1>2, <2>1, <2>3, <2>4, NestFrame
<1>5. ASSUME NEW h \in Handlers, LookupError(h) PROVE Inv'
  <2>1. /\ calls[h].stage = "received" /\ Proceed(h) /\ Fault("dberror")
        /\ UNCHANGED <<nestVars, conn, reply>>
    BY <1>5 DEF LookupError
  <2>2. None \in Clouds \cup {None} /\ TRUE \in BOOLEAN /\ "applied" \in Statuses
    BY DEF Statuses
  <2>3. calls' \in [Handlers -> Call] /\ \A g \in Handlers : Continued(g)
    BY <2>1, <2>2, RequestGoesOn
  <2>4. ChannelTypeOK'
    BY <1>1, <2>1, <2>3, FaultType DEF ChannelTypeOK
  <2> QED BY <1>2, <2>1, <2>3, <2>4, NestFrame
<1>6. CASE CloseRegister
  <2>1. /\ register' = FALSE /\ Fault("register")
        /\ UNCHANGED <<sess, log, effects, calls, conn, reply>>
    BY <1>6 DEF CloseRegister
  <2>2. NestTypeOK' /\ ChannelTypeOK'
    BY <1>1, <2>1, FaultType DEF NestTypeOK, ChannelTypeOK
  <2> QED BY <1>3, <2>1, <2>2, NestFrame
<1>7. CASE OpenRegister
  <2>1. register' = TRUE /\ UNCHANGED <<sess, log, effects, channelVars>>
    BY <1>7 DEF OpenRegister
  <2>2. NestTypeOK' /\ ChannelTypeOK' /\ UNCHANGED calls
    BY <1>1, <2>1 DEF NestTypeOK, ChannelTypeOK, channelVars
  <2> QED BY <1>3, <2>2, NestFrame
<1> QED BY <1>4, <1>5, <1>6, <1>7 DEF NestFaults

\* A fresh floor from the cloud.
LEMMA PullBootstrapInv == Inv /\ PullBootstrap => Inv'
<1> SUFFICES ASSUME Inv, PullBootstrap
             PROVE  Inv'
  OBVIOUS
<1>1. HubTypeOK /\ NestTypeOK /\ ChannelTypeOK /\ Shape /\ OrderInv
  BY DEF Inv, TypeOK
<1>2. /\ floor' = {<<c, sess[c].table>> : c \in {d \in Clouds : IsActive(d)}}
      /\ Fault("pull")
      /\ UNCHANGED <<items, flush, idMap, asked, acked, nestVars, calls, conn, reply>>
  BY DEF PullBootstrap
<1>3. \A c \in Clouds : IsActive(c) => sess[c].table \in Tables
  BY <1>1 DEF NestTypeOK, IsActive, Session, NoSession
<1>4. HubTypeOK'
  BY <1>1, <1>2, <1>3 DEF HubTypeOK, Refs
<1>5. NestTypeOK' /\ ChannelTypeOK' /\ Shape'
  BY <1>1, <1>2, FaultType DEF NestTypeOK, ChannelTypeOK, Shape, nestVars
<1>6. OrderInv'
  BY <1>1, <1>2 DEF OrderInv, QueueInOrder, AllNumbered, Increasing, Numbered, Before
<1> QED BY <1>4, <1>5, <1>6 DEF Inv, TypeOK

-----------------------------------------------------------------------------
(* The theorems *)

\* No step of hub, Nest or the outside leaves the invariant.
LEMMA StepInv == Inv /\ [Next]_vars => Inv'
<1> SUFFICES ASSUME Inv, [Next]_vars
             PROVE  Inv'
  OBVIOUS
<1>1. CASE HubStep
  BY <1>1, EnqueuingInv, FlushInv, HubFaultsInv DEF HubStep
<1>2. CASE NestStep
  BY <1>2, IngestInv, NestOutsideInv DEF NestStep
<1>3. CASE PullBootstrap
  BY <1>3, PullBootstrapInv
<1>4. CASE UNCHANGED vars
  <2>1. UNCHANGED hubVars /\ UNCHANGED nestVars /\ UNCHANGED channelVars
    BY <1>4 DEF vars
  <2>2. NestTypeOK' /\ ChannelTypeOK' /\ UNCHANGED calls
    BY <2>1 DEF Inv, TypeOK, NestTypeOK, ChannelTypeOK, nestVars, channelVars
  <2>3. \A h \in Handlers : Continued(h)
    BY <2>2 DEF Inv, Shape, Continued
  <2> QED BY <2>1, <2>2, <2>3, NestFrame
<1> QED BY <1>1, <1>2, <1>3, <1>4 DEF Next

\* The inductive invariant holds throughout: types, the shape of a running
\* flush and of the requests, and the order of the queue (flushIfPossible,
\* ingest).
THEOREM Invariance == Spec => []Inv
BY InitInv, StepInv, PTL DEF Spec

\* Every variable of the hub, of Nest and of the channel keeps its type,
\* whatever is enqueued, sent, answered, lost or restarted.
THEOREM TypeCorrect == Spec => []TypeOK
<1>1. Inv => TypeOK
  BY DEF Inv
<1> QED BY <1>1, Invariance, PTL

\* The queue of the hub, and what a running flush has kept and has still to
\* send, stay in the order in which the waiters acted, with no entry twice:
\* flushIfPossible may keep, skip, stop, be cut off or overwrite, it never
\* reorders.
THEOREM QueueOrder == Spec => []QueueInOrder
<1>1. Inv => QueueInOrder
  BY DEF Inv, OrderInv
<1> QED BY <1>1, Invariance, PTL
=============================================================================
