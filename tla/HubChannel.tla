----------------------------- MODULE HubChannel -----------------------------
(***************************************************************************)
(* What the iPad hub and the Nest service of apps/pos-api share: the       *)
(* identifiers they exchange, the queue entry that travels as one event,   *)
(* its idempotency key, and the HTTP calls in flight between them.         *)
(***************************************************************************)
EXTENDS Naturals, Sequences

CONSTANTS
    Locals,     \* session ids made up by the hub (UUIDs of offline opens)
    Clouds,     \* session ids of the cloud database
    Tables,     \* dining tables
    Handlers,   \* Nest requests that can run at the same time (bound)
    None,       \* "no value"
    Allowed,    \* the faults and outside steps this instance lets happen
    MaxFaults   \* how many of them may happen in a behaviour (bound)

Conditions == {"midflush", "timeout", "httperror", "hubcrash", "nestcrash",
               "dberror", "register", "pull", "return"}

ASSUME AllowedAssumption == Allowed \subseteq Conditions
ASSUME MaxFaultsAssumption == MaxFaults \in Nat
ASSUME IdsAssumption ==
    /\ Locals \cap Clouds = {}
    /\ None \notin Locals \cup Clouds \cup Tables \cup Handlers

Refs == Locals \cup Clouds
Kinds == {"open", "order", "pay", "fire", "move", "release"}

\* PosSyncQueueItem with its decoded payload; id is the place in which the
\* entry was enqueued, which stands for its UUID.
\* Opens and moves name a table.
Item ==
    [id: Nat, kind: {"open", "move"}, ref: Refs, table: Tables]
    \cup [id: Nat, kind: {"order", "pay", "fire", "release"}, ref: Refs, table: {None}]
NoItem == [id |-> 0, kind |-> "none", ref |-> None, table |-> None]

\* Mutant: an order is known by its session, not by its localOrderId.
KeyPerSession(i) ==
    [op    |-> i.kind,
     ref   |-> IF i.kind = "pay" THEN None ELSE i.ref,
     table |-> IF i.kind = "move" THEN i.table ELSE None,
     n     |-> IF i.kind \in {"pay", "fire"} THEN i.id ELSE 0]

\* The idempotency key of an entry, as processViaNest builds it: an open is
\* known by its local session, an order by its localOrderId, a payment by its
\* item, a fire by session and attempt, a move by session and TARGET only, a
\* release by its session.
Key(i) ==
    [op    |-> i.kind,
     ref   |-> IF i.kind \in {"order", "pay"} THEN None ELSE i.ref,
     table |-> IF i.kind = "move" THEN i.table ELSE None,
     n     |-> IF i.kind \in {"order", "pay", "fire"} THEN i.id ELSE 0]

Keys == [op: Kinds, ref: Refs \cup {None}, table: Tables \cup {None}, n: Nat]

Statuses == {"applied", "duplicate", "rejected", "reset"}
Reply == [status: Statuses, sid: Clouds \cup {None}]
NoReply == [status |-> "none", sid |-> None]

\* One request inside Nest: the event, how far ingest has come with it, what
\* applyEvent returned, and the status that will be answered.
Stages == {"idle", "received", "checked", "applied", "done"}
Call == [stage: Stages, item: Item \cup {NoItem}, ok: BOOLEAN,
         sid: Clouds \cup {None}, status: Statuses \cup {"none"}]
IdleCall == [stage |-> "idle", item |-> NoItem, ok |-> FALSE,
             sid |-> None, status |-> "none"]

VARIABLES
    calls,      \* Handlers -> Call, the requests Nest is working on
    conn,       \* the request the hub is waiting for, or None
    reply,      \* the answer that has reached the hub, or NoReply
    faults      \* how many faults have happened

channelVars == <<calls, conn, reply, faults>>

Fault(f) ==
    /\ f \in Allowed
    /\ faults < MaxFaults
    /\ faults' = faults + 1

ChannelTypeOK ==
    /\ calls \in [Handlers -> Call]
    /\ conn \in Handlers \cup {None}
    /\ reply \in Reply \cup {NoReply}
    /\ faults \in 0 .. MaxFaults

ChannelInit ==
    /\ calls = [h \in Handlers |-> IdleCall]
    /\ conn = None
    /\ reply = NoReply
    /\ faults = 0
=============================================================================
