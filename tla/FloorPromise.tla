---------------------------- MODULE FloorPromise ----------------------------
(***************************************************************************)
(* What the floor promises a guest: one party at a table, nothing is paid  *)
(* for that was not ordered or twice, a bill is settled only when all of   *)
(* it is paid, a settled party only leaves, and a refund gives back what   *)
(* was paid with that payment.  All steps are atomic here.                 *)
(***************************************************************************)
EXTENDS Naturals

CONSTANTS Sessions, Tables, Lines, Payments, None, MaxQty

VARIABLES
    party,      \* Sessions -> the table and the phase of the party
    of,         \* Lines -> the session that ordered it, or None
    owed,       \* Lines -> the quantity still to be paid
    part        \* Payments -> the quantity of every line paid with it

Nothing == [l \in Lines |-> 0]
Seated(s) == party[s].phase = "seated"
Here(s) == party[s].phase \in {"seated", "settled"}
Free(t) == \A s \in Sessions : Here(s) => party[s].table # t

Init ==
    /\ party = [s \in Sessions |-> [table |-> None, phase |-> "none"]]
    /\ of = [l \in Lines |-> None]
    /\ owed = Nothing
    /\ part = [p \in Payments |-> Nothing]

Seat(s, t) ==
    /\ party[s].phase = "none" /\ Free(t)
    /\ party' = [party EXCEPT ![s] = [table |-> t, phase |-> "seated"]]
    /\ UNCHANGED <<of, owed, part>>

Change(s, t) ==
    /\ Here(s) /\ Free(t)
    /\ party' = [party EXCEPT ![s].table = t]
    /\ UNCHANGED <<of, owed, part>>

OrderLine(s, l, q) ==
    /\ Seated(s) /\ of[l] = None
    /\ of' = [of EXCEPT ![l] = s]
    /\ owed' = [owed EXCEPT ![l] = q]
    /\ UNCHANGED <<party, part>>

Pay(s, p, a) ==
    /\ Seated(s)
    /\ part[p] = Nothing /\ a # Nothing
    /\ \A l \in Lines : a[l] <= owed[l] /\ (a[l] > 0 => of[l] = s)
    /\ owed' = [l \in Lines |-> owed[l] - a[l]]
    /\ part' = [part EXCEPT ![p] = a]
    /\ UNCHANGED <<party, of>>

Settle(s) ==
    /\ Seated(s)
    /\ \A l \in Lines : of[l] = s => owed[l] = 0
    /\ party' = [party EXCEPT ![s].phase = "settled"]
    /\ UNCHANGED <<of, owed, part>>

Leave(s) ==
    /\ Here(s)
    /\ party' = [party EXCEPT ![s].phase = "gone"]
    /\ UNCHANGED <<of, owed, part>>

Refund(p) ==
    /\ owed' = [l \in Lines |-> owed[l] + part[p][l]]
    /\ part' = [part EXCEPT ![p] = Nothing]
    /\ UNCHANGED <<party, of>>

Return(s) ==
    /\ party[s].phase = "gone" /\ Free(party[s].table)
    /\ party' = [party EXCEPT ![s].phase = "seated"]
    /\ UNCHANGED <<of, owed, part>>

Next ==
    \/ \E s \in Sessions, t \in Tables : Seat(s, t) \/ Change(s, t)
    \/ \E s \in Sessions, l \in Lines, q \in 1 .. MaxQty : OrderLine(s, l, q)
    \/ \E s \in Sessions, p \in Payments, a \in [Lines -> 0 .. MaxQty] : Pay(s, p, a)
    \/ \E s \in Sessions : Settle(s) \/ Leave(s) \/ Return(s)
    \/ \E p \in Payments : Refund(p)

Spec == Init /\ [][Next]_<<party, of, owed, part>>
=============================================================================
