---------------------------- MODULE OutboxPromise ---------------------------
(***************************************************************************)
(* What an outbox promises, without queue, network or database: requests   *)
(* are asked for one after the other and carried out in that order, each   *)
(* exactly once.                                                           *)
(***************************************************************************)
EXTENDS Naturals, Sequences

VARIABLES
    asked,      \* the requests, in the order in which they were made
    carried     \* the positions of those that were carried out, in order

promiseVars == <<asked, carried>>

Init == asked = <<>> /\ carried = <<>>

\* A waiter does something.
Ask ==
    /\ Len(asked') = Len(asked) + 1
    /\ SubSeq(asked', 1, Len(asked)) = asked
    /\ UNCHANGED carried

\* The oldest request that is not yet carried out is carried out.
Carry ==
    /\ Len(carried) < Len(asked)
    /\ carried' = Append(carried, Len(carried) + 1)
    /\ UNCHANGED asked

Next == Ask \/ Carry

Spec == Init /\ [][Next]_promiseVars

FairSpec == Spec /\ WF_promiseVars(Carry)
=============================================================================
