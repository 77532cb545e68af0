---------------------------- MODULE TokenBucket ----------------------------
(***************************************************************************)
(* What the limiter of the tools promises: one limit, set once; at most so *)
(* many calls inside at any time; and they go in in the order in which     *)
(* they asked.                                                             *)
(***************************************************************************)
EXTENDS Integers, Sequences, FiniteSets

CONSTANTS Calls, Limits

VARIABLES
    limit,      \* 0 as long as there is none
    waiting,    \* the calls that asked, in order
    inside

Init == limit = 0 /\ waiting = <<>> /\ inside = {}

SetLimit ==
    /\ limit = 0
    /\ limit' \in Limits
    /\ UNCHANGED <<waiting, inside>>

Ask(c) ==
    /\ waiting' = Append(waiting, c)
    /\ UNCHANGED <<limit, inside>>

Enter ==
    /\ waiting # <<>>
    /\ Cardinality(inside) < limit
    /\ inside' = inside \cup {Head(waiting)}
    /\ waiting' = Tail(waiting)
    /\ UNCHANGED limit

Leave(c) ==
    /\ inside' = inside \ {c}
    /\ UNCHANGED <<limit, waiting>>

Next == SetLimit \/ Enter \/ \E c \in Calls : Ask(c) \/ Leave(c)

Spec == Init /\ [][Next]_<<limit, waiting, inside>>
=============================================================================
