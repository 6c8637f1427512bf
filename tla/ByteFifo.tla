------------------------------ MODULE ByteFifo ------------------------------
(***************************************************************************)
(* What ring.hpp promises: a bounded first-in first-out pipe of bytes      *)
(* between one producer and one consumer.  A byte is its number since the  *)
(* pipe was last cleared, so a byte lost, repeated, reordered or read      *)
(* before it was written shows up as a wrong number.                       *)
(***************************************************************************)
EXTENDS Naturals, Sequences

CONSTANT Capacity

VARIABLES
    items,      \* the bytes put and not yet taken, oldest first
    next,       \* the number of the next byte to be put
    delivered   \* the last batch the consumer took

vars == <<items, next, delivered>>

Init ==
    /\ items = <<>>
    /\ next = 0
    /\ delivered = <<>>

Put(n) ==
    /\ Len(items) + n <= Capacity
    /\ items' = items \o [i \in 1..n |-> next + i - 1]
    /\ next' = next + n
    /\ UNCHANGED delivered

Take(n) ==
    /\ delivered' = SubSeq(items, 1, n)
    /\ items' = SubSeq(items, n + 1, Len(items))
    /\ UNCHANGED next

Clear ==
    /\ items' = <<>>
    /\ next' = 0
    /\ UNCHANGED delivered

Next ==
    \/ \E n \in 1..Capacity : Put(n)
    \/ \E n \in 1..Len(items) : Take(n)
    \/ Clear

Spec == Init /\ [][Next]_vars
=============================================================================
