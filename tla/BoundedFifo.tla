---------------------------- MODULE BoundedFifo ----------------------------
(***************************************************************************)
(* What a bounded first-in first-out buffer promises: items leave in the    *)
(* order they entered, at most Capacity wait, and a full buffer makes room  *)
(* by dropping its oldest item.  It may be emptied at any time.             *)
(***************************************************************************)
EXTENDS Naturals, Sequences

CONSTANTS Item, Capacity

VARIABLE queue

Init == queue = <<>>

Put(i) ==
    /\ Len(queue) < Capacity
    /\ queue' = Append(queue, i)

(* At the limit a newcomer displaces the oldest.                           *)
Displace(i) ==
    /\ Len(queue) = Capacity
    /\ queue' = Append(Tail(queue), i)

Take ==
    /\ queue # <<>>
    /\ queue' = Tail(queue)

Clear == queue' = <<>>

Next == (\E i \in Item : Put(i) \/ Displace(i)) \/ Take \/ Clear

Spec == Init /\ [][Next]_queue
=============================================================================
