----------------------------- MODULE HandlePool -----------------------------
(***************************************************************************)
(* What a table that owns driver objects promises: a row takes an object    *)
(* the driver has just allocated, and gives it back before it may hold      *)
(* another.  ChDemux implements it three times, for the slot, buffer and    *)
(* filter objects.                                                         *)
(***************************************************************************)
CONSTANTS Handle, Row, NoHandle

VARIABLES allocated,    \* the objects the driver considers allocated
          holds         \* the object each row names, or NoHandle

poolVars == <<allocated, holds>>

Init == /\ allocated = {}
        /\ holds = [r \in Row |-> NoHandle]

Take(r, h) == /\ holds[r] = NoHandle
              /\ h \in Handle \ allocated
              /\ allocated' = allocated \cup {h}
              /\ holds' = [holds EXCEPT ![r] = h]

Drop(r) == /\ holds[r] # NoHandle
           /\ allocated' = allocated \ {holds[r]}
           /\ holds' = [holds EXCEPT ![r] = NoHandle]

Next == \E r \in Row : Drop(r) \/ \E h \in Handle : Take(r, h)

Spec == Init /\ [][Next]_poolVars

TypeOK == /\ allocated \in SUBSET Handle
          /\ holds \in [Row -> Handle \cup {NoHandle}]

(* No object is lost (allocated but named by no row), none is named after   *)
(* it was given back, and no two rows name the same one.                    *)
Accounted == /\ \A h \in allocated : \E r \in Row : holds[r] = h
             /\ \A r \in Row : holds[r] # NoHandle => holds[r] \in allocated
             /\ \A r, q \in Row : holds[r] = holds[q] =>
                                     r = q \/ holds[r] = NoHandle
=============================================================================
