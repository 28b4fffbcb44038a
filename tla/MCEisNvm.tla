------------------------------ MODULE MCEisNvm ------------------------------
(* EisNvm with one region of two blocks, or with it and one of one block.  *)
EXTENDS EisNvm, TLC

CONSTANTS basic, appmgr, d1, d2

X(r, first, len) == [region |-> r, first |-> first, len |-> len]

OneRegion   == [r \in {appmgr} |-> 2]
Parts       == {X(appmgr, 0, 4), X(appmgr, 0, 3), X(appmgr, 2, 1)}
Cuts        == {X(appmgr, 0, 3)}

TwoRegions  == [r \in {basic, appmgr} |-> IF r = basic THEN 1 ELSE 2]
Mixed       == Parts \cup {X(basic, 0, 1)}
Wholes      == {X(appmgr, 0, 4), X(appmgr, 2, 1)}

DataSymmetry == Permutations({d1, d2})
=============================================================================
