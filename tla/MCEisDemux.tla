----------------------------- MODULE MCEisDemux -----------------------------
(* EisDemux on two slots, two filters, two driver objects of each kind, one *)
(* ordinary PID and the CAT.                                               *)
EXTENDS EisDemux, TLC

CONSTANTS h1, h2, b1, b2, f1, f2, p1, cat

MCSlotObject   == {h1, h2}
MCBufferObject == {b1, b2}
MCFilterObject == {f1, f2}
MCPid          == {p1, cat}

DriverSymmetry == Permutations(MCSlotObject) \cup Permutations(MCBufferObject)
                    \cup Permutations(MCFilterObject)
=============================================================================
