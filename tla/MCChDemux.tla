----------------------------- MODULE MCChDemux -----------------------------
(* ChDemux on two slots, two filters, two PIDs and two driver objects of    *)
(* each kind, interchangeable within their kind.                            *)
EXTENDS ChDemux, TLC

CONSTANTS h1, h2, b1, b2, f1, f2, p1, p2

MCSlotObject   == {h1, h2}
MCBufferObject == {b1, b2}
MCFilterObject == {f1, f2}
MCPid          == {p1, p2}

DriverSymmetry == Permutations(MCSlotObject) \cup Permutations(MCBufferObject)
                    \cup Permutations(MCFilterObject) \cup Permutations(MCPid)
=============================================================================
