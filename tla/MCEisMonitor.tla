---------------------------- MODULE MCEisMonitor ----------------------------
(* EisMonitor on two slots, two filters and one PID, one section waiting.   *)
EXTENDS EisMonitor, TLC

CONSTANTS h1, h2, b1, b2, f1, f2, p1, cat

MCSlotObject   == {h1, h2}
MCBufferObject == {b1, b2}
MCFilterObject == {f1, f2}
MCPid          == {p1}

DriverSymmetry == Permutations(MCSlotObject) \cup Permutations(MCBufferObject)
                    \cup Permutations(MCFilterObject)
=============================================================================
