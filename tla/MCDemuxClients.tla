--------------------------- MODULE MCDemuxClients ---------------------------
(* DemuxClients on two slots and two filters: the browser has a PID of its  *)
(* own, the kernel one and the CAT.                                        *)
EXTENDS DemuxClients, TLC

CONSTANTS h1, h2, b1, b2, f1, f2, p1, p2, cat

MCSlotObject   == {h1, h2}
MCBufferObject == {b1, b2}
MCFilterObject == {f1, f2}
MCPid          == {p1, p2, cat}
MCBrowserPid   == {p1}
MCCaPid        == {p2, cat}

DriverSymmetry == Permutations(MCSlotObject) \cup Permutations(MCBufferObject)
                    \cup Permutations(MCFilterObject)
=============================================================================
