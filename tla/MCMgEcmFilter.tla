--------------------------- MODULE MCMgEcmFilter ---------------------------
(***************************************************************************)
(* A small instance of MgEcmFilter: a filter that the kernel asks to match  *)
(* either parity or one of them, and messages that stops and starts can     *)
(* use up.                                                                  *)
(***************************************************************************)
EXTENDS MgEcmFilter, TLC

AnyPattern == {{0}, {1}, Parity}
=============================================================================
