--------------------------- MODULE MCSumaStorage ---------------------------
(* A small instance of SumaStorage: an area of two units.                 *)
EXTENDS SumaStorage

CONSTANTS u1, u2
=============================================================================
