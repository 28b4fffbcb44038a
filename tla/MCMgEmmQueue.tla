---------------------------- MODULE MCMgEmmQueue ----------------------------
(***************************************************************************)
(* Small instances of MgEmmQueue: a ring for two sections, and few enough   *)
(* messages that a send can fail after resets.  The filters being alike,    *)
(* the first section may as well match f1.                                  *)
(***************************************************************************)
EXTENDS MgEmmQueue

CONSTANTS f1, f2

Plain(F)    == F \X {FALSE}
TwoFilters  == <<Plain({f1}), Plain({f1, f2}), {f2} \X BOOLEAN, Plain({f1})>>
AnyFlags    == <<{f1} \X BOOLEAN, {f1} \X BOOLEAN>>
=============================================================================
