----------------------------- MODULE MgDmxFilter -----------------------------
(***************************************************************************)
(* The conditional-access client of the section tables: the MGDDISrc        *)
(* filter operations of src/chsrc/MgDDI/MgSSourceDrv.c and the functions of *)
(* ChCABase/ChDmux.c under them, over the tables of ChDemux.                *)
(*                                                                          *)
(* The kernel calls one operation at a time (CHCA_SectionDataAccess_Lock),  *)
(* with the filters it holds, in any order.  The lock of the tables is free *)
(* between two CH6_ calls of an operation, so each call is an action and    *)
(* `ddi' says where the operation is.  Refusals that change nothing         *)
(* (MGDDIBusy, MGDDIBadParam, a filter without a slot) are not actions.     *)
(*                                                                          *)
(* Under the same lock the CA base works on the kernel's filters by itself: *)
(* it takes the ECM filters out of use when a programme is left, reports a  *)
(* timeout, and re-programs the filter of a section it has handled.         *)
(***************************************************************************)
EXTENDS ChDemux

CONSTANTS CaPid,             \* the PIDs the kernel filters on
          AssociationFails,  \* the driver may refuse the kernel's association
          SetsAgain          \* the kernel may set a dropped filter again

ASSUME MgDmxFilterAssumption == /\ CaPid \subseteq Pid
                                /\ AssociationFails \in BOOLEAN
                                /\ SetsAgain \in BOOLEAN

VARIABLES FDmxFlterInfo,     \* one row per filter
          ddi,               \* the operation in progress
          held               \* the filters the kernel was given

mgVars == <<FDmxFlterInfo, ddi, held>>

(* `defined' is a history: associated since it was allocated.               *)
FreshInfo == [SlotId |-> None, FilterPID |-> NoPid, InUsed |-> FALSE,
              bdmxactived |-> FALSE, defined |-> FALSE]

(* StopAllEcmFilter has cleared InUsed; the association is still there.     *)
Dropped(row) == row.defined /\ ~ row.InUsed

NoOperation == [at |-> "idle", fl |-> None, count |-> 0]

MgInit == /\ FDmxFlterInfo = [f \in Filters |-> FreshInfo]
          /\ ddi = NoOperation
          /\ held = {}

Doing(place)       == ddi.at = place
Begin(place, f, n) == ddi' = [at |-> place, fl |-> f, count |-> n]
Proceed(place)     == ddi' = [ddi EXCEPT !.at = place]
Done               == ddi' = NoOperation

Info == FDmxFlterInfo[ddi.fl]
Slot == Info.SlotId

SetInfo(row) == FDmxFlterInfo' = [FDmxFlterInfo EXCEPT ![ddi.fl] = row]

(* A filter the kernel names in an operation, between two operations.       *)
Named(f) == Doing("idle") /\ f \in held

(* CHCA_CheckMultiFilter and CHCA_StopDemuxFilter refuse a filter that has  *)
(* no slot.                                                                *)
Count(f) == CH6_Get_SlotAssociateFilter_Count(FDmxFlterInfo[f].SlotId)

-----------------------------------------------------------------------------
MGDDISrcAllocDmxFltr ==
    /\ Doing("idle")
    /\ \E f \in FilterArg :
          /\ CH6_Allocate_Section_Filter(f)
          /\ IF f = None
             THEN UNCHANGED <<FDmxFlterInfo, held>>
             ELSE /\ FDmxFlterInfo' = [FDmxFlterInfo EXCEPT ![f] = FreshInfo]
                  /\ held' = held \cup {f}
    /\ UNCHANGED ddi

(* Mutant: a filter that was defined and stopped may be defined again.      *)
Stopped(row)  == ~ row.bdmxactived
Settable(row) == ~ row.bdmxactived /\ ~ row.InUsed

(* Set: a row with the PID is shared, whoever put the PID there; otherwise  *)
(* a slot is allocated.  Nothing in the code keeps the kernel from setting  *)
(* a dropped filter.                                                       *)
set_find(f, v) ==
    /\ Named(f)
    /\ Settable(FDmxFlterInfo[f])
    /\ Dropped(FDmxFlterInfo[f]) => SetsAgain
    /\ \E s \in SlotArg :
          /\ CH6_FindSlotByPID(v, s)
          /\ FDmxFlterInfo' =
                [FDmxFlterInfo EXCEPT ![f].FilterPID = v,
                                      ![f].SlotId = IF s = None THEN @ ELSE s]
          /\ Begin(IF s = None THEN "allocate" ELSE "set", f, 0)
    /\ UNCHANGED <<demuxVars, held>>

set_allocate ==
    /\ Doing("allocate")
    /\ \E s \in SlotArg :
          /\ CH6_Allocate_Section_Slot(s)
          /\ IF s = None
             THEN Done /\ UNCHANGED FDmxFlterInfo
             ELSE SetInfo([Info EXCEPT !.SlotId = s]) /\ Proceed("set pid")
    /\ UNCHANGED held

(* Cannot fail: the slot's number is in range.                              *)
set_pid ==
    /\ Doing("set pid")
    /\ CH6_Set_Slot_Pid(Slot, Info.FilterPID, FALSE)
    /\ Proceed("set")
    /\ UNCHANGED <<FDmxFlterInfo, held>>

set_filter ==
    /\ Doing("set")
    /\ \E err \in BOOLEAN :
          /\ CH6_Set_Filter(ddi.fl, err)
          /\ IF err THEN Done ELSE Proceed("associate")
    /\ UNCHANGED <<FDmxFlterInfo, held>>

(* A failure leaves the slot to the filter, which is not in use.            *)
set_associate ==
    /\ Doing("associate")
    /\ \E err \in BOOLEAN :
          /\ err => AssociationFails \/ ~ BothUsable(Slot, ddi.fl)
          /\ CH6_Associate_Slot_Filter(Slot, ddi.fl, err)
          /\ SetInfo([Info EXCEPT !.InUsed = ~ err, !.defined = @ \/ ~ err])
    /\ Done
    /\ UNCHANGED held

(* Start: the slot's result is not looked at, and MGDDIOK is returned       *)
(* whatever happened.                                                      *)
start_slot(f) ==
    /\ Named(f)
    /\ ~ FDmxFlterInfo[f].bdmxactived
    /\ FDmxFlterInfo[f].SlotId # None
    /\ \E err \in BOOLEAN : CH6_Start_Slot(FDmxFlterInfo[f].SlotId, err)
    /\ Begin("start", f, 0)
    /\ UNCHANGED <<FDmxFlterInfo, held>>

start_filter ==
    /\ Doing("start")
    /\ \E err \in BOOLEAN :
          /\ CH6_Start_Filter(ddi.fl, err)
          /\ SetInfo([Info EXCEPT !.bdmxactived = @ \/ ~ err])
    /\ Done
    /\ UNCHANGED held

(* Stop: the slot is stopped only for its last filter.  InUsed stays.       *)
stop_count(f) ==
    /\ Named(f)
    /\ FDmxFlterInfo[f].SlotId # None
    /\ Begin("stop", f, Count(f))
    /\ UNCHANGED <<demuxVars, FDmxFlterInfo, held>>

(* Mutant: the slot is stopped whoever else is on it.                      *)
Always(n)     == TRUE
LastFilter(n) == n = 1

stop_filter ==
    /\ Doing("stop")
    /\ \E err \in BOOLEAN :
          /\ CH6_Stop_Filter(ddi.fl, err)
          /\ SetInfo([Info EXCEPT !.bdmxactived = @ /\ err])
          /\ IF ~ err /\ LastFilter(ddi.count) THEN Proceed("stop slot") ELSE Done
    /\ UNCHANGED held

stop_slot ==
    /\ Doing("stop slot")
    /\ \E err \in BOOLEAN : CH6_Stop_Slot(Slot, err)
    /\ Done
    /\ UNCHANGED <<FDmxFlterInfo, held>>

(* Free: the slot is freed with its last filter, by a count that was read   *)
(* before the filter was freed.                                            *)
free_count(f) ==
    /\ Named(f)
    /\ FDmxFlterInfo[f].SlotId # None
    /\ Begin("free", f, Count(f))
    /\ UNCHANGED <<demuxVars, FDmxFlterInfo, held>>

(* Mutant: the count is taken for the one after the filter was freed.       *)
SharedAfter(n) == n > 0
SharedSlot(n)  == n > 1

free_filter ==
    /\ Doing("free")
    /\ \E err \in BOOLEAN :
          /\ CH6_Free_Section_Filter(ddi.fl, err)
          /\ IF err
             THEN Done /\ UNCHANGED <<FDmxFlterInfo, held>>
             ELSE /\ SetInfo([Info EXCEPT !.InUsed = FALSE,
                                          !.defined = FALSE,
                                          !.bdmxactived = FALSE])
                  /\ held' = held \ {ddi.fl}
                  /\ IF SharedSlot(ddi.count) THEN Done ELSE Proceed("free slot")

free_slot ==
    /\ Doing("free slot")
    /\ \E err \in BOOLEAN :
          /\ CH6_Free_Section_Slot(Slot, err)
          /\ SetInfo(IF err THEN Info
                     ELSE [Info EXCEPT !.SlotId = None, !.FilterPID = NoPid])
    /\ Done
    /\ UNCHANGED held

ClearedRow(row) == [row EXCEPT !.InUsed = FALSE, !.bdmxactived = FALSE]

(* A programme is left: the rows of the ECM filters are cleared, and the    *)
(* filters stay allocated, associated and armed on their slots.  Which of   *)
(* the kernel's filters match ECM tables is left open.                      *)
StopAllEcmFilter ==
    /\ Doing("idle")
    /\ \E ecm \in SUBSET held :
          FDmxFlterInfo' = [f \in Filters |-> IF f \in ecm
                                              THEN ClearedRow(FDmxFlterInfo[f])
                                              ELSE FDmxFlterInfo[f]]
    /\ UNCHANGED <<demuxVars, ddi, held>>

(* The time a filter was started for is over: the row alone is stopped.     *)
CHCA_MgFilterDelayCheck(f) ==
    /\ Named(f)
    /\ FDmxFlterInfo[f].bdmxactived
    /\ FDmxFlterInfo' = [FDmxFlterInfo EXCEPT ![f].bdmxactived = FALSE]
    /\ UNCHANGED <<demuxVars, ddi, held>>

(* CHCA_ResetECMFilter and CHCA_ResetCATFilter stop a filter, re-program it *)
(* and start it, by the functions of the stop and the start above; here the *)
(* kernel may come in between, in the code it waits for the lock.           *)
reset_set(f) ==
    /\ Named(f)
    /\ \E err \in BOOLEAN : CH6_Set_Filter(f, err)
    /\ UNCHANGED mgVars

CaClient ==
    \/ MGDDISrcAllocDmxFltr
    \/ \E f \in Filters, v \in CaPid : set_find(f, v)
    \/ set_allocate \/ set_pid \/ set_filter \/ set_associate
    \/ \E f \in Filters : start_slot(f) \/ stop_count(f) \/ free_count(f)
    \/ start_filter \/ stop_filter \/ stop_slot
    \/ free_filter \/ free_slot
    \/ StopAllEcmFilter
    \/ \E f \in Filters : CHCA_MgFilterDelayCheck(f) \/ reset_set(f)

-----------------------------------------------------------------------------
InfoRow   == [SlotId : SlotArg, FilterPID : CaPid \cup {NoPid},
              InUsed : BOOLEAN, bdmxactived : BOOLEAN, defined : BOOLEAN]

Operation == [at : {"idle", "allocate", "set pid", "set", "associate", "start",
                    "stop", "stop slot", "free", "free slot"},
              fl : FilterArg,
              count : 0 .. CountMod - 1]

MgTypeOK ==
    /\ FDmxFlterInfo \in [Filters -> InfoRow]
    /\ ddi \in Operation
    /\ held \subseteq Filters

(* The slots the kernel's filters use, the one an operation is about to     *)
(* free among them.                                                        *)
CaSlots ==
    {FDmxFlterInfo[f].SlotId :
        f \in held \cup IF Doing("free slot") THEN {ddi.fl} ELSE {}} \ {None}
=============================================================================
