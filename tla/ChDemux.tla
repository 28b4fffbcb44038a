------------------------------ MODULE ChDemux ------------------------------
(***************************************************************************)
(* The section-demultiplexer tables of src/chsrc/chdemux/chdemux.c and      *)
(* src/chsrc/sectionbase/sectionbase.c.  SectionSlot and SectionFilter map   *)
(* the indexes the clients hold to the driver objects the code allocated.   *)
(*                                                                         *)
(* Each CH6_ function holds its semaphore from its first table access to    *)
(* its return, so it is one action.  The action's last parameter is the     *)
(* function's result: an index or None (-1) for the allocators, err (TRUE   *)
(* is failure, as in the code) for the others.  DemuxNext lets any client   *)
(* call any operation; client modules EXTEND this one and sequence calls.   *)
(***************************************************************************)
EXTENDS Integers, FiniteSets, Pti

CONSTANTS MaxSlot,      \* MAX_NO_SLOT (48)
          MaxFilter,    \* MAX_NO_FILTER_TOTAL (32)
          CountMod      \* values of the U8 FilterCount (256)

ASSUME ChDemuxAssumption ==
    /\ MaxSlot \in Nat \ {0}
    /\ MaxFilter \in Nat \ {0}
    /\ CountMod \in Nat \ {0}

VARIABLES SectionSlot, SectionFilter, pti

demuxVars == <<SectionSlot, SectionFilter, pti>>

Slots   == 0 .. MaxSlot - 1
Filters == 0 .. MaxFilter - 1
None    == -1

SlotRow == [SlotStatus   : {"FREE", "IN_USE"},
            SlotHandle   : SlotObject \cup {NoHandle},
            BufferHandle : BufferObject \cup {NoHandle},
            PidValue     : Pid \cup {NoPid},
            FilterCount  : 0 .. CountMod - 1]

FilterRow == [FilterStatus : {"FREE", "IN_USE", "DONE"},
              FilterHandle : FilterObject \cup {NoHandle},
              SlotHandle   : SlotObject \cup {NoHandle}]

FreeSlotRow   == [SlotStatus |-> "FREE", SlotHandle |-> NoHandle,
                  BufferHandle |-> NoHandle, PidValue |-> NoPid,
                  FilterCount |-> 0]

FreeFilterRow == [FilterStatus |-> "FREE", FilterHandle |-> NoHandle,
                  SlotHandle |-> NoHandle]

(* CH6_SectionFilterInit *)
DemuxInit ==
    /\ SectionSlot   = [s \in Slots |-> FreeSlotRow]
    /\ SectionFilter = [f \in Filters |-> FreeFilterRow]
    /\ pti = PtiInit

SlotFree(s)   == SectionSlot[s].SlotStatus = "FREE"
FilterFree(f) == SectionFilter[f].FilterStatus = "FREE"

(* Index in range and row not FREE: what the early returns test.            *)
SlotTaken(s)   == s \in Slots /\ ~ SlotFree(s)
FilterTaken(f) == f \in Filters /\ ~ FilterFree(f)

(* What a scan from index 0 that stops at the first match returns.          *)
IsFirst(i, S) == i \in S /\ \A j \in S : i <= j

(* U8 arithmetic on FilterCount.  Mutant: the decrement of a wider integer.  *)
Succ8(n)   == (n + 1) % CountMod
PredInt(n) == n - 1
Pred8(n)   == (n + CountMod - 1) % CountMod

-----------------------------------------------------------------------------
(* Slots *)

Failed(err) == err = TRUE /\ UNCHANGED demuxVars

(* Mutant: any row will do.                                                *)
AnySlots  == Slots
FreeSlots == {s \in Slots : SlotFree(s)}

(* exit1 after the buffer was refused.  Mutant: it keeps the slot object.   *)
LeakedSlot(p, h)    == SlotAllocate(p, h)
AbandonedSlot(p, h) == SlotDeallocate(SlotAllocate(p, h), h)

(* No free row, or the driver refused one of the four calls and exit1 gave  *)
(* back what had been allocated.                                           *)
AllocateSlotFails ==
    /\ UNCHANGED <<SectionSlot, SectionFilter>>
    /\ \/ pti' = pti
       \/ /\ FreeSlots # {}
          /\ \E h \in SlotObject \ pti.slots :
                \/ pti' = AbandonedSlot(pti, h)
                \/ \E b \in BufferObject \ pti.buffers :
                      pti' = BufferDeallocate(
                               SlotDeallocate(
                                 BufferAllocate(SlotAllocate(pti, h), b),
                                 h), b)

AllocateSlotAt(s) ==
    /\ IsFirst(s, FreeSlots)
    /\ \E h \in SlotObject \ pti.slots, b \in BufferObject \ pti.buffers :
          /\ pti' = BufferAllocate(SlotAllocate(pti, h), b)
          /\ SectionSlot' = [SectionSlot EXCEPT ![s] =
                               [SlotStatus |-> "IN_USE", SlotHandle |-> h,
                                BufferHandle |-> b, PidValue |-> NoPid,
                                FilterCount |-> 0]]
    /\ UNCHANGED SectionFilter

CH6_Allocate_Section_Slot(ret) ==
    \/ ret = None /\ AllocateSlotFails
    \/ ret \in Slots /\ AllocateSlotAt(ret)

(* Guarded by the index only: the row may be FREE.                          *)
CH6_Set_Slot_Pid(s, v, err) ==
    \/ s \notin Slots /\ Failed(err)
    \/ /\ s \in Slots
       /\ err = FALSE
       /\ SectionSlot' = [SectionSlot EXCEPT ![s].PidValue = v]
       /\ UNCHANGED <<SectionFilter, pti>>

CH6_Free_Section_Slot(s, err) ==
    \/ ~ SlotTaken(s) /\ Failed(err)
    \/ /\ SlotTaken(s)
       /\ err = FALSE
       /\ pti' = SlotDeallocate(
                   BufferDeallocate(pti, SectionSlot[s].BufferHandle),
                   SectionSlot[s].SlotHandle)
       /\ SectionSlot' = [SectionSlot EXCEPT ![s] = FreeSlotRow]
       /\ UNCHANGED SectionFilter

(* The common guard of Start and Stop.  Their third test, PidValue against  *)
(* INVALID_VALUE, compares a U16 with -1 and is never true.                 *)
SlotUsable(s) ==
    /\ SlotTaken(s)
    /\ SectionSlot[s].SlotHandle # NoHandle
    /\ SectionSlot[s].BufferHandle # NoHandle

CH6_Start_Slot(s, err) ==
    \/ ~ SlotUsable(s) /\ Failed(err)
    \/ /\ SlotUsable(s)
       /\ LET row == SectionSlot[s] IN
            /\ err = ~ SetPidOk(pti, row.SlotHandle, row.PidValue)
            /\ pti' = SlotSetPid(pti, row.SlotHandle, row.PidValue)
       /\ UNCHANGED <<SectionSlot, SectionFilter>>

CH6_Stop_Slot(s, err) ==
    \/ ~ SlotUsable(s) /\ Failed(err)
    \/ /\ SlotUsable(s)
       /\ err = FALSE
       /\ pti' = SlotClearPid(pti, SectionSlot[s].SlotHandle)
       /\ UNCHANGED <<SectionSlot, SectionFilter>>

(* The row scans.  None of them looks at SlotStatus.                        *)
SlotsWithPid(v)    == {s \in Slots : SectionSlot[s].PidValue = v}
SlotsWithHandle(h) == {s \in Slots : SectionSlot[s].SlotHandle = h}

CH6_FindSlotByPID(v, ret) ==
    IF SlotsWithPid(v) = {} THEN ret = None ELSE IsFirst(ret, SlotsWithPid(v))

CH6_FindOtherSlotByPID(s, v, ret) ==
    LET others == SlotsWithPid(v) \ {s} IN
    IF others = {} THEN ret = None ELSE IsFirst(ret, others)

CH6_FindMatchSlot(h, ret) ==
    IF SlotsWithHandle(h) = {} THEN ret = None
                               ELSE IsFirst(ret, SlotsWithHandle(h))

CH6_Get_SlotAssociateFilter_Count(s) == SectionSlot[s].FilterCount

-----------------------------------------------------------------------------
(* Filters *)

AllocateFilterFails ==
    /\ UNCHANGED <<SectionSlot, SectionFilter>>
    /\ \/ pti' = pti
       \/ /\ \E f \in Filters : FilterFree(f)
          /\ \E h \in FilterObject \ pti.filters :
                pti' = FilterDeallocate(FilterAllocate(pti, h), h)

(* The row's SlotHandle is not written: it is what the last free left.      *)
AllocateFilterAt(f) ==
    /\ IsFirst(f, {g \in Filters : FilterFree(g)})
    /\ \E h \in FilterObject \ pti.filters :
          /\ pti' = FilterAllocate(pti, h)
          /\ SectionFilter' = [SectionFilter EXCEPT ![f] =
                                 [FilterStatus |-> "IN_USE",
                                  FilterHandle |-> h,
                                  SlotHandle |-> @.SlotHandle]]
    /\ UNCHANGED SectionSlot

CH6_Allocate_Section_Filter(ret) ==
    \/ ret = None /\ AllocateFilterFails
    \/ ret \in Filters /\ AllocateFilterAt(ret)

(* Mutant: the row forgets the filter but not the slot.                     *)
StaleRow(row) == [FreeFilterRow EXCEPT !.SlotHandle = row.SlotHandle]
ClearRow(row) == FreeFilterRow

(* The row found by the old SlotHandle loses one, unguarded.  A filter that *)
(* was never associated carries NoHandle, which the scan finds in the first *)
(* FREE slot row.                                                          *)
CH6_Free_Section_Filter(f, err) ==
    \/ ~ FilterTaken(f) /\ Failed(err)
    \/ /\ FilterTaken(f)
       /\ err = FALSE
       /\ LET fh == SectionFilter[f].FilterHandle
              sh == SectionFilter[f].SlotHandle
          IN /\ pti' = FilterDeallocate(FilterDisassociate(pti, fh, sh), fh)
             /\ SectionFilter' = [SectionFilter EXCEPT ![f] = ClearRow(@)]
             /\ \E s \in Slots \cup {None} :
                   /\ CH6_FindMatchSlot(sh, s)
                   /\ SectionSlot' =
                        IF s = None THEN SectionSlot
                        ELSE [SectionSlot EXCEPT ![s].FilterCount = Pred8(@)]

FilterUsable(f) == FilterTaken(f) /\ SectionFilter[f].FilterHandle # NoHandle

BothUsable(s, f) ==
    /\ FilterUsable(f)
    /\ SlotTaken(s) /\ SectionSlot[s].SlotHandle # NoHandle

(* What an association leaves in the filter's row.  Mutant: nothing.        *)
Forgetful(row, sh)  == row
RecordLink(row, sh) == [row EXCEPT !.SlotHandle = sh]

(* The driver may have no list or filter block left: then nothing is        *)
(* recorded.  On success the filter is left disarmed.  The failure of that   *)
(* disarming, whose return would leave a link that no row records, needs an *)
(* invalid handle.                                                         *)
CH6_Associate_Slot_Filter(s, f, err) ==
    \/ ~ BothUsable(s, f) /\ Failed(err)
    \/ BothUsable(s, f) /\ Failed(err)
    \/ /\ BothUsable(s, f)
       /\ err = FALSE
       /\ LET fh == SectionFilter[f].FilterHandle
              sh == SectionSlot[s].SlotHandle
          IN /\ pti' = FilterDisable(FilterAssociate(pti, fh, sh), fh)
             /\ SectionFilter' = [SectionFilter EXCEPT ![f] = RecordLink(@, sh)]
             /\ SectionSlot' = [SectionSlot EXCEPT ![s].FilterCount = Succ8(@)]

(* The filter row keeps its SlotHandle.                                     *)
CH6_DisAssociate_Slot_Filter(s, f, err) ==
    LET fh == SectionFilter[f].FilterHandle
        sh == SectionSlot[s].SlotHandle
    IN \/ ~ BothUsable(s, f) /\ Failed(err)
       \/ BothUsable(s, f) /\ ~ Linked(pti, fh, sh) /\ Failed(err)
       \/ /\ BothUsable(s, f)
          /\ Linked(pti, fh, sh)
          /\ err = FALSE
          /\ pti' = FilterDisassociate(pti, fh, sh)
          /\ SectionSlot' = [SectionSlot EXCEPT ![s].FilterCount =
                               IF @ > 0 THEN Pred8(@) ELSE @]
          /\ UNCHANGED SectionFilter

(* Sets the match pattern and arms the filter; the row is not written.      *)
CH6_Set_Filter(f, err) ==
    \/ ~ FilterUsable(f) /\ Failed(err)
    \/ /\ FilterUsable(f)
       /\ err = FALSE
       /\ pti' = FilterEnable(pti, SectionFilter[f].FilterHandle)
       /\ UNCHANGED <<SectionSlot, SectionFilter>>

CH6_Start_Filter(f, err) ==
    \/ ~ FilterUsable(f) /\ Failed(err)
    \/ /\ FilterUsable(f)
       /\ err = FALSE
       /\ pti' = FilterEnable(pti, SectionFilter[f].FilterHandle)
       /\ SectionFilter' = [SectionFilter EXCEPT ![f].FilterStatus = "IN_USE"]
       /\ UNCHANGED SectionSlot

(* Mutant: a stopped filter's row looks free.                              *)
FreedRow(row)   == [row EXCEPT !.FilterStatus = "FREE"]
StoppedRow(row) == [row EXCEPT !.FilterStatus = "DONE"]

CH6_Stop_Filter(f, err) ==
    \/ ~ FilterUsable(f) /\ Failed(err)
    \/ /\ FilterUsable(f)
       /\ err = FALSE
       /\ pti' = FilterDisable(pti, SectionFilter[f].FilterHandle)
       /\ SectionFilter' = [SectionFilter EXCEPT ![f] = StoppedRow(@)]
       /\ UNCHANGED SectionSlot

(* sectionbase.c's variants test the handle alone: CH6_ReenableFilter       *)
(* explicitly, CH6_StopFilter through the driver, which refuses it.         *)
HandleValid(f) == f \in Filters /\ SectionFilter[f].FilterHandle # NoHandle

CH6_ReenableFilter(f, err) ==
    \/ ~ HandleValid(f) /\ Failed(err)
    \/ /\ HandleValid(f)
       /\ err = FALSE
       /\ pti' = FilterEnable(pti, SectionFilter[f].FilterHandle)
       /\ SectionFilter' = [SectionFilter EXCEPT ![f].FilterStatus = "IN_USE"]
       /\ UNCHANGED SectionSlot

CH6_StopFilter(f, err) ==
    \/ ~ HandleValid(f) /\ Failed(err)
    \/ /\ HandleValid(f)
       /\ err = FALSE
       /\ pti' = FilterDisable(pti, SectionFilter[f].FilterHandle)
       /\ SectionFilter' = [SectionFilter EXCEPT ![f] = StoppedRow(@)]
       /\ UNCHANGED SectionSlot

-----------------------------------------------------------------------------
(* Any client, any operation.  What the clients promise, and the client     *)
(* modules are checked for: a filter is associated once, after its          *)
(* allocation.                                                             *)
NotYetAssociated(f) == f \in Filters => SectionFilter[f].SlotHandle = NoHandle

SlotArg   == Slots \cup {None}
FilterArg == Filters \cup {None}

SlotStep(s, err) ==
    \/ \E v \in Pid : CH6_Set_Slot_Pid(s, v, err)
    \/ CH6_Free_Section_Slot(s, err)
    \/ CH6_Start_Slot(s, err)
    \/ CH6_Stop_Slot(s, err)

FilterStep(f, err) ==
    \/ CH6_Free_Section_Filter(f, err)
    \/ CH6_Set_Filter(f, err)
    \/ CH6_Start_Filter(f, err)
    \/ CH6_Stop_Filter(f, err)
    \/ CH6_ReenableFilter(f, err)
    \/ CH6_StopFilter(f, err)

LinkStep(s, f, err) ==
    \/ NotYetAssociated(f) /\ CH6_Associate_Slot_Filter(s, f, err)
    \/ f \in Filters /\ s \in Slots /\ CH6_DisAssociate_Slot_Filter(s, f, err)

DemuxNext ==
    \/ \E ret \in SlotArg : CH6_Allocate_Section_Slot(ret)
    \/ \E ret \in FilterArg : CH6_Allocate_Section_Filter(ret)
    \/ \E s \in SlotArg, err \in BOOLEAN : SlotStep(s, err)
    \/ \E f \in FilterArg, err \in BOOLEAN : FilterStep(f, err)
    \/ \E s \in SlotArg, f \in FilterArg, err \in BOOLEAN : LinkStep(s, f, err)

DemuxSpec == DemuxInit /\ [][DemuxNext]_demuxVars

-----------------------------------------------------------------------------
DemuxTypeOK ==
    /\ SectionSlot \in [Slots -> SlotRow]
    /\ SectionFilter \in [Filters -> FilterRow]
    /\ pti \in PtiState

(* The three kinds of driver object, each owned through a column of a      *)
(* table.                                                                  *)
SlotPool == INSTANCE HandlePool WITH
    Handle <- SlotObject, Row <- Slots, allocated <- pti.slots,
    holds <- [s \in Slots |-> SectionSlot[s].SlotHandle]

BufferPool == INSTANCE HandlePool WITH
    Handle <- BufferObject, Row <- Slots, allocated <- pti.buffers,
    holds <- [s \in Slots |-> SectionSlot[s].BufferHandle]

FilterPool == INSTANCE HandlePool WITH
    Handle <- FilterObject, Row <- Filters, allocated <- pti.filters,
    holds <- [f \in Filters |-> SectionFilter[f].FilterHandle]

(* A row is FREE exactly when it names no object, so the guards that test   *)
(* the status and those that test the handle (sectionbase.c's and           *)
(* chdemux.c's) agree whatever the order of calls.                          *)
StatusMatchesHandle ==
    /\ \A s \in Slots :
          /\ SlotFree(s) <=> (SectionSlot[s].SlotHandle = NoHandle)
          /\ SlotFree(s) <=> (SectionSlot[s].BufferHandle = NoHandle)
    /\ \A f \in Filters : FilterFree(f) <=>
                            SectionFilter[f].FilterHandle = NoHandle

(* Every object the driver holds is named by exactly one row, across        *)
(* failed allocations and frees in any order.                               *)
HandlesAccounted ==
    SlotPool!Accounted /\ BufferPool!Accounted /\ FilterPool!Accounted

(* A section the hardware captures is attributed to the right slot: when    *)
(* the driver has filter fh on slot sh, the row of fh says sh.              *)
LinksRecorded ==
    \A l \in pti.links : \E f \in Filters :
        /\ SectionFilter[f].FilterHandle = l[1]
        /\ SectionFilter[f].SlotHandle = l[2]

(* The driver works only for objects some row still names: nothing a client *)
(* freed goes on collecting, matching or signalling.                        *)
NothingRunsUnowned ==
    /\ \A h \in SlotObject : pti.pid[h] # NoPid =>
          \E s \in Slots : ~ SlotFree(s) /\ SectionSlot[s].SlotHandle = h
    /\ \A h \in pti.enabled : \E f \in Filters :
          ~ FilterFree(f) /\ SectionFilter[f].FilterHandle = h
    /\ \A l \in pti.links : \E s \in Slots :
          ~ SlotFree(s) /\ SectionSlot[s].SlotHandle = l[2]

DemuxInv == /\ DemuxTypeOK
            /\ StatusMatchesHandle
            /\ HandlesAccounted
            /\ LinksRecorded
            /\ NothingRunsUnowned

(* The three tables as abstract pools: no object passes from one row to     *)
(* another without being given back to the driver in between.               *)
PoolsImplemented == SlotPool!Spec /\ BufferPool!Spec /\ FilterPool!Spec

(* sectionbase.h:73 calls FilterCount the "associate filter count", and     *)
(* CH6_Get_SlotAssociateFilter_Count (chdemux.c:393) returns it as the      *)
(* "filter count associating with specified slot".                          *)
CountIsAssociations ==
    \A s \in Slots : ~ SlotFree(s) =>
        SectionSlot[s].FilterCount =
          Cardinality({l \in pti.links : l[2] = SectionSlot[s].SlotHandle})
=============================================================================
