----------------------------- MODULE EisMonitor -----------------------------
(***************************************************************************)
(* EisDemux with the hardware and the thread that delivers sections,        *)
(* Eis_DMX_SectionMonitor.  It takes a captured section from the driver,    *)
(* finds the filter and the slot it belongs to, and calls the browser back. *)
(* Its lookups take no lock (the semaphore calls around them are commented  *)
(* out), so the browser thread may run between any two table reads.         *)
(***************************************************************************)
EXTENDS EisDemux

CONSTANT MaxCaptured    \* bound on the sections waiting in the buffers

ASSUME EisMonitorAssumption == MaxCaptured \in Nat

VARIABLES captured,     \* <<filter, slot>> objects of the waiting sections
          monitor       \* where the thread is

monitorVars == <<SectionSlot, SectionFilter, pti, eis_slot_state, call,
                 channels, channelOf, captured, monitor>>

(* fh, fl, row: the thread's locals.  src is history: the filter of the     *)
(* section being handled, while neither it nor its channel is destroyed.    *)
Wait == [at |-> "wait", fh |-> NoHandle, fl |-> None, row |-> 0, src |-> None]

MonitorInit == EisInit /\ captured = {} /\ monitor = Wait

(* A section the driver matched; the slot's buffer holds it.                *)
Capture ==
    /\ Cardinality(captured) < MaxCaptured
    /\ \E l \in pti.links : /\ l[1] \in pti.enabled
                            /\ pti.pid[l[2]] # NoPid
                            /\ captured' = captured \cup {l}
    /\ UNCHANGED <<eisVars, monitor>>

(* The filter a section read now belongs to, if it is the browser's.        *)
Source(l, f) ==
    LET owners == {g \in Filters : /\ SectionFilter[g].FilterHandle = l[1]
                                   /\ channelOf[g] \in channels
                                   /\ SectionSlot[channelOf[g]].SlotHandle = l[2]}
    IN f \in IF owners = {} THEN {None} ELSE owners

(* STPTI_BufferReadSection gives the matched filter's handle; a section     *)
(* with a bad CRC is dropped.                                              *)
ReadSection ==
    /\ monitor.at = "wait"
    /\ \E l \in captured, f \in FilterArg :
          /\ captured' = captured \ {l}
          /\ Source(l, f)
          /\ monitor' \in {Wait, [Wait EXCEPT !.at = "filter", !.fh = l[1],
                                              !.src = f]}
    /\ UNCHANGED eisVars

(* CH6_FindMatchFilter.  Mutant: it returns the row after the match.        *)
RowAfter(row)   == (row + 1) % MaxFilter
RowMatched(row) == row

FindFilter ==
    /\ monitor.at = "filter"
    /\ monitor' =
         IF SectionFilter[monitor.row].FilterHandle = monitor.fh
         THEN [monitor EXCEPT !.at = "slot", !.fl = RowMatched(monitor.row),
                              !.row = 0]
         ELSE IF monitor.row + 1 < MaxFilter
         THEN [monitor EXCEPT !.row = @ + 1]
         ELSE Wait
    /\ UNCHANGED <<eisVars, captured>>

(* CH6_FindMatchSlot is given a pointer into the filter's row, and reads    *)
(* its SlotHandle again for every slot row.                                 *)
RowMatches ==
    SectionSlot[monitor.row].SlotHandle = SectionFilter[monitor.fl].SlotHandle

FindSlot ==
    /\ monitor.at = "slot"
    /\ ~ RowMatches
    /\ monitor.row + 1 < MaxSlot
    /\ monitor' = [monitor EXCEPT !.row = @ + 1]
    /\ UNCHANGED <<eisVars, captured>>

(* The scan ends on the slot row c, or None after the last one:             *)
(* eis_oc_back_func(c + 1, monitor.fl + 1, ...).                            *)
Callback(c) ==
    /\ monitor.at = "slot"
    /\ \/ RowMatches /\ c = monitor.row
       \/ ~ RowMatches /\ monitor.row + 1 = MaxSlot /\ c = None
    /\ monitor' = Wait
    /\ UNCHANGED <<eisVars, captured>>

(* The browser moves: a freed slot takes the sections of its buffer along.  *)
Undisturbed(f) == /\ f \in Filters
                  /\ channelOf'[f] = channelOf[f]
                  /\ channelOf'[f] \in channels'

BrowserStep ==
    /\ Browser
    /\ captured' = {l \in captured : l[2] \in pti'.slots}
    /\ monitor' = [monitor EXCEPT !.src = IF Undisturbed(@) THEN @ ELSE None]

MonitorNext == \/ BrowserStep \/ Capture
               \/ ReadSection \/ FindFilter \/ FindSlot
               \/ \E c \in SlotArg : Callback(c)

MonitorSpec == MonitorInit /\ [][MonitorNext]_monitorVars

-----------------------------------------------------------------------------
MonitorTypeOK ==
    /\ captured \in SUBSET (FilterObject \X SlotObject)
    /\ monitor \in [at : {"wait", "filter", "slot"},
                    fh : FilterObject \cup {NoHandle},
                    fl : FilterArg, row : Slots \cup Filters, src : FilterArg]

(* A section is delivered under the numbers the browser knows its filter    *)
(* and channel by, unless one of the two was destroyed while the thread was *)
(* looking them up; creating and destroying others meanwhile does no harm.  *)
DeliveredToOwner ==
    [][\A c \in SlotArg : Callback(c) /\ monitor.src # None =>
          monitor.fl = monitor.src /\ c = channelOf[monitor.src]]_monitorVars
=============================================================================
