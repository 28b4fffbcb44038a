--------------------------- MODULE EisDemux_proofs ---------------------------
(***************************************************************************)
(* The browser's calls stay within what ChDemux assumes of its clients, so  *)
(* the browser's system implements DemuxSpec and inherits its theorems.     *)
(***************************************************************************)
EXTENDS EisDemux, ChDemux_proofs

(* Every browser step is one table operation, called with numbers and PIDs  *)
(* in range, or touches no table.                                          *)
LEMMA BrowserCalls ==
    ASSUME EisInv, Browser
    PROVE  [DemuxNext]_demuxVars
<1> USE DEF SlotArg, FilterArg
<1>1. /\ channels \subseteq Slots
      /\ BrowserFilters \subseteq Filters
      /\ call.ch \in SlotArg /\ call.fl \in FilterArg /\ call.other \in SlotArg
  BY DEF EisInv, EisTypeOK, Call, BrowserFilters
<1>2. CASE create_channel
  BY <1>2 DEF create_channel, DemuxNext
<1>3. CASE set_channel_pid
  BY <1>1, <1>3, EisDemuxAssumption DEF set_channel_pid, DemuxNext, SlotStep
<1>4. CASE create_filter_allocate
  BY <1>4 DEF create_filter_allocate, DemuxNext
<1>5. CASE create_filter_associate
  <2>1. PICK err \in BOOLEAN : CH6_Associate_Slot_Filter(call.ch, call.fl, err)
    BY <1>5 DEF create_filter_associate, CreatedFilter
  <2>2. NotYetAssociated(call.fl)
    BY <1>5 DEF create_filter_associate, EisInv, NotYetAssociated
  <2> QED BY <1>1, <2>1, <2>2 DEF DemuxNext, LinkStep
<1>6. CASE set_filter_set
  BY <1>1, <1>6 DEF set_filter_set, DemuxNext, FilterStep
<1>7. CASE enable_filter
  BY <1>1, <1>7 DEF enable_filter, DemuxNext, FilterStep
<1>8. CASE disable_filter
  BY <1>1, <1>8 DEF disable_filter, DemuxNext, FilterStep
<1>9. CASE destroy_filter
  BY <1>1, <1>9 DEF destroy_filter, DemuxNext, FilterStep
<1>10. CASE start_channel_start
  BY <1>1, <1>10 DEF start_channel_start, DemuxNext, SlotStep
<1>11. CASE start_channel_stop_other
  BY <1>1, <1>11 DEF start_channel_stop_other, DemuxNext, SlotStep
<1>12. CASE start_channel_start_again
  BY <1>1, <1>12 DEF start_channel_start_again, DemuxNext, SlotStep
<1>13. CASE destroy_channel_stop
  BY <1>1, <1>13 DEF destroy_channel_stop, DemuxNext, SlotStep
<1>14. CASE destroy_channel_free
  BY <1>1, <1>14 DEF destroy_channel_free, SlotToFree, DemuxNext, SlotStep
<1>15. CASE \/ set_filter_get_pid \/ start_channel
            \/ start_channel_find_other \/ start_channel_return
  BY <1>15 DEF set_filter_get_pid, start_channel, start_channel_find_other,
               start_channel_return
<1> QED
  BY <1>2, <1>3, <1>4, <1>5, <1>6, <1>7, <1>8, <1>9, <1>10, <1>11, <1>12,
     <1>13, <1>14, <1>15 DEF Browser

(* The filter rows an action leaves alone, or changes in place.             *)
LEMMA FilterRowsKept ==
    ASSUME DemuxTypeOK, EisInv, EisTypeOK', NEW f, NEW h,
           \/ SectionFilter' = SectionFilter
           \/ \E t \in {"IN_USE", "DONE"} : /\ ~ FilterFree(f)
                 /\ SectionFilter' = [SectionFilter EXCEPT ![f].FilterStatus = t]
           \/ SectionFilter' = [SectionFilter EXCEPT ![f] = FreeFilterRow]
           \/ /\ ~ FilterFree(f)
              /\ SectionFilter' = [SectionFilter EXCEPT ![f].SlotHandle = h],
           ~ At("associate")'
    PROVE  EisInv'
<1>1. /\ FreeFilterRow.SlotHandle = NoHandle
      /\ \A g \in Filters : SectionFilter[g] \in FilterRow
  BY DEF FreeFilterRow, DemuxTypeOK
<1>2. ASSUME NEW g \in Filters, FilterFree(g)'
      PROVE  NotYetAssociated(g)'
  BY <1>1, <1>2 DEF EisInv, FilterFree, NotYetAssociated, DemuxTypeOK, FilterRow
<1> QED BY <1>2 DEF EisInv

(* Where an action may send the thread.                                     *)
LEMMA Calls ==
    /\ \A a \in Place, c \in SlotArg, f \in FilterArg : CallAt(a, c, f) \in Call
    /\ \A k \in Call : k.ch \in SlotArg /\ k.fl \in FilterArg
    /\ \A k \in Call, a \in Place : [k EXCEPT !.at = a] \in Call
    /\ \A k \in Call, a \in Place, c \in SlotArg :
          [k EXCEPT !.at = a, !.other = c] \in Call
<1>1. \A a \in Place, c \in SlotArg, f \in FilterArg : CallAt(a, c, f) \in Call
  BY DEF Call, CallAt, SlotArg
<1>2. \A k \in Call : k.ch \in SlotArg /\ k.fl \in FilterArg
  BY DEF Call
<1>3. \A k \in Call, a \in Place : [k EXCEPT !.at = a] \in Call
  BY DEF Call
<1>4. \A k \in Call, a \in Place, c \in SlotArg :
         [k EXCEPT !.at = a, !.other = c] \in Call
  BY DEF Call
<1> QED BY <1>1, <1>2, <1>3, <1>4

LEMMA CallMoves ==
    ASSUME call \in Call, NEW place, NEW o,
           \/ call' = [call EXCEPT !.at = place]
           \/ call' = [call EXCEPT !.at = place, !.other = o]
    PROVE  call'.at = place /\ call'.ch = call.ch
BY DEF Call

LEMMA CallTypes ==
    ASSUME EisTypeOK, Browser
    PROVE  call' \in Call
<1>1. /\ None \in SlotArg /\ None \in FilterArg
      /\ channels \subseteq SlotArg /\ BrowserFilters \subseteq FilterArg
      /\ call \in Call /\ call.ch \in SlotArg
  BY Calls DEF SlotArg, FilterArg, EisTypeOK, BrowserFilters
<1>2. /\ "idle" \in Place /\ "associate" \in Place /\ "set" \in Place
      /\ "start" \in Place /\ "find other" \in Place /\ "stop other" \in Place
      /\ "start again" \in Place /\ "started" \in Place /\ "free" \in Place
  BY DEF Place
<1>3. /\ Idle \in Call
      /\ \A c \in SlotArg : /\ CallAt("start", c, None) \in Call
                            /\ CallAt("started", c, None) \in Call
                            /\ CallAt("free", c, None) \in Call
      /\ \A c \in SlotArg, f \in FilterArg :
            CallAt("associate", c, f) \in Call /\ CallAt("set", c, f) \in Call
  BY <1>1, <1>2, Calls DEF Idle
<1>4. /\ [call EXCEPT !.at = "find other"] \in Call
      /\ [call EXCEPT !.at = "start again"] \in Call
      /\ \A c \in SlotArg :
            [call EXCEPT !.at = "stop other", !.other = c] \in Call
  BY <1>1, <1>2, Calls
<1>5. CASE \/ create_channel \/ set_channel_pid \/ create_filter_associate
           \/ set_filter_set \/ enable_filter \/ disable_filter
           \/ destroy_filter \/ start_channel_return \/ destroy_channel_free
  BY <1>1, <1>3, <1>5
     DEF create_channel, set_channel_pid, create_filter_associate, Return,
         set_filter_set, enable_filter, disable_filter, destroy_filter,
         start_channel_return, destroy_channel_free, clientVars
<1>6. CASE create_filter_allocate \/ set_filter_get_pid
  BY <1>1, <1>3, <1>6 DEF create_filter_allocate, set_filter_get_pid
<1>7. CASE start_channel \/ start_channel_start
  BY <1>1, <1>3, <1>4, <1>7
     DEF start_channel, start_channel_start, StartOk, Goto
<1>8. CASE start_channel_find_other
  BY <1>1, <1>3, <1>4, <1>8 DEF start_channel_find_other, StartOk
<1>9. CASE start_channel_stop_other \/ start_channel_start_again
  BY <1>1, <1>3, <1>4, <1>9
     DEF start_channel_stop_other, start_channel_start_again, StartOk, Goto
<1>10. CASE destroy_channel_stop
  BY <1>1, <1>3, <1>10 DEF destroy_channel_stop
<1> QED
  BY <1>5, <1>6, <1>7, <1>8, <1>9, <1>10 DEF Browser

(* The browser's own state stays within its types.                          *)
LEMMA BrowserTypes ==
    ASSUME EisTypeOK, Browser
    PROVE  EisTypeOK'
<1>1. eis_slot_state' \in [Slots -> BOOLEAN]
  BY DEF EisTypeOK, Browser, WriteState, create_channel, set_channel_pid,
         create_filter_allocate, create_filter_associate, set_filter_get_pid,
         set_filter_set, enable_filter, disable_filter, destroy_filter,
         start_channel, start_channel_start, start_channel_find_other,
         start_channel_stop_other, start_channel_start_again,
         start_channel_return, destroy_channel_stop, destroy_channel_free,
         clientVars
<1>2. channels' \in SUBSET Slots
  BY DEF EisTypeOK, Browser, create_channel, set_channel_pid, SlotArg,
         create_filter_allocate, create_filter_associate, set_filter_get_pid,
         set_filter_set, enable_filter, disable_filter, destroy_filter,
         start_channel, start_channel_start, start_channel_find_other,
         start_channel_stop_other, start_channel_start_again,
         start_channel_return, destroy_channel_stop, destroy_channel_free,
         clientVars
<1>3. ASSUME create_filter_associate
      PROVE  channelOf' \in [Filters -> Slots \cup {NoFilter, Orphan}]
  <2>1. PICK err \in BOOLEAN :
           /\ CH6_Associate_Slot_Filter(call.ch, CreatedFilter(call.fl), err)
           /\ channelOf' = [channelOf EXCEPT ![call.fl] = CreatedOn(call.ch, err)]
    BY <1>3 DEF create_filter_associate
  <2>2. err \/ call.ch \in Slots
    BY <2>1 DEF CH6_Associate_Slot_Filter, BothUsable, SlotTaken, Failed
  <2>3. CreatedOn(call.ch, err) \in Slots \cup {NoFilter, Orphan}
    BY <2>2 DEF CreatedOn
  <2> QED BY <2>1, <2>3 DEF EisTypeOK
<1>4. channelOf' \in [Filters -> Slots \cup {NoFilter, Orphan}]
  BY <1>3
     DEF EisTypeOK, Browser, create_channel, set_channel_pid,
         create_filter_allocate, set_filter_get_pid,
         set_filter_set, enable_filter, disable_filter, destroy_filter,
         start_channel, start_channel_start, start_channel_find_other,
         start_channel_stop_other, start_channel_start_again,
         start_channel_return, destroy_channel_stop, destroy_channel_free,
         clientVars
<1> QED BY <1>1, <1>2, <1>4, CallTypes DEF EisTypeOK

LEMMA BrowserKeepsInv ==
    ASSUME EisInv, DemuxInv, Browser
    PROVE  EisInv'
<1> USE DEF DemuxInv
<1>1. EisTypeOK /\ EisTypeOK'
  BY BrowserTypes DEF EisInv
<1>2. CASE create_filter_allocate
  <2>1. PICK c \in channels, f \in FilterArg :
           /\ CH6_Allocate_Section_Filter(f)
           /\ call' = IF f = None THEN Idle ELSE CallAt("associate", c, f)
    BY <1>2 DEF create_filter_allocate
  <2>2. CASE f = None
    <3>1. SectionFilter' = SectionFilter
      BY <2>1, <2>2 DEF CH6_Allocate_Section_Filter, AllocateFilterFails, Filters, None
    <3>2. ~ At("associate")'
      BY <2>1, <2>2 DEF At, Idle, CallAt
    <3> QED BY <1>1, <3>1, <3>2, FilterRowsKept
  <2>3. CASE f # None
    <3>1. f \in Filters /\ AllocateFilterAt(f)
      BY <2>1, <2>3 DEF CH6_Allocate_Section_Filter
    <3>2. PICK h \in FilterObject :
             SectionFilter' = [SectionFilter EXCEPT ![f] =
                                 [FilterStatus |-> "IN_USE", FilterHandle |-> h,
                                  SlotHandle |-> SectionFilter[f].SlotHandle]]
      BY <3>1 DEF AllocateFilterAt
    <3>3. NotYetAssociated(f)
      BY <3>1 DEF AllocateFilterAt, IsFirst, EisInv
    <3>4. \A g \in Filters : NotYetAssociated(g) => NotYetAssociated(g)'
      BY <3>1, <3>2, <3>3 DEF NotYetAssociated, DemuxTypeOK
    <3>5. \A g \in Filters : FilterFree(g)' => FilterFree(g)
      BY <3>1, <3>2 DEF FilterFree, DemuxTypeOK
    <3>6. call'.fl = f
      BY <2>1, <2>3 DEF CallAt
    <3> QED BY <1>1, <3>3, <3>4, <3>5, <3>6 DEF EisInv
  <2> QED BY <2>2, <2>3
<1>3. CASE ~ create_filter_allocate
  <2>1. ~ At("associate")'
    <3>1. /\ Idle.at # "associate"
          /\ \A c : /\ CallAt("start", c, None).at # "associate"
                    /\ CallAt("started", c, None).at # "associate"
                    /\ CallAt("free", c, None).at # "associate"
          /\ \A c, f : CallAt("set", c, f).at # "associate"
          /\ [call EXCEPT !.at = "find other"].at # "associate"
          /\ [call EXCEPT !.at = "start again"].at # "associate"
          /\ \A c : [call EXCEPT !.at = "stop other", !.other = c].at # "associate"
      BY <1>1 DEF Idle, CallAt, EisTypeOK, Call
    <3>2. CASE create_channel \/ set_channel_pid \/ create_filter_associate
      BY <3>1, <3>2
         DEF create_channel, set_channel_pid, create_filter_associate, Return,
             clientVars, At
    <3>5. CASE \/ set_filter_set \/ enable_filter \/ disable_filter
               \/ destroy_filter \/ start_channel_return \/ destroy_channel_free
      BY <3>1, <3>5
         DEF Return, set_filter_set, enable_filter, disable_filter,
             destroy_filter, start_channel_return, destroy_channel_free,
             clientVars, At
    <3>3. CASE \/ set_filter_get_pid \/ start_channel \/ start_channel_start
               \/ destroy_channel_stop
      BY <3>1, <3>3
         DEF set_filter_get_pid, start_channel, start_channel_start, StartOk,
             destroy_channel_stop, Goto, At
    <3>4. CASE \/ start_channel_find_other \/ start_channel_stop_other
               \/ start_channel_start_again
      BY <3>1, <3>4
         DEF start_channel_find_other, start_channel_stop_other,
             start_channel_start_again, StartOk, Goto, At
    <3> QED BY <1>3, <3>2, <3>3, <3>4, <3>5 DEF Browser
  <2>2. CASE create_filter_associate
    <3>1. PICK err \in BOOLEAN : CH6_Associate_Slot_Filter(call.ch, call.fl, err)
      BY <2>2 DEF create_filter_associate, CreatedFilter
    <3>2. \/ SectionFilter' = SectionFilter
          \/ \E h : /\ ~ FilterFree(call.fl)
                   /\ SectionFilter' = [SectionFilter EXCEPT ![call.fl].SlotHandle = h]
      BY <3>1 DEF CH6_Associate_Slot_Filter, BothUsable, FilterUsable,
                  FilterTaken, RecordLink, Failed, demuxVars
    <3> QED BY <1>1, <2>1, <3>2, FilterRowsKept
  <2>3. CASE enable_filter
    <3>1. PICK f \in BrowserFilters, err \in BOOLEAN : CH6_Start_Filter(f, err)
      BY <2>3 DEF enable_filter
    <3>2. \/ SectionFilter' = SectionFilter
          \/ /\ ~ FilterFree(f)
             /\ SectionFilter' = [SectionFilter EXCEPT ![f].FilterStatus = "IN_USE"]
      BY <3>1 DEF CH6_Start_Filter, FilterUsable, FilterTaken, Failed, demuxVars
    <3> QED BY <1>1, <2>1, <3>2, FilterRowsKept
  <2>4. CASE disable_filter
    <3>1. PICK f \in BrowserFilters, err \in BOOLEAN : CH6_Stop_Filter(f, err)
      BY <2>4 DEF disable_filter
    <3>2. \/ SectionFilter' = SectionFilter
          \/ /\ ~ FilterFree(f)
             /\ SectionFilter' = [SectionFilter EXCEPT ![f].FilterStatus = "DONE"]
      BY <3>1 DEF CH6_Stop_Filter, FilterUsable, FilterTaken, StoppedRow,
                  Failed, demuxVars
    <3> QED BY <1>1, <2>1, <3>2, FilterRowsKept
  <2>5. CASE destroy_filter
    <3>1. PICK f \in BrowserFilters : CH6_Free_Section_Filter(f, FALSE)
      BY <2>5 DEF destroy_filter
    <3>2. SectionFilter' = [SectionFilter EXCEPT ![f] = FreeFilterRow]
      BY <3>1 DEF CH6_Free_Section_Filter, ClearRow, Failed
    <3> QED BY <1>1, <2>1, <3>2, FilterRowsKept
  <2>6. CASE \/ create_channel \/ set_channel_pid \/ set_filter_get_pid
             \/ set_filter_set \/ start_channel \/ start_channel_start
             \/ start_channel_find_other \/ start_channel_stop_other
             \/ start_channel_start_again \/ start_channel_return
             \/ destroy_channel_stop \/ destroy_channel_free
    <3>1. SectionFilter' = SectionFilter
      BY <2>6
       DEF create_channel, set_channel_pid, set_filter_get_pid, set_filter_set,
           start_channel, start_channel_start, start_channel_find_other,
           start_channel_stop_other, start_channel_start_again,
           start_channel_return, destroy_channel_stop, destroy_channel_free,
           CH6_Allocate_Section_Slot, AllocateSlotFails, AllocateSlotAt,
           CH6_Set_Slot_Pid, CH6_Set_Filter, CH6_Start_Slot, CH6_Stop_Slot,
           CH6_Free_Section_Slot, Failed, demuxVars
    <3> QED BY <1>1, <2>1, <3>1, FilterRowsKept
  <2> QED
    BY <1>3, <2>2, <2>3, <2>4, <2>5, <2>6 DEF Browser
<1> QED BY <1>2, <1>3

(* What the browser's step relation keeps, of its own state and the tables'. *)
LEMMA EisStep ==
    ASSUME EisInv, DemuxInv, [Browser]_eisVars
    PROVE  EisInv' /\ DemuxInv' /\ [DemuxNext]_demuxVars
<1>1. CASE Browser
  BY <1>1, BrowserCalls, BrowserKeepsInv, DemuxStep
<1>2. CASE UNCHANGED eisVars
  <2>1. UNCHANGED demuxVars
    BY <1>2 DEF eisVars, demuxVars
  <2>2. EisInv'
    BY <1>2 DEF eisVars, EisInv, EisTypeOK, At, FilterFree, NotYetAssociated
  <2> QED BY <2>1, <2>2, DemuxStep
<1> QED BY <1>1, <1>2

LEMMA EisInitInv == EisInit => EisInv /\ DemuxInv
<1> SUFFICES ASSUME EisInit PROVE EisInv /\ DemuxInv
  OBVIOUS
<1>1. DemuxInv /\ \A f \in Filters : NotYetAssociated(f)
  BY DemuxInitInv DEF EisInit, DemuxInit, NotYetAssociated, FreeFilterRow
<1>2. Idle \in Call
  BY DEF Call, Place, Idle, CallAt, SlotArg, FilterArg
<1>3. EisTypeOK
  BY <1>2 DEF EisInit, EisTypeOK
<1> QED BY <1>1, <1>3 DEF EisInv

(* A filter row about to be associated carries no slot of an earlier use,   *)
(* whatever the browser calls in whatever order.                            *)
THEOREM FreshRows == EisSpec => []EisInv
<1>1. EisInv /\ DemuxInv /\ [Browser]_eisVars => EisInv' /\ DemuxInv'
  BY EisStep
<1> QED BY <1>1, EisInitInv, PTL DEF EisSpec

(* The browser, seen through the tables, is a client ChDemux allows.        *)
THEOREM BrowserImplementsDemux == EisSpec => EisImplementsDemux
<1>1. EisInit => DemuxInit
  BY DEF EisInit
<1>2. EisInv /\ DemuxInv /\ [Browser]_eisVars
        => EisInv' /\ DemuxInv' /\ [DemuxNext]_demuxVars
  BY EisStep
<1> QED BY <1>1, <1>2, EisInitInv, PTL DEF EisSpec, EisImplementsDemux, DemuxSpec

(* So the tables' invariant holds of the browser's system.                  *)
THEOREM TablesSoundUnderBrowser == EisSpec => []DemuxInv
BY BrowserImplementsDemux, DemuxInvariant DEF EisImplementsDemux

-----------------------------------------------------------------------------
(* What the browser was given, it keeps.  First what the table operations    *)
(* leave alone: the objects the rows name are the driver's and no other      *)
(* row's, ...                                                               *)
LEMMA NamedObjects ==
    ASSUME DemuxInv
    PROVE  /\ \A s \in Slots : ~ SlotFree(s) =>
                 /\ SectionSlot[s].SlotHandle \in pti.slots
                 /\ \A t \in Slots :
                       SectionSlot[t].SlotHandle = SectionSlot[s].SlotHandle => t = s
           /\ \A f \in Filters : ~ FilterFree(f) =>
                 /\ SectionFilter[f].FilterHandle \in pti.filters
                 /\ \A g \in Filters :
                       SectionFilter[g].FilterHandle = SectionFilter[f].FilterHandle
                         => g = f
BY DEF DemuxInv, StatusMatchesHandle, HandlesAccounted, SlotPool!Accounted,
       FilterPool!Accounted

(* ... a failed allocation takes nothing from the objects in use, ...       *)
LEMMA FailedAllocation ==
    ASSUME DemuxTypeOK, AllocateSlotFails \/ AllocateFilterFails
    PROVE  /\ SectionSlot' = SectionSlot /\ SectionFilter' = SectionFilter
           /\ \A x \in SlotObject : pti'.pid[x] \in {pti.pid[x], NoPid}
           /\ \A l \in pti.links :
                 l[1] \in pti.filters /\ l[2] \in pti.slots => l \in pti'.links
           /\ \A x \in pti.slots : pti'.pid[x] = pti.pid[x]
           /\ \A y \in pti.filters : y \in pti.enabled => y \in pti'.enabled
<1>1. SectionSlot' = SectionSlot /\ SectionFilter' = SectionFilter
  BY DEF AllocateSlotFails, AllocateFilterFails
<1>2. pti \in PtiState
  BY DEF DemuxTypeOK
<1>3. CASE pti' = pti
  BY <1>1, <1>3
<1>4. ASSUME NEW h \in SlotObject \ pti.slots,
             \/ pti' = AbandonedSlot(pti, h)
             \/ \E b \in BufferObject \ pti.buffers :
                   pti' = BufferDeallocate(
                            SlotDeallocate(
                              BufferAllocate(SlotAllocate(pti, h), b), h), b)
      PROVE  /\ \A x \in SlotObject : pti'.pid[x] \in {pti.pid[x], NoPid}
             /\ pti'.links = {l \in pti.links : l[2] # h}
             /\ \A x \in SlotObject \ {h} : pti'.pid[x] = pti.pid[x]
             /\ pti'.enabled = pti.enabled
  <2> DEFINE q == SlotAllocate(pti, h)
  <2>1. /\ q \in PtiState
        /\ q.pid = pti.pid /\ q.links = pti.links
        /\ q.enabled = pti.enabled
    BY <1>2 DEF PtiState, SlotAllocate
  <2>2. ASSUME NEW r \in PtiState
        PROVE  /\ \A x \in SlotObject :
                     SlotDeallocate(r, h).pid[x] \in {r.pid[x], NoPid}
               /\ \A x \in SlotObject \ {h} :
                     SlotDeallocate(r, h).pid[x] = r.pid[x]
               /\ SlotDeallocate(r, h).links = {l \in r.links : l[2] # h}
               /\ SlotDeallocate(r, h).enabled = r.enabled
               /\ SlotDeallocate(r, h) \in PtiState
    <3>1. SlotDeallocate(r, h) \in PtiState
      BY DriverTypes
    <3>2. \A x \in SlotObject :
             SlotDeallocate(r, h).pid[x] = IF x = h THEN NoPid ELSE r.pid[x]
      BY DEF PtiState, SlotDeallocate
    <3>3. /\ SlotDeallocate(r, h).links = {l \in r.links : l[2] # h}
          /\ SlotDeallocate(r, h).enabled = r.enabled
      BY DEF PtiState, SlotDeallocate
    <3> QED BY <3>1, <3>2, <3>3
  <2>3. CASE pti' = AbandonedSlot(pti, h)
    <3>1. pti' = SlotDeallocate(q, h)
      BY <2>3 DEF AbandonedSlot
    <3> HIDE DEF q
    <3> QED BY <2>1, <2>2, <3>1
  <2>4. ASSUME NEW b \in BufferObject \ pti.buffers,
               pti' = BufferDeallocate(
                        SlotDeallocate(BufferAllocate(q, b), h), b)
        PROVE  /\ \A x \in SlotObject : pti'.pid[x] \in {pti.pid[x], NoPid}
               /\ pti'.links = {l \in pti.links : l[2] # h}
               /\ \A x \in SlotObject \ {h} : pti'.pid[x] = pti.pid[x]
               /\ pti'.enabled = pti.enabled
    <3> DEFINE r == BufferAllocate(q, b)
               d == SlotDeallocate(r, h)
    <3>1. /\ r \in PtiState
          /\ r.pid = q.pid /\ r.links = q.links /\ r.enabled = q.enabled
      <4> HIDE DEF q
      <4> QED BY <2>1 DEF PtiState, BufferAllocate
    <3>2. /\ \A x \in SlotObject : d.pid[x] \in {r.pid[x], NoPid}
          /\ \A x \in SlotObject \ {h} : d.pid[x] = r.pid[x]
          /\ d.links = {l \in r.links : l[2] # h} /\ d.enabled = r.enabled
          /\ d \in PtiState
      <4> HIDE DEF r
      <4> QED BY <2>2, <3>1
    <3>3. /\ pti'.pid = d.pid /\ pti'.links = d.links
          /\ pti'.enabled = d.enabled
      <4> HIDE DEF d
      <4>1. pti' = BufferDeallocate(d, b)
        BY <2>4 DEF d, r
      <4> QED BY <3>2, <4>1 DEF PtiState, BufferDeallocate
    <3> HIDE DEF q, r, d
    <3> QED BY <2>1, <3>1, <3>2, <3>3
  <2> QED BY <1>4, <2>3, <2>4
<1>5. ASSUME NEW h \in FilterObject \ pti.filters,
             pti' = FilterDeallocate(FilterAllocate(pti, h), h)
      PROVE  /\ pti'.pid = pti.pid /\ pti'.links = {l \in pti.links : l[1] # h}
             /\ pti'.enabled = pti.enabled \ {h}
  BY <1>2, <1>5 DEF PtiState, FilterAllocate, FilterDeallocate
<1>6. CASE AllocateSlotFails
  <2>1. \/ pti' = pti
        \/ \E h \in SlotObject \ pti.slots :
              \/ pti' = AbandonedSlot(pti, h)
              \/ \E b \in BufferObject \ pti.buffers :
                    pti' = BufferDeallocate(
                             SlotDeallocate(
                               BufferAllocate(SlotAllocate(pti, h), b), h), b)
    BY <1>6 DEF AllocateSlotFails
  <2> QED BY <1>1, <1>2, <1>3, <1>4, <2>1 DEF PtiState
<1>7. CASE AllocateFilterFails
  <2>1. \/ pti' = pti
        \/ \E h \in FilterObject \ pti.filters :
              pti' = FilterDeallocate(FilterAllocate(pti, h), h)
    BY <1>7 DEF AllocateFilterFails
  <2> QED BY <1>1, <1>3, <1>5, <2>1
<1> QED BY <1>6, <1>7

(* ... and only a started slot collects what it did not.                    *)
LEMMA OnlyStartCollects ==
    ASSUME DemuxInv, NEW s, NEW f, NEW v, NEW err,
           \/ CH6_Allocate_Section_Slot(s) \/ CH6_Free_Section_Slot(s, err)
           \/ CH6_Set_Slot_Pid(s, v, err) \/ CH6_Stop_Slot(s, err)
           \/ CH6_Allocate_Section_Filter(f) \/ CH6_Free_Section_Filter(f, err)
           \/ CH6_Associate_Slot_Filter(s, f, err) \/ CH6_Set_Filter(f, err)
           \/ CH6_Start_Filter(f, err) \/ CH6_Stop_Filter(f, err)
           \/ UNCHANGED demuxVars
    PROVE  \A x \in SlotObject : pti'.pid[x] \in {pti.pid[x], NoPid}
<1> USE DEF DemuxInv
<1>1. pti \in PtiState
  BY DEF DemuxTypeOK
<1>2. CASE UNCHANGED demuxVars
  BY <1>2 DEF demuxVars
<1>3. CASE CH6_Allocate_Section_Slot(s) \/ CH6_Allocate_Section_Filter(f)
  <2>1. CASE AllocateSlotFails \/ AllocateFilterFails
    BY <2>1, FailedAllocation
  <2>2. CASE AllocateSlotAt(s) \/ AllocateFilterAt(f)
    <3>1. pti'.pid = pti.pid
      BY <1>1, <2>2
         DEF PtiState, AllocateSlotAt, AllocateFilterAt, BufferAllocate,
             SlotAllocate, FilterAllocate
    <3> QED BY <3>1
  <2> QED
    BY <1>3, <2>1, <2>2
       DEF CH6_Allocate_Section_Slot, CH6_Allocate_Section_Filter
<1>4. CASE \/ CH6_Free_Section_Slot(s, err) \/ CH6_Set_Slot_Pid(s, v, err)
           \/ CH6_Stop_Slot(s, err)
  <2> DEFINE h == SectionSlot[s].SlotHandle
             b == SectionSlot[s].BufferHandle
  <2>1. \/ pti' = pti
        \/ /\ SlotTaken(s)
           /\ \/ pti' = SlotDeallocate(BufferDeallocate(pti, b), h)
              \/ pti' = SlotClearPid(pti, h)
    BY <1>4
       DEF CH6_Free_Section_Slot, CH6_Set_Slot_Pid, CH6_Stop_Slot, Failed,
           SlotUsable, demuxVars
  <2>2. SlotTaken(s) => h \in SlotObject /\ b \in BufferObject
    BY TakenRows
  <2>3. CASE pti' = SlotClearPid(pti, h)
    BY <1>1, <2>2, <2>3 DEF SlotClearPid, PtiState
  <2>4. CASE SlotTaken(s) /\ pti' = SlotDeallocate(BufferDeallocate(pti, b), h)
    BY <1>1, <2>2, <2>4, SlotCalls
  <2> QED BY <2>1, <2>3, <2>4
<1>5. CASE \/ CH6_Free_Section_Filter(f, err)
           \/ CH6_Associate_Slot_Filter(s, f, err) \/ CH6_Set_Filter(f, err)
           \/ CH6_Start_Filter(f, err) \/ CH6_Stop_Filter(f, err)
  <2>1. pti'.pid = pti.pid
    BY <1>1, <1>5
       DEF CH6_Free_Section_Filter, CH6_Associate_Slot_Filter, CH6_Set_Filter,
           CH6_Start_Filter, CH6_Stop_Filter, Failed, demuxVars, PtiState,
           FilterDeallocate, FilterDisassociate, FilterDisable,
           FilterAssociate, FilterEnable
  <2> QED BY <2>1
<1> QED BY <1>2, <1>3, <1>4, <1>5

(* While start_channel is at work, its channel is not set to the CAT.       *)
Starting == call.at \in {"start", "find other", "stop other", "start again"}

StartingNoCat ==
    Starting => (SlotTaken(call.ch) => SectionSlot[call.ch].PidValue # CatPid)

CatInv == StartingNoCat /\ CatLeftAlone

LEMMA StartedSlot ==
    ASSUME DemuxInv, CatInv, Starting, NEW err, CH6_Start_Slot(call.ch, err)
    PROVE  CatLeftAlone'
<1> USE DEF DemuxInv
<1> DEFINE h == SectionSlot[call.ch].SlotHandle
           v == SectionSlot[call.ch].PidValue
<1>1. \/ pti' = pti
      \/ SlotTaken(call.ch) /\ pti' = SlotSetPid(pti, h, v)
  BY DEF CH6_Start_Slot, Failed, demuxVars, SlotUsable
<1>2. CASE pti' = pti
  BY <1>2 DEF CatInv, CatLeftAlone
<1>3. CASE SlotTaken(call.ch) /\ pti' = SlotSetPid(pti, h, v)
  <2>1. v # CatPid /\ h \in SlotObject /\ pti \in PtiState
    BY <1>3, TakenRows DEF CatInv, StartingNoCat, DemuxTypeOK
  <2>2. \A x \in SlotObject : pti'.pid[x] \in {pti.pid[x], NoPid, v}
    <3> HIDE DEF h, v
    <3> QED BY <1>3, <2>1 DEF SlotSetPid, PtiState
  <2> HIDE DEF v
  <2> QED BY <2>1, <2>2, EisDemuxAssumption DEF CatInv, CatLeftAlone
<1> QED BY <1>1, <1>2, <1>3

LEMMA CatStep ==
    ASSUME EisInv, DemuxInv, CatInv, Browser
    PROVE  CatInv'
<1> USE DEF CatInv
<1>1. call \in Call
  BY DEF EisInv, EisTypeOK
<1>2. ASSUME \A x \in SlotObject : pti'.pid[x] \in {pti.pid[x], NoPid}
      PROVE  CatLeftAlone'
  BY <1>2, EisDemuxAssumption DEF CatLeftAlone
<1>3. CASE start_channel
  <2>1. CatLeftAlone'
    BY <1>3 DEF start_channel, CatLeftAlone, demuxVars
  <2>2. StartingNoCat'
    <3>1. PICK c \in channels :
             \/ call'.at = "started"
             \/ /\ SectionSlot[c].PidValue # CatPid
                /\ call'.ch = c
      <4>1. PICK c \in channels, started \in BOOLEAN :
               \/ StartOk(c)
               \/ /\ SectionSlot[c].PidValue # CatPid
                  /\ call' = CallAt("start", c, None)
        BY <1>3 DEF start_channel, IsCat
      <4>2. call'.at = "started" \/ /\ SectionSlot[c].PidValue # CatPid
                                    /\ call'.ch = c
        BY <4>1 DEF StartOk, CallAt
      <4> QED BY <4>2
    <3> QED
      BY <1>3, <3>1 DEF start_channel, StartingNoCat, Starting, demuxVars
  <2> QED BY <2>1, <2>2
<1>4. CASE start_channel_start \/ start_channel_start_again
  <2>1. Starting
    BY <1>4 DEF start_channel_start, start_channel_start_again, At, Starting
  <2>2. \E err \in BOOLEAN : CH6_Start_Slot(call.ch, err)
    BY <1>4 DEF start_channel_start, start_channel_start_again
  <2>3. SectionSlot' = SectionSlot
    BY <2>2 DEF CH6_Start_Slot, Failed, demuxVars
  <2>4. call'.ch = call.ch \/ call'.at = "started"
    <3>1. \/ call' = [call EXCEPT !.at = "find other"]
          \/ call' = CallAt("started", call.ch, None)
      BY <1>4
         DEF start_channel_start, start_channel_start_again, StartOk, Goto
    <3>2. CASE call' = [call EXCEPT !.at = "find other"]
      BY <1>1, <3>2, CallMoves
    <3>3. CASE call' = CallAt("started", call.ch, None)
      BY <3>3 DEF CallAt
    <3> QED BY <3>1, <3>2, <3>3
  <2>5. StartingNoCat'
    BY <2>1, <2>3, <2>4 DEF StartingNoCat, Starting, SlotTaken, SlotFree
  <2> QED BY <2>1, <2>2, <2>5, StartedSlot
<1>5. CASE start_channel_find_other \/ start_channel_stop_other
  <2>1. Starting
    BY <1>5 DEF start_channel_find_other, start_channel_stop_other, At, Starting
  <2>2. \/ UNCHANGED demuxVars
        \/ \E err \in BOOLEAN : CH6_Stop_Slot(call.other, err)
    BY <1>5 DEF start_channel_find_other, start_channel_stop_other
  <2>3. SectionSlot' = SectionSlot
    BY <2>2 DEF CH6_Stop_Slot, Failed, demuxVars
  <2>4. call'.ch = call.ch \/ call'.at = "started"
    <3>1. \/ call' = [call EXCEPT !.at = "start again"]
          \/ \E o : call' = [call EXCEPT !.at = "stop other", !.other = o]
          \/ call' = CallAt("started", call.ch, None)
      BY <1>5
         DEF start_channel_find_other, start_channel_stop_other, StartOk, Goto
    <3>2. CASE call' = [call EXCEPT !.at = "start again"]
      BY <1>1, <3>2, CallMoves
    <3>3. ASSUME NEW o, call' = [call EXCEPT !.at = "stop other", !.other = o]
          PROVE  call'.ch = call.ch
      BY <1>1, <3>3, CallMoves
    <3>4. CASE call' = CallAt("started", call.ch, None)
      BY <3>4 DEF CallAt
    <3> QED BY <3>1, <3>2, <3>3, <3>4
  <2>5. StartingNoCat'
    BY <2>1, <2>3, <2>4 DEF StartingNoCat, Starting, SlotTaken, SlotFree
  <2>6. \A x \in SlotObject : pti'.pid[x] \in {pti.pid[x], NoPid}
    BY <2>2, OnlyStartCollects
  <2> QED BY <1>2, <2>5, <2>6
<1>6. CASE \/ create_channel \/ set_channel_pid
           \/ create_filter_allocate \/ create_filter_associate
           \/ set_filter_get_pid \/ set_filter_set
           \/ enable_filter \/ disable_filter \/ destroy_filter
           \/ start_channel_return
           \/ destroy_channel_stop \/ destroy_channel_free
  <2>1. ~ Starting'
    <3>1. CASE \/ create_channel \/ set_channel_pid \/ enable_filter
               \/ disable_filter \/ destroy_filter
      <4>1. call' = call /\ call.at = "idle"
        BY <3>1 DEF create_channel, set_channel_pid, enable_filter,
                    disable_filter, destroy_filter, clientVars, At
      <4> QED BY <4>1 DEF Starting, Idle, CallAt
    <3>2. CASE \/ create_filter_associate \/ set_filter_set
               \/ start_channel_return \/ destroy_channel_free
      <4>1. call' = Idle
        BY <3>2 DEF create_filter_associate, set_filter_set,
                    start_channel_return, destroy_channel_free, Return
      <4> QED BY <4>1 DEF Starting, Idle, CallAt
    <3>3. CASE \/ create_filter_allocate \/ set_filter_get_pid
               \/ destroy_channel_stop
      <4>1. \E c, f : \/ call' = Idle \/ call' = CallAt("associate", c, f)
                      \/ call' = CallAt("set", c, f)
                      \/ call' = CallAt("free", c, f)
        BY <3>3 DEF create_filter_allocate, set_filter_get_pid,
                    destroy_channel_stop
      <4>2. Idle.at = "idle" /\ \A a, c, f : CallAt(a, c, f).at = a
        BY DEF Idle, CallAt
      <4>3. call'.at \in {"idle", "associate", "set", "free"}
        BY <4>1, <4>2
      <4> QED BY <4>3 DEF Starting
    <3> QED BY <1>6, <3>1, <3>2, <3>3
  <2>2. \E s, f, v, err :
           \/ CH6_Allocate_Section_Slot(s) \/ CH6_Free_Section_Slot(s, err)
           \/ CH6_Set_Slot_Pid(s, v, err) \/ CH6_Stop_Slot(s, err)
           \/ CH6_Allocate_Section_Filter(f) \/ CH6_Free_Section_Filter(f, err)
           \/ CH6_Associate_Slot_Filter(s, f, err) \/ CH6_Set_Filter(f, err)
           \/ CH6_Start_Filter(f, err) \/ CH6_Stop_Filter(f, err)
           \/ UNCHANGED demuxVars
    <3>1. CASE \/ create_channel \/ set_channel_pid \/ create_filter_allocate
               \/ create_filter_associate
      BY <1>6, <3>1
         DEF create_channel, set_channel_pid, create_filter_allocate,
             create_filter_associate
    <3>2. CASE \/ set_filter_set \/ enable_filter \/ disable_filter
               \/ destroy_filter
      BY <3>2 DEF set_filter_set, enable_filter, disable_filter, destroy_filter
    <3>3. CASE \/ set_filter_get_pid \/ start_channel_return
               \/ destroy_channel_stop \/ destroy_channel_free
      BY <3>3 DEF set_filter_get_pid, start_channel_return,
                  destroy_channel_stop, destroy_channel_free
    <3> QED BY <1>6, <3>1, <3>2, <3>3
  <2>3. \A x \in SlotObject : pti'.pid[x] \in {pti.pid[x], NoPid}
    BY <2>2, OnlyStartCollects
  <2> QED BY <1>2, <2>1, <2>3 DEF StartingNoCat
<1> QED BY <1>3, <1>4, <1>5, <1>6 DEF Browser

(* No path of start_channel makes the driver collect the CAT.               *)
THEOREM CatIsLeftAlone == EisSpec => []CatLeftAlone
<1>1. EisInit => CatInv
  <2>1. ASSUME EisInit PROVE CatInv
    BY <2>1, EisDemuxAssumption
       DEF EisInit, DemuxInit, PtiInit, Idle, CallAt, CatInv, StartingNoCat,
           Starting, CatLeftAlone
  <2> QED BY <2>1
<1>2. EisInv /\ DemuxInv /\ CatInv /\ [Browser]_eisVars => CatInv'
  <2>1. CatInv /\ UNCHANGED eisVars => CatInv'
    BY DEF eisVars, CatInv, StartingNoCat, Starting, CatLeftAlone, SlotTaken,
           SlotFree
  <2> QED BY <2>1, CatStep
<1>3. EisInv /\ DemuxInv /\ [Browser]_eisVars => EisInv' /\ DemuxInv'
  BY EisStep
<1>4. CatInv => CatLeftAlone
  BY DEF CatInv
<1> QED BY <1>1, <1>2, <1>3, <1>4, EisInitInv, PTL DEF EisSpec

-----------------------------------------------------------------------------
(* A filter row and a slot row in use, linked in the driver.                 *)
Attached(f, c) ==
    /\ ~ FilterFree(f)
    /\ ~ SlotFree(c)
    /\ Linked(pti, SectionFilter[f].FilterHandle, SectionSlot[c].SlotHandle)

(* A table operation of the browser that frees neither of the two rows.      *)
Spares(f, c) ==
    \/ UNCHANGED demuxVars
    \/ \E s \in SlotArg : CH6_Allocate_Section_Slot(s)
    \/ \E g \in FilterArg : CH6_Allocate_Section_Filter(g)
    \/ \E s \in Slots, v \in Pid : CH6_Set_Slot_Pid(s, v, FALSE)
    \/ \E s, err : CH6_Start_Slot(s, err) \/ CH6_Stop_Slot(s, err)
    \/ \E s, err : s # c /\ CH6_Free_Section_Slot(s, err)
    \/ \E g, err : g # f /\ CH6_Free_Section_Filter(g, err)
    \/ \E s, g, err : CH6_Associate_Slot_Filter(s, g, err)
    \/ \E g, err : \/ CH6_Set_Filter(g, err)
                   \/ CH6_Start_Filter(g, err) \/ CH6_Stop_Filter(g, err)

LEMMA FilterStays ==
    ASSUME DemuxTypeOK, NEW f \in Filters, NEW c, ~ FilterFree(f), Spares(f, c)
    PROVE  /\ ~ FilterFree(f)'
           /\ SectionFilter'[f].FilterHandle = SectionFilter[f].FilterHandle
<1>1. SectionFilter \in [Filters -> FilterRow]
  BY DEF DemuxTypeOK
<1>2. CASE SectionFilter' = SectionFilter
  BY <1>2 DEF FilterFree
<1>3. ASSUME NEW g \in FilterArg, CH6_Allocate_Section_Filter(g)
      PROVE  SectionFilter'[f] = SectionFilter[f]
  BY <1>1, <1>3
     DEF CH6_Allocate_Section_Filter, AllocateFilterFails, AllocateFilterAt,
         IsFirst
<1>4. ASSUME NEW g, NEW err, g # f, CH6_Free_Section_Filter(g, err)
      PROVE  SectionFilter'[f] = SectionFilter[f]
  BY <1>1, <1>4 DEF CH6_Free_Section_Filter, Failed, demuxVars
<1>5. ASSUME NEW s, NEW g, NEW err,
             \/ CH6_Associate_Slot_Filter(s, g, err)
             \/ CH6_Set_Filter(g, err)
             \/ CH6_Start_Filter(g, err) \/ CH6_Stop_Filter(g, err)
      PROVE  /\ ~ FilterFree(f)'
             /\ SectionFilter'[f].FilterHandle = SectionFilter[f].FilterHandle
  <2>1. \/ SectionFilter' = SectionFilter
        \/ \E h : SectionFilter' = [SectionFilter EXCEPT ![g].SlotHandle = h]
        \/ \E t \in {"IN_USE", "DONE"} :
              SectionFilter' = [SectionFilter EXCEPT ![g].FilterStatus = t]
    BY <1>5 DEF CH6_Associate_Slot_Filter, CH6_Set_Filter, CH6_Start_Filter,
                CH6_Stop_Filter, RecordLink, StoppedRow, Failed, demuxVars
  <2> QED BY <1>1, <2>1 DEF FilterRow, FilterFree
<1>6. ASSUME NEW s, NEW v, NEW err,
             \/ CH6_Allocate_Section_Slot(s) \/ CH6_Free_Section_Slot(s, err)
             \/ CH6_Set_Slot_Pid(s, v, err)
             \/ CH6_Start_Slot(s, err) \/ CH6_Stop_Slot(s, err)
             \/ UNCHANGED demuxVars
      PROVE  SectionFilter' = SectionFilter
  BY <1>6 DEF CH6_Allocate_Section_Slot, AllocateSlotFails, AllocateSlotAt,
              CH6_Free_Section_Slot, CH6_Set_Slot_Pid, CH6_Start_Slot,
              CH6_Stop_Slot, Failed, demuxVars
<1>7. SectionFilter'[f] = SectionFilter[f]
        => /\ ~ FilterFree(f)'
           /\ SectionFilter'[f].FilterHandle = SectionFilter[f].FilterHandle
  BY DEF FilterFree
<1> QED BY <1>2, <1>3, <1>4, <1>5, <1>6, <1>7 DEF Spares

LEMMA SlotStays ==
    ASSUME DemuxTypeOK, NEW f, NEW c \in Slots, ~ SlotFree(c), Spares(f, c)
    PROVE  /\ ~ SlotFree(c)'
           /\ SectionSlot'[c].SlotHandle = SectionSlot[c].SlotHandle
<1>1. SectionSlot \in [Slots -> SlotRow]
  BY DEF DemuxTypeOK
<1>2. ASSUME NEW s \in SlotArg, CH6_Allocate_Section_Slot(s)
      PROVE  SectionSlot'[c] = SectionSlot[c]
  BY <1>1, <1>2
     DEF CH6_Allocate_Section_Slot, AllocateSlotFails, AllocateSlotAt, IsFirst,
         FreeSlots
<1>3. ASSUME NEW s, NEW err, s # c, CH6_Free_Section_Slot(s, err)
      PROVE  SectionSlot'[c] = SectionSlot[c]
  BY <1>1, <1>3 DEF CH6_Free_Section_Slot, Failed, demuxVars
<1>4. ASSUME NEW s, NEW g, NEW v, NEW err,
             \/ CH6_Set_Slot_Pid(s, v, err)
             \/ CH6_Free_Section_Filter(g, err)
             \/ CH6_Associate_Slot_Filter(s, g, err)
      PROVE  /\ SectionSlot'[c].SlotStatus = SectionSlot[c].SlotStatus
             /\ SectionSlot'[c].SlotHandle = SectionSlot[c].SlotHandle
  <2>1. \/ SectionSlot' = SectionSlot
        \/ \E r, n : SectionSlot' = [SectionSlot EXCEPT ![r].FilterCount = n]
        \/ \E r, n : SectionSlot' = [SectionSlot EXCEPT ![r].PidValue = n]
    BY <1>4 DEF CH6_Set_Slot_Pid, CH6_Free_Section_Filter,
                CH6_Associate_Slot_Filter, Failed, demuxVars
  <2> QED BY <1>1, <2>1 DEF SlotRow
<1>5. ASSUME NEW s, NEW g, NEW err,
             \/ CH6_Start_Slot(s, err) \/ CH6_Stop_Slot(s, err)
             \/ CH6_Set_Filter(g, err)
             \/ CH6_Start_Filter(g, err) \/ CH6_Stop_Filter(g, err)
             \/ CH6_Allocate_Section_Filter(g) \/ UNCHANGED demuxVars
      PROVE  SectionSlot' = SectionSlot
  BY <1>5 DEF CH6_Start_Slot, CH6_Stop_Slot, CH6_Set_Filter, CH6_Start_Filter,
              CH6_Stop_Filter, CH6_Allocate_Section_Filter, AllocateFilterFails,
              AllocateFilterAt, Failed, demuxVars
<1>6. /\ SectionSlot'[c].SlotStatus = SectionSlot[c].SlotStatus
      /\ SectionSlot'[c].SlotHandle = SectionSlot[c].SlotHandle
  BY <1>2, <1>3, <1>4, <1>5 DEF Spares
<1> QED BY <1>6 DEF SlotFree

LEMMA AttachedStays ==
    ASSUME DemuxInv, NEW f \in Filters, NEW c \in Slots, Attached(f, c),
           Spares(f, c)
    PROVE  Attached(f, c)'
<1> USE DEF DemuxInv
<1> DEFINE fh == SectionFilter[f].FilterHandle
           sh == SectionSlot[c].SlotHandle
<1>1. ~ FilterFree(f) /\ ~ SlotFree(c) /\ <<fh, sh>> \in pti.links
  BY DEF Attached, Linked
<1>2. /\ ~ FilterFree(f)' /\ SectionFilter'[f].FilterHandle = fh
      /\ ~ SlotFree(c)' /\ SectionSlot'[c].SlotHandle = sh
  BY <1>1, FilterStays, SlotStays
<1>3. /\ fh \in pti.filters /\ sh \in pti.slots
      /\ fh \in FilterObject /\ sh \in SlotObject
      /\ pti \in PtiState
  BY <1>1, NamedObjects DEF DemuxTypeOK, PtiState
<1>4. UNCHANGED demuxVars => pti'.links = pti.links
  BY DEF demuxVars
<1>5. ASSUME AllocateSlotFails \/ AllocateFilterFails
      PROVE  <<fh, sh>> \in pti'.links
  <2>1. <<fh, sh>>[1] = fh /\ <<fh, sh>>[2] = sh
    OBVIOUS
  <2> QED BY <1>1, <1>3, <1>5, <2>1, FailedAllocation
<1>6. ASSUME NEW s, NEW g, AllocateSlotAt(s) \/ AllocateFilterAt(g)
      PROVE  pti'.links = pti.links
  BY <1>3, <1>6
     DEF AllocateSlotAt, AllocateFilterAt, PtiState, BufferAllocate,
         SlotAllocate, FilterAllocate
<1>7. ASSUME NEW s, NEW v, NEW err,
             \/ CH6_Set_Slot_Pid(s, v, err)
             \/ CH6_Start_Slot(s, err) \/ CH6_Stop_Slot(s, err)
      PROVE  pti'.links = pti.links
  <2>1. \/ pti' = pti
        \/ \E h, u : pti' = SlotSetPid(pti, h, u) \/ pti' = SlotClearPid(pti, h)
    BY <1>7
       DEF CH6_Set_Slot_Pid, CH6_Start_Slot, CH6_Stop_Slot, Failed, demuxVars
  <2>2. \A h, u : /\ SlotSetPid(pti, h, u).links = pti.links
                  /\ SlotClearPid(pti, h).links = pti.links
    BY <1>3 DEF PtiState, SlotSetPid, SlotClearPid
  <2> QED BY <2>1, <2>2
<1>8. ASSUME NEW s, NEW err, s # c, CH6_Free_Section_Slot(s, err)
      PROVE  <<fh, sh>> \in pti'.links
  <2> DEFINE h == SectionSlot[s].SlotHandle
             b == SectionSlot[s].BufferHandle
  <2>1. CASE UNCHANGED demuxVars
    BY <1>1, <2>1 DEF demuxVars
  <2>2. CASE SlotTaken(s) /\ pti' = SlotDeallocate(BufferDeallocate(pti, b), h)
    <3>1. h \in SlotObject /\ b \in BufferObject /\ s \in Slots
      BY <2>2, TakenRows
    <3>2. <<fh, sh>>[2] # h
      BY <1>1, <1>8, <3>1, NamedObjects
    <3>3. pti'.links = {l \in pti.links : l[2] # h}
      <4> HIDE DEF h, b
      <4>1. NoPid \in Pid \cup {NoPid}
        OBVIOUS
      <4>2. SlotDeallocate(BufferDeallocate(pti, b), h).links
              = {l \in pti.links : l[2] # h}
        BY <1>3, <3>1, <4>1, SlotCalls
      <4> QED BY <2>2, <4>2
    <3> QED BY <1>1, <3>2, <3>3
  <2> QED BY <1>8, <2>1, <2>2 DEF CH6_Free_Section_Slot, Failed
<1>9. ASSUME NEW g, NEW err, g # f, CH6_Free_Section_Filter(g, err)
      PROVE  <<fh, sh>> \in pti'.links
  <2> DEFINE h == SectionFilter[g].FilterHandle
             k == SectionFilter[g].SlotHandle
  <2>1. CASE UNCHANGED demuxVars
    BY <1>1, <2>1 DEF demuxVars
  <2>2. CASE /\ FilterTaken(g)
             /\ pti' = FilterDeallocate(FilterDisassociate(pti, h, k), h)
    <3>1. h \in FilterObject /\ g \in Filters
      BY <2>2, TakenRows
    <3>2. <<fh, sh>>[1] # h
      BY <1>1, <1>9, <3>1, NamedObjects
    <3>3. pti'.links = {l \in pti.links : l[1] # h}
      BY <1>3, <2>2, <3>1, FilterCalls
    <3> QED BY <1>1, <3>2, <3>3
  <2> QED BY <1>9, <2>1, <2>2 DEF CH6_Free_Section_Filter, Failed
<1>10. ASSUME NEW s, NEW g, NEW err, CH6_Associate_Slot_Filter(s, g, err)
       PROVE  pti.links \subseteq pti'.links
  <2>1. CASE UNCHANGED demuxVars
    BY <2>1 DEF demuxVars
  <2>2. ASSUME NEW x, NEW y,
               pti' = FilterDisable(FilterAssociate(pti, x, y), x)
        PROVE  pti'.links = pti.links \cup {<<x, y>>}
    BY <1>3, <2>2 DEF FilterDisable, FilterAssociate, PtiState
  <2> QED BY <1>10, <2>1, <2>2 DEF CH6_Associate_Slot_Filter, Failed
<1>11. ASSUME NEW g, NEW err,
              \/ CH6_Set_Filter(g, err)
              \/ CH6_Start_Filter(g, err) \/ CH6_Stop_Filter(g, err)
       PROVE  pti'.links = pti.links
  BY <1>3, <1>11
     DEF CH6_Set_Filter, CH6_Start_Filter, CH6_Stop_Filter, Failed, demuxVars,
         PtiState, FilterEnable, FilterDisable
<1>12. <<fh, sh>> \in pti'.links
  BY <1>1, <1>4, <1>5, <1>6, <1>7, <1>8, <1>9, <1>10, <1>11
     DEF Spares, CH6_Allocate_Section_Slot, CH6_Allocate_Section_Filter
<1> QED BY <1>2, <1>12 DEF Attached, Linked

(* A linked filter and slot are in use, and the filter's row says the slot. *)
LEMMA LinkedIsAttached ==
    ASSUME DemuxInv, NEW f \in Filters, NEW s \in Slots,
           Linked(pti, SectionFilter[f].FilterHandle, SectionSlot[s].SlotHandle)
    PROVE  /\ Attached(f, s)
           /\ SectionFilter[f].SlotHandle = SectionSlot[s].SlotHandle
<1> USE DEF DemuxInv
<1> DEFINE fh == SectionFilter[f].FilterHandle
           sh == SectionSlot[s].SlotHandle
<1>1. <<fh, sh>> \in pti.links /\ <<fh, sh>>[1] = fh /\ <<fh, sh>>[2] = sh
  BY DEF Linked
<1>2. fh \in FilterObject /\ sh \in SlotObject
  BY <1>1 DEF DemuxTypeOK, PtiState
<1>3. ~ FilterFree(f) /\ ~ SlotFree(s)
  BY <1>2, PtiAssumption DEF StatusMatchesHandle
<1>4. PICK g \in Filters : /\ SectionFilter[g].FilterHandle = fh
                           /\ SectionFilter[g].SlotHandle = sh
  BY <1>1 DEF LinksRecorded
<1>5. g = f
  BY <1>3, <1>4, NamedObjects
<1> QED BY <1>3, <1>4, <1>5 DEF Attached

(* The channels are the slots in use, the browser's filters are in use and   *)
(* those on a channel are attached to it.                                   *)
HeldInv ==
    /\ ChannelsAreSlots
    /\ At("free") => call.ch \in Slots \ channels
    /\ \A f \in Filters :
          /\ channelOf[f] # NoFilter => ~ FilterFree(f)
          /\ \A c \in Slots : channelOf[f] = c => Attached(f, c)

(* A step that does not destroy filter f or channel c frees neither's row.  *)
LEMMA BrowserSpares ==
    ASSUME EisInv, Browser, NEW f, NEW c,
           destroy_filter => channelOf'[f] # NoFilter,
           destroy_channel_free => call.ch # c
    PROVE  Spares(f, c)
<1>1. /\ channels \subseteq Slots /\ BrowserFilters \subseteq Filters
      /\ channelOf \in [Filters -> Slots \cup {NoFilter, Orphan}]
  BY DEF EisInv, EisTypeOK, BrowserFilters
<1>2. CASE create_channel \/ create_filter_allocate
  BY <1>2 DEF create_channel, create_filter_allocate, Spares
<1>3. CASE set_channel_pid
  BY <1>1, <1>3, EisDemuxAssumption DEF set_channel_pid, Spares
<1>4. CASE create_filter_associate
  BY <1>4 DEF create_filter_associate, Spares
<1>5. CASE set_filter_set \/ enable_filter \/ disable_filter
  BY <1>5 DEF set_filter_set, enable_filter, disable_filter, Spares
<1>6. CASE destroy_filter
  <2>1. PICK g \in BrowserFilters :
           /\ CH6_Free_Section_Filter(g, FALSE)
           /\ channelOf' = [channelOf EXCEPT ![g] = NoFilter]
    BY <1>6 DEF destroy_filter
  <2>2. g # f
    BY <1>1, <1>6, <2>1
  <2> QED BY <2>1, <2>2 DEF Spares
<1>7. CASE \/ start_channel_start \/ start_channel_stop_other
           \/ start_channel_start_again \/ destroy_channel_stop
  BY <1>7 DEF start_channel_start, start_channel_stop_other,
              start_channel_start_again, destroy_channel_stop, Spares
<1>8. CASE destroy_channel_free
  BY <1>8 DEF destroy_channel_free, SlotToFree, Spares
<1>9. CASE \/ set_filter_get_pid \/ start_channel
           \/ start_channel_find_other \/ start_channel_return
  BY <1>9 DEF set_filter_get_pid, start_channel, start_channel_find_other,
              start_channel_return, Spares
<1> QED
  BY <1>2, <1>3, <1>4, <1>5, <1>6, <1>7, <1>8, <1>9 DEF Browser

(* An association that succeeds leaves the two rows attached.               *)
LEMMA AssociationAttaches ==
    ASSUME DemuxInv, NEW s, NEW f, CH6_Associate_Slot_Filter(s, f, FALSE)
    PROVE  f \in Filters /\ s \in Slots /\ Attached(f, s)'
<1> USE DEF DemuxInv
<1> DEFINE fh == SectionFilter[f].FilterHandle
           sh == SectionSlot[s].SlotHandle
<1>1. /\ f \in Filters /\ ~ FilterFree(f) /\ s \in Slots /\ ~ SlotFree(s)
      /\ pti' = FilterDisable(FilterAssociate(pti, fh, sh), fh)
  BY DEF CH6_Associate_Slot_Filter, BothUsable, FilterUsable, FilterTaken,
         SlotTaken, Failed
<1>2. \A c : Spares(f, c)
  BY DEF Spares
<1>3. /\ ~ FilterFree(f)' /\ SectionFilter'[f].FilterHandle = fh
      /\ ~ SlotFree(s)' /\ SectionSlot'[s].SlotHandle = sh
  BY <1>1, <1>2, FilterStays, SlotStays
<1>4. pti \in PtiState
  BY DEF DemuxTypeOK
<1>5. pti'.links = pti.links \cup {<<fh, sh>>}
  <2> HIDE DEF fh, sh
  <2> QED BY <1>1, <1>4 DEF FilterDisable, FilterAssociate, PtiState
<1> QED BY <1>1, <1>3, <1>5 DEF Attached, Linked

(* Each step keeps the browser's filters in use and attached.               *)
LEMMA FiltersKept ==
    ASSUME EisInv, DemuxInv, HeldInv, Browser, NEW f \in Filters,
           channelOf'[f] # NoFilter
    PROVE  /\ ~ FilterFree(f)'
           /\ \A c \in Slots : channelOf'[f] = c => Attached(f, c)'
<1>1. /\ channelOf \in [Filters -> Slots \cup {NoFilter, Orphan}]
      /\ DemuxTypeOK
      /\ channelOf[f] # NoFilter => ~ FilterFree(f)
      /\ \A c \in Slots : channelOf[f] = c => Attached(f, c)
  BY DEF EisInv, EisTypeOK, HeldInv, DemuxInv
<1>2. ASSUME channelOf[f] # NoFilter, NEW d, Spares(f, d)
      PROVE  ~ FilterFree(f)'
  BY <1>1, <1>2, FilterStays
<1>3. ASSUME NEW c \in Slots, channelOf[f] = c, Spares(f, c)
      PROVE  Attached(f, c)'
  BY <1>1, <1>3, AttachedStays
<1>4. CASE create_filter_associate
  <2>1. PICK err \in BOOLEAN :
           /\ CH6_Associate_Slot_Filter(call.ch, call.fl, err)
           /\ channelOf' = [channelOf EXCEPT ![call.fl] = CreatedOn(call.ch, err)]
    BY <1>4 DEF create_filter_associate, CreatedFilter
  <2>2. CASE f = call.fl
    <3>1. err = FALSE /\ channelOf'[f] = call.ch
      BY <1>1, <2>1, <2>2 DEF CreatedOn
    <3>2. PICK d : d = call.ch
      OBVIOUS
    <3>3. CH6_Associate_Slot_Filter(d, f, FALSE)
      BY <2>1, <2>2, <3>1, <3>2
    <3>4. Attached(f, d)'
      BY <3>3, AssociationAttaches
    <3>5. ~ FilterFree(f)'
      BY <3>4 DEF Attached
    <3> QED BY <3>1, <3>2, <3>4, <3>5
  <2>3. CASE f # call.fl
    <3>1. channelOf'[f] = channelOf[f]
      BY <1>1, <2>1, <2>3
    <3>2. \A c : Spares(f, c)
      BY <2>1 DEF Spares
    <3> QED BY <1>2, <1>3, <3>1, <3>2
  <2> QED BY <2>2, <2>3
<1>5. CASE destroy_channel_free
  <2>1. channelOf'[f] = IF channelOf[f] = call.ch THEN Orphan ELSE channelOf[f]
    BY <1>5 DEF destroy_channel_free
  <2>2. call.ch \in Slots
    BY <1>5 DEF destroy_channel_free, HeldInv
  <2>3. \A c : c # call.ch => Spares(f, c)
    BY <1>5 DEF destroy_channel_free, SlotToFree, Spares
  <2>4. Orphan \notin Slots /\ None \notin Slots
    BY DEF Orphan, None, Slots
  <2>5. channelOf[f] # NoFilter
    BY <1>1, <2>1, <2>2
       DEF NoFilter, Slots
  <2>6. ~ FilterFree(f)'
    BY <1>2, <2>2, <2>3, <2>4, <2>5
  <2>7. ASSUME NEW c \in Slots, channelOf'[f] = c
        PROVE  Attached(f, c)'
    <3>1. channelOf[f] = c /\ c # call.ch
      BY <2>1, <2>4, <2>7
    <3> QED BY <1>3, <2>3, <3>1
  <2> QED BY <2>6, <2>7
<1>6. CASE ~ create_filter_associate /\ ~ destroy_channel_free
  <2>1. \A c : Spares(f, c)
    BY <1>6, BrowserSpares
  <2>2. channelOf'[f] = channelOf[f]
    <3>1. CASE destroy_filter
      BY <1>1, <3>1 DEF destroy_filter
    <3>2. CASE \/ create_channel \/ set_channel_pid \/ create_filter_allocate
               \/ set_filter_get_pid \/ set_filter_set
               \/ enable_filter \/ disable_filter
      BY <3>2 DEF create_channel, set_channel_pid, create_filter_allocate,
                  set_filter_get_pid, set_filter_set, enable_filter,
                  disable_filter, clientVars
    <3>3. CASE \/ start_channel \/ start_channel_start \/ start_channel_find_other
               \/ start_channel_stop_other \/ start_channel_start_again
               \/ start_channel_return \/ destroy_channel_stop
      BY <3>3 DEF start_channel, start_channel_start, start_channel_find_other,
                  start_channel_stop_other, start_channel_start_again,
                  start_channel_return, destroy_channel_stop
    <3> QED BY <1>6, <3>1, <3>2, <3>3 DEF Browser
  <2> QED BY <1>2, <1>3, <2>1, <2>2
<1> QED BY <1>4, <1>5, <1>6

(* Each step keeps the channels and the slots in use the same.              *)
LEMMA ChannelsKept ==
    ASSUME EisInv, DemuxInv, HeldInv, Browser
    PROVE  ChannelsAreSlots' /\ (At("free")' => call'.ch \in Slots \ channels')
<1>1. /\ channels \subseteq Slots /\ call \in Call /\ DemuxTypeOK
      /\ {s \in Slots : ~ SlotFree(s)} =
            channels \cup IF At("free") THEN {call.ch} ELSE {}
      /\ At("free") => call.ch \in Slots \ channels
      /\ SectionSlot \in [Slots -> SlotRow]
  BY DEF EisInv, EisTypeOK, HeldInv, ChannelsAreSlots, DemuxInv, DemuxTypeOK
<1>2. Idle.at = "idle" /\ \A a, c, f : /\ CallAt(a, c, f).at = a
                                       /\ CallAt(a, c, f).ch = c
  BY DEF Idle, CallAt
<1>3. CASE create_channel
  <2>1. PICK c \in SlotArg :
           /\ CH6_Allocate_Section_Slot(c)
           /\ channels' = IF c = None THEN channels ELSE channels \cup {c}
    BY <1>3 DEF create_channel
  <2>2. call' = call /\ ~ At("free") /\ ~ At("free")'
    BY <1>3 DEF create_channel, At
  <2>3. CASE c = None
    <3>1. SectionSlot' = SectionSlot
      BY <2>1, <2>3
         DEF CH6_Allocate_Section_Slot, AllocateSlotFails, Slots, None
    <3> QED BY <1>1, <2>1, <2>2, <2>3, <3>1 DEF ChannelsAreSlots, SlotFree
  <2>4. CASE c # None
    <3>1. c \in Slots /\ AllocateSlotAt(c)
      BY <2>1, <2>4 DEF CH6_Allocate_Section_Slot
    <3>2. \A s \in Slots : SlotFree(s)' <=> SlotFree(s) /\ s # c
      BY <1>1, <3>1 DEF AllocateSlotAt, SlotFree
    <3> QED BY <1>1, <2>1, <2>2, <2>4, <3>1, <3>2 DEF ChannelsAreSlots
  <2> QED BY <2>3, <2>4
<1>4. CASE destroy_channel_free
  <2>1. SlotTaken(call.ch) /\ At("free") /\ ~ At("free")' /\ channels' = channels
    BY <1>1, <1>2, <1>4 DEF destroy_channel_free, SlotTaken, Return, At
  <2>2. SectionSlot' = [SectionSlot EXCEPT ![call.ch] = FreeSlotRow]
    BY <1>4, <2>1
       DEF destroy_channel_free, SlotToFree, CH6_Free_Section_Slot
  <2>3. \A s \in Slots : SlotFree(s)' <=> SlotFree(s) \/ s = call.ch
    BY <1>1, <2>1, <2>2 DEF SlotFree, FreeSlotRow, SlotTaken
  <2> QED BY <1>1, <2>1, <2>3 DEF ChannelsAreSlots
<1>5. CASE ~ create_channel /\ ~ destroy_channel_free
  <2>1. \A s \in Slots : SlotFree(s)' <=> SlotFree(s)
    <3>1. \/ SectionSlot' = SectionSlot
          \/ \E r, n : SectionSlot' = [SectionSlot EXCEPT ![r].FilterCount = n]
          \/ \E r, n : SectionSlot' = [SectionSlot EXCEPT ![r].PidValue = n]
      <4>1. CASE set_channel_pid
        BY <4>1 DEF set_channel_pid, CH6_Set_Slot_Pid, Failed, demuxVars
      <4>2. CASE create_filter_associate \/ destroy_filter
        BY <4>2 DEF create_filter_associate, destroy_filter,
                    CH6_Associate_Slot_Filter, CH6_Free_Section_Filter, Failed,
                    demuxVars
      <4>3. CASE \/ create_filter_allocate \/ set_filter_get_pid
                 \/ set_filter_set \/ enable_filter \/ disable_filter
        BY <4>3 DEF create_filter_allocate, set_filter_get_pid, set_filter_set,
                    enable_filter, disable_filter, CH6_Allocate_Section_Filter,
                    AllocateFilterFails, AllocateFilterAt, CH6_Set_Filter,
                    CH6_Start_Filter, CH6_Stop_Filter, Failed, demuxVars
      <4>4. CASE \/ start_channel \/ start_channel_start
                 \/ start_channel_find_other \/ start_channel_stop_other
                 \/ start_channel_start_again \/ start_channel_return
                 \/ destroy_channel_stop
        BY <4>4 DEF start_channel, start_channel_start, start_channel_find_other,
                    start_channel_stop_other, start_channel_start_again,
                    start_channel_return, destroy_channel_stop, CH6_Start_Slot,
                    CH6_Stop_Slot, Failed, demuxVars
      <4> QED BY <1>5, <4>1, <4>2, <4>3, <4>4 DEF Browser
    <3> QED BY <1>1, <3>1 DEF SlotFree, SlotRow
  <2>2. CASE destroy_channel_stop
    <3>1. PICK c \in channels : call' = CallAt("free", c, None)
                                /\ channels' = channels \ {c}
      BY <2>2 DEF destroy_channel_stop
    <3>2. ~ At("free")
      BY <2>2 DEF destroy_channel_stop, At
    <3> QED BY <1>1, <1>2, <2>1, <3>1, <3>2 DEF ChannelsAreSlots, At
  <2>3. CASE ~ destroy_channel_stop
    <3>1. channels' = channels /\ call.at # "free" /\ call'.at # "free"
      <4>1. CASE \/ set_channel_pid \/ enable_filter \/ disable_filter
                 \/ destroy_filter
        BY <4>1 DEF set_channel_pid, enable_filter, disable_filter,
                    destroy_filter, clientVars, At
      <4>2. CASE create_filter_associate \/ set_filter_set \/ start_channel_return
        BY <1>2, <4>2 DEF create_filter_associate, set_filter_set,
                          start_channel_return, Return, At
      <4>3. CASE create_filter_allocate \/ set_filter_get_pid
        BY <1>2, <4>3 DEF create_filter_allocate, set_filter_get_pid, At
      <4>4. CASE \/ start_channel \/ start_channel_start
                 \/ start_channel_find_other \/ start_channel_stop_other
                 \/ start_channel_start_again
        <5>1. channels' = channels /\ call.at # "free"
          BY <4>4 DEF start_channel, start_channel_start,
                      start_channel_find_other, start_channel_stop_other,
                      start_channel_start_again, At
        <5>2. \/ \E c : \/ call' = CallAt("start", c, None)
                        \/ call' = CallAt("started", c, None)
              \/ call' = [call EXCEPT !.at = "find other"]
              \/ call' = [call EXCEPT !.at = "start again"]
              \/ \E o : call' = [call EXCEPT !.at = "stop other", !.other = o]
          BY <4>4 DEF start_channel, start_channel_start,
                      start_channel_find_other, start_channel_stop_other,
                      start_channel_start_again, StartOk, Goto
        <5>3. ASSUME NEW o, call' = [call EXCEPT !.at = "stop other", !.other = o]
              PROVE  call'.at # "free"
          <6>1. call'.at = "stop other"
            BY <1>1, <5>3, CallMoves
          <6> QED BY <6>1
        <5>4. call'.at # "free"
          <6>1. CASE \/ call' = [call EXCEPT !.at = "find other"]
                     \/ call' = [call EXCEPT !.at = "start again"]
            <7>1. call'.at = "find other" \/ call'.at = "start again"
              BY <1>1, <6>1, CallMoves
            <7> QED BY <7>1
          <6>2. CASE \E c : \/ call' = CallAt("start", c, None)
                            \/ call' = CallAt("started", c, None)
            <7>1. call'.at = "start" \/ call'.at = "started"
              BY <1>2, <6>2
            <7> QED BY <7>1
          <6> QED BY <5>2, <5>3, <6>1, <6>2
        <5> QED BY <5>1, <5>4
      <4> QED BY <1>5, <2>3, <4>1, <4>2, <4>3, <4>4 DEF Browser
    <3>2. ~ At("free") /\ ~ At("free")'
      BY <3>1 DEF At
    <3> QED BY <1>1, <2>1, <3>1, <3>2 DEF ChannelsAreSlots
  <2> QED BY <2>2, <2>3
<1> QED BY <1>3, <1>4, <1>5

LEMMA HeldStep ==
    ASSUME EisInv, DemuxInv, HeldInv, [Browser]_eisVars
    PROVE  HeldInv'
<1>1. CASE Browser
  <2>1. \A f \in Filters : channelOf'[f] # NoFilter =>
           /\ ~ FilterFree(f)'
           /\ \A c \in Slots : channelOf'[f] = c => Attached(f, c)'
    BY <1>1, FiltersKept
  <2>2. \A c \in Slots : c # NoFilter
    BY DEF Slots, NoFilter
  <2> QED BY <1>1, <2>1, <2>2, ChannelsKept DEF HeldInv
<1>2. CASE UNCHANGED eisVars
  BY <1>2 DEF eisVars, HeldInv, ChannelsAreSlots, At, Attached, Linked,
              SlotFree, FilterFree
<1> QED BY <1>1, <1>2

LEMMA HeldInitInv == EisInit => HeldInv
<1> SUFFICES ASSUME EisInit PROVE HeldInv
  OBVIOUS
<1>1. \A c \in Slots : c # NoFilter
  BY DEF Slots, NoFilter
<1>2. call.at # "free" /\ \A s \in Slots : SlotFree(s)
  BY DEF EisInit, DemuxInit, SlotFree, FreeSlotRow, Idle, CallAt
<1> QED BY <1>1, <1>2 DEF EisInit, HeldInv, ChannelsAreSlots, At

LEMMA HeldInvariant == EisSpec => [](HeldInv /\ EisInv /\ DemuxInv)
<1>1. HeldInv /\ EisInv /\ DemuxInv /\ [Browser]_eisVars
        => HeldInv' /\ EisInv' /\ DemuxInv'
  BY HeldStep, EisStep
<1> QED BY <1>1, HeldInitInv, EisInitInv, PTL DEF EisSpec

(* The slots in use are the channels the browser holds: none is lost and    *)
(* none is freed under it.                                                  *)
THEOREM ChannelsHeld == EisSpec => []ChannelsAreSlots
<1>1. HeldInv => ChannelsAreSlots
  BY DEF HeldInv
<1> QED BY <1>1, HeldInvariant, PTL

(* A filter stays attached in the driver to the channel it was created on   *)
(* until one of the two is destroyed.                                       *)
THEOREM FiltersStayAttached == EisSpec => []FiltersAttached
<1>1. HeldInv => FiltersAttached
  BY DEF HeldInv, Attached, FiltersAttached
<1> QED BY <1>1, HeldInvariant, PTL
=============================================================================
