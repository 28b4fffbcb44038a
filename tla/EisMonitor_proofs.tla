------------------------- MODULE EisMonitor_proofs -------------------------
(***************************************************************************)
(* The monitor thread reads the tables without their lock, one row at a     *)
(* time, and still delivers a section to its owner: the rows it is looking  *)
(* for do not move while neither the filter nor its channel is destroyed.   *)
(***************************************************************************)
EXTENDS EisMonitor, EisDemux_proofs

(* The section being handled has an owner.  Before the filter's row is      *)
(* found, its handle is the section's; after, the scan of the slots has not *)
(* passed the channel's row.                                                *)
OwnerFound ==
    monitor.src # None =>
        /\ monitor.src \in Filters
        /\ channelOf[monitor.src] \in channels
        /\ \/ /\ monitor.at = "filter"
              /\ SectionFilter[monitor.src].FilterHandle = monitor.fh
           \/ /\ monitor.at = "slot"
              /\ monitor.fl = monitor.src
              /\ monitor.row <= channelOf[monitor.src]

(* Neither scan leaves its table.                                           *)
Scanning == /\ monitor.at = "filter" => monitor.row \in Filters
            /\ monitor.at = "slot" => monitor.row \in Slots /\ monitor.fl \in Filters

TablesInv == HeldInv /\ EisInv /\ DemuxInv

MonitorIInv == TablesInv /\ MonitorTypeOK /\ Scanning /\ OwnerFound

MonitorState == [at : {"wait", "filter", "slot"},
                 fh : FilterObject \cup {NoHandle},
                 fl : FilterArg, row : Slots \cup Filters, src : FilterArg]

-----------------------------------------------------------------------------
(* A filter of the browser's on a living channel has its slot's handle, and *)
(* no other row has either handle.                                          *)
LEMMA OwnersRows ==
    ASSUME TablesInv, NEW f \in Filters, channelOf[f] \in channels
    PROVE  /\ channelOf[f] \in Slots /\ ~ FilterFree(f)
           /\ \A g \in Filters : SectionFilter[g].FilterHandle
                                   = SectionFilter[f].FilterHandle => g = f
           /\ \A s \in Slots : SectionSlot[s].SlotHandle = SectionFilter[f].SlotHandle
                                 <=> s = channelOf[f]
<1>1. channelOf[f] \in Slots /\ channels \subseteq Slots
  BY DEF TablesInv, EisInv, EisTypeOK
<1>2. PICK c \in Slots : c = channelOf[f]
  BY <1>1
<1>3. Attached(f, c)
  BY <1>2 DEF TablesInv, HeldInv
<1>4. /\ ~ FilterFree(f) /\ ~ SlotFree(c)
      /\ SectionFilter[f].SlotHandle = SectionSlot[c].SlotHandle
  BY <1>3, LinkedIsAttached DEF Attached, TablesInv
<1> QED BY <1>2, <1>4, NamedObjects DEF TablesInv

(* The four ways the thread's locals change, from m to k.                   *)
RowAt(m, i, k)       == k = [m EXCEPT !.row = i]
FilterFound(m, g, k) == k = [m EXCEPT !.at = "slot", !.fl = g, !.row = 0]
SectionOf(h, f, k)   == k = [Wait EXCEPT !.at = "filter", !.fh = h, !.src = f]
SourceIs(m, f, k)    == k = [m EXCEPT !.src = f]

LEMMA Locals ==
    /\ Wait \in MonitorState /\ Wait.at = "wait" /\ Wait.src = None
    /\ \A m \in MonitorState, i \in Slots \cup Filters : \A k : RowAt(m, i, k) =>
          /\ k \in MonitorState /\ k.at = m.at /\ k.fh = m.fh /\ k.fl = m.fl
          /\ k.row = i /\ k.src = m.src
    /\ \A m \in MonitorState, g \in Filters : \A k : FilterFound(m, g, k) =>
          /\ k \in MonitorState /\ k.at = "slot" /\ k.fl = g /\ k.row = 0
          /\ k.src = m.src
    /\ \A h \in FilterObject, f \in FilterArg : \A k : SectionOf(h, f, k) =>
          /\ k \in MonitorState /\ k.at = "filter" /\ k.fh = h /\ k.row = 0
          /\ k.src = f
    /\ \A m \in MonitorState, f \in FilterArg : \A k : SourceIs(m, f, k) =>
          /\ k \in MonitorState /\ k.at = m.at /\ k.fl = m.fl /\ k.row = m.row
          /\ k.fh = m.fh /\ k.src = f
    /\ 0 \in Slots /\ 0 \in Filters /\ None \in FilterArg
<1>1. 0 \in Slots /\ 0 \in Filters /\ None \in FilterArg
  BY ChDemuxAssumption DEF Slots, Filters, FilterArg
<1>2. /\ Wait \in MonitorState /\ Wait.at = "wait" /\ Wait.src = None
  BY <1>1 DEF MonitorState, Wait
<1>3. ASSUME NEW m \in MonitorState, NEW i \in Slots \cup Filters, NEW k,
             RowAt(m, i, k)
      PROVE  /\ k \in MonitorState /\ k.at = m.at /\ k.fh = m.fh /\ k.fl = m.fl
             /\ k.row = i /\ k.src = m.src
  BY <1>3 DEF RowAt, MonitorState
<1>4. ASSUME NEW m \in MonitorState, NEW g \in Filters, NEW k,
             FilterFound(m, g, k)
      PROVE  /\ k \in MonitorState /\ k.at = "slot" /\ k.fl = g /\ k.row = 0
             /\ k.src = m.src
  BY <1>1, <1>4 DEF FilterFound, MonitorState, FilterArg
<1>5. ASSUME NEW h \in FilterObject, NEW f \in FilterArg, NEW k,
             SectionOf(h, f, k)
      PROVE  /\ k \in MonitorState /\ k.at = "filter" /\ k.fh = h /\ k.row = 0
             /\ k.src = f
  BY <1>1, <1>5 DEF SectionOf, Wait, MonitorState
<1>6. ASSUME NEW m \in MonitorState, NEW f \in FilterArg, NEW k,
             SourceIs(m, f, k)
      PROVE  /\ k \in MonitorState /\ k.at = m.at /\ k.fl = m.fl /\ k.row = m.row
             /\ k.fh = m.fh /\ k.src = f
  BY <1>6 DEF SourceIs, MonitorState
<1> QED BY <1>1, <1>2, <1>3, <1>4, <1>5, <1>6

LEMMA TypedRecord ==
    /\ MonitorTypeOK => /\ captured \in SUBSET (FilterObject \X SlotObject)
                        /\ monitor \in MonitorState
    /\ captured \in SUBSET (FilterObject \X SlotObject) /\ monitor \in MonitorState
          => MonitorTypeOK
    /\ captured' \in SUBSET (FilterObject \X SlotObject) /\ monitor' \in MonitorState
          => MonitorTypeOK'
BY DEF MonitorTypeOK, MonitorState

-----------------------------------------------------------------------------
(* The tables' invariants do not mention the monitor.                       *)
LEMMA TablesKept ==
    ASSUME TablesInv, [MonitorNext]_monitorVars
    PROVE  TablesInv'
<1>1. [Browser]_eisVars
  BY DEF MonitorNext, BrowserStep, Capture, ReadSection, FindFilter, FindSlot,
         Callback, monitorVars, eisVars
<1> QED BY <1>1, EisStep, HeldStep DEF TablesInv

(* While the owner and its channel live, the browser leaves the rows alone. *)
LEMMA BrowserLeavesOwner ==
    ASSUME MonitorIInv, BrowserStep
    PROVE  MonitorTypeOK' /\ Scanning' /\ OwnerFound'
<1>1. /\ Browser /\ monitor \in MonitorState
      /\ monitor' = [monitor EXCEPT !.src =
                       IF Undisturbed(monitor.src) THEN monitor.src ELSE None]
      /\ captured' \in SUBSET (FilterObject \X SlotObject)
  BY TypedRecord DEF BrowserStep, MonitorIInv
<1>2. PICK o \in FilterArg :
         /\ o = IF Undisturbed(monitor.src) THEN monitor.src ELSE None
         /\ SourceIs(monitor, o, monitor')
  BY <1>1, Locals DEF MonitorState, SourceIs
<1>3. /\ monitor' \in MonitorState /\ monitor'.at = monitor.at
      /\ monitor'.fl = monitor.fl /\ monitor'.row = monitor.row
      /\ monitor'.fh = monitor.fh /\ monitor'.src = o
  BY <1>1, <1>2, Locals
<1>4. MonitorTypeOK' /\ Scanning'
  <2>1. MonitorTypeOK'
    BY <1>1, <1>3, TypedRecord
  <2>2. Scanning'
    BY <1>3 DEF MonitorIInv, Scanning
  <2> QED BY <2>1, <2>2
<1>5. CASE o = None
  BY <1>3, <1>4, <1>5 DEF OwnerFound
<1>6. CASE o # None
  <2>1. Undisturbed(monitor.src) /\ o = monitor.src
    BY <1>2, <1>6
  <2>2. PICK f \in Filters : f = monitor.src
    BY <2>1 DEF Undisturbed
  <2>3. /\ channelOf[f] \in channels /\ channelOf'[f] = channelOf[f]
        /\ channelOf'[f] \in channels'
    BY <1>6, <2>1, <2>2 DEF MonitorIInv, OwnerFound, Undisturbed
  <2>4. channelOf[f] \in Slots /\ ~ FilterFree(f)
    BY <2>3, OwnersRows DEF MonitorIInv
  <2>5. channelOf'[f] # NoFilter
    BY <2>3, <2>4 DEF NoFilter, Slots
  <2>6. destroy_channel_free => call.ch # channelOf[f]
    BY <2>3 DEF destroy_channel_free, MonitorIInv, TablesInv, HeldInv
  <2>7. Spares(f, channelOf[f])
    BY <1>1, <2>5, <2>6, BrowserSpares DEF MonitorIInv, TablesInv
  <2>8. SectionFilter'[f].FilterHandle = SectionFilter[f].FilterHandle
    BY <2>4, <2>7, FilterStays DEF MonitorIInv, TablesInv, DemuxInv
  <2>9. \/ monitor.at = "filter" /\ SectionFilter[f].FilterHandle = monitor.fh
        \/ monitor.at = "slot" /\ monitor.fl = f /\ monitor.row <= channelOf[f]
    BY <1>6, <2>1, <2>2 DEF OwnerFound, MonitorIInv
  <2>10. OwnerFound'
    BY <1>3, <2>1, <2>2, <2>3, <2>8, <2>9 DEF OwnerFound
  <2> QED BY <1>4, <2>10
<1> QED BY <1>5, <1>6

LEMMA CaptureKeeps ==
    ASSUME MonitorIInv, Capture
    PROVE  MonitorTypeOK' /\ Scanning' /\ OwnerFound'
<1>1. /\ monitor' = monitor /\ channelOf' = channelOf /\ channels' = channels
      /\ SectionFilter' = SectionFilter
  BY DEF Capture, eisVars
<1>2. captured' \subseteq FilterObject \X SlotObject
  BY DEF Capture, MonitorIInv, MonitorTypeOK, TablesInv, DemuxInv, DemuxTypeOK,
         PtiState
<1>3. MonitorTypeOK'
  BY <1>1, <1>2, TypedRecord DEF MonitorIInv
<1>4. Scanning' /\ OwnerFound'
  BY <1>1 DEF MonitorIInv, Scanning, OwnerFound
<1> QED BY <1>3, <1>4

LEMMA ReadKeeps ==
    ASSUME MonitorIInv, ReadSection
    PROVE  MonitorTypeOK' /\ Scanning' /\ OwnerFound'
<1>1. /\ channelOf' = channelOf /\ channels' = channels
      /\ SectionFilter' = SectionFilter
      /\ captured \in SUBSET (FilterObject \X SlotObject)
  BY DEF ReadSection, eisVars, MonitorIInv, MonitorTypeOK
<1>2. PICK l \in captured, o \in FilterArg :
         /\ captured' = captured \ {l}
         /\ Source(l, o)
         /\ monitor' \in {Wait, [Wait EXCEPT !.at = "filter", !.fh = l[1], !.src = o]}
  BY DEF ReadSection
<1>3. CASE monitor' = Wait
  <2>1. MonitorTypeOK'
    BY <1>1, <1>2, <1>3, Locals, TypedRecord
  <2>2. Scanning' /\ OwnerFound'
    BY <1>3, Locals DEF Scanning, OwnerFound
  <2> QED BY <2>1, <2>2
<1>4. CASE monitor' = [Wait EXCEPT !.at = "filter", !.fh = l[1], !.src = o]
  <2>1. l[1] \in FilterObject
    BY <1>1, <1>2
  <2>2. /\ monitor' \in MonitorState /\ monitor'.at = "filter"
        /\ monitor'.fh = l[1] /\ monitor'.row = 0 /\ monitor'.src = o
    <3>1. SectionOf(l[1], o, monitor')
      BY <1>4 DEF SectionOf
    <3> QED BY <1>2, <2>1, <3>1, Locals
  <2>3. o # None => /\ o \in Filters /\ SectionFilter[o].FilterHandle = l[1]
                    /\ channelOf[o] \in channels
    BY <1>2 DEF Source
  <2>4. Scanning' /\ OwnerFound'
    BY <1>1, <2>2, <2>3, Locals DEF Scanning, OwnerFound
  <2>5. MonitorTypeOK'
    BY <1>1, <1>2, <2>2, TypedRecord
  <2> QED BY <2>4, <2>5
<1> QED BY <1>2, <1>3, <1>4

LEMMA FindFilterKeeps ==
    ASSUME MonitorIInv, FindFilter
    PROVE  MonitorTypeOK' /\ Scanning' /\ OwnerFound'
<1>1. /\ channelOf' = channelOf /\ channels' = channels /\ captured' = captured
      /\ SectionFilter' = SectionFilter
      /\ monitor.at = "filter" /\ monitor.row \in Filters
      /\ monitor \in MonitorState
      /\ captured \in SUBSET (FilterObject \X SlotObject)
  BY TypedRecord DEF FindFilter, eisVars, MonitorIInv, Scanning
<1>2. CASE monitor' = Wait
  <2>1. MonitorTypeOK'
    BY <1>1, <1>2, Locals, TypedRecord
  <2>2. Scanning' /\ OwnerFound'
    BY <1>2, Locals DEF Scanning, OwnerFound
  <2> QED BY <2>1, <2>2
<1>3. CASE /\ monitor.row + 1 < MaxFilter
           /\ monitor' = [monitor EXCEPT !.row = monitor.row + 1]
  <2>1. monitor.row + 1 \in Filters
    BY <1>1, <1>3, ChDemuxAssumption DEF Filters
  <2>2. /\ monitor' \in MonitorState /\ monitor'.at = "filter"
        /\ monitor'.fh = monitor.fh /\ monitor'.src = monitor.src
        /\ monitor'.row = monitor.row + 1
    <3>1. RowAt(monitor, monitor.row + 1, monitor')
      BY <1>3 DEF RowAt
    <3> QED BY <1>1, <2>1, <3>1, Locals
  <2>3. MonitorTypeOK'
    BY <1>1, <2>2, TypedRecord
  <2>4. Scanning'
    BY <2>1, <2>2 DEF Scanning
  <2>5. OwnerFound'
    BY <1>1, <2>2 DEF MonitorIInv, OwnerFound
  <2> QED BY <2>3, <2>4, <2>5
<1>4. CASE /\ SectionFilter[monitor.row].FilterHandle = monitor.fh
           /\ monitor' = [monitor EXCEPT !.at = "slot", !.fl = monitor.row,
                                         !.row = 0]
  <2>1. /\ monitor' \in MonitorState /\ monitor'.at = "slot"
        /\ monitor'.fl = monitor.row /\ monitor'.row = 0
        /\ monitor'.src = monitor.src
    <3>1. FilterFound(monitor, monitor.row, monitor')
      BY <1>4 DEF FilterFound
    <3> QED BY <1>1, <3>1, Locals
  <2>2. monitor.src # None =>
           /\ monitor.src \in Filters /\ channelOf[monitor.src] \in channels
           /\ SectionFilter[monitor.src].FilterHandle = monitor.fh
    BY <1>1 DEF MonitorIInv, OwnerFound
  <2>3. monitor.src # None => monitor.row = monitor.src
    BY <1>1, <1>4, <2>2, OwnersRows DEF MonitorIInv
  <2>4. monitor.src # None => 0 <= channelOf[monitor.src]
    BY <2>2, OwnersRows DEF MonitorIInv, Slots
  <2>5. MonitorTypeOK'
    BY <1>1, <2>1, TypedRecord
  <2>6. Scanning'
    BY <1>1, <2>1, Locals DEF Scanning
  <2>7. OwnerFound'
    BY <1>1, <2>1, <2>2, <2>3, <2>4 DEF OwnerFound
  <2> QED BY <2>5, <2>6, <2>7
<1> QED BY <1>2, <1>3, <1>4 DEF FindFilter, RowMatched

(* The scan of the slots stops at the owner's channel and at no other.      *)
LEMMA OwnersChannel ==
    ASSUME MonitorIInv, monitor.at = "slot", monitor.src # None
    PROVE  /\ channelOf[monitor.src] \in Slots
           /\ RowMatches <=> monitor.row = channelOf[monitor.src]
<1>1. /\ monitor.src \in Filters /\ channelOf[monitor.src] \in channels
      /\ monitor.fl = monitor.src /\ monitor.row \in Slots
  BY DEF MonitorIInv, OwnerFound, Scanning
<1> QED BY <1>1, OwnersRows DEF MonitorIInv, RowMatches

LEMMA FindSlotKeeps ==
    ASSUME MonitorIInv, FindSlot
    PROVE  MonitorTypeOK' /\ Scanning' /\ OwnerFound'
<1>1. /\ channelOf' = channelOf /\ channels' = channels /\ captured' = captured
      /\ SectionFilter' = SectionFilter
      /\ monitor.at = "slot" /\ monitor.row \in Slots /\ monitor.fl \in Filters
      /\ monitor \in MonitorState /\ ~ RowMatches /\ monitor.row + 1 < MaxSlot
      /\ monitor' = [monitor EXCEPT !.row = monitor.row + 1]
      /\ captured \in SUBSET (FilterObject \X SlotObject)
  BY TypedRecord DEF FindSlot, eisVars, MonitorIInv, Scanning
<1>2. monitor.row + 1 \in Slots
  BY <1>1, ChDemuxAssumption DEF Slots
<1>3. /\ monitor' \in MonitorState /\ monitor'.at = "slot"
      /\ monitor'.fl = monitor.fl /\ monitor'.src = monitor.src
      /\ monitor'.row = monitor.row + 1
  <2>1. RowAt(monitor, monitor.row + 1, monitor')
    BY <1>1 DEF RowAt
  <2> QED BY <1>1, <1>2, <2>1, Locals
<1>4. monitor.src # None =>
         /\ monitor.src \in Filters /\ channelOf[monitor.src] \in channels
         /\ monitor.fl = monitor.src /\ monitor.row <= channelOf[monitor.src]
  BY <1>1 DEF MonitorIInv, OwnerFound
<1>5. monitor.src # None => monitor.row + 1 <= channelOf[monitor.src]
  <2> SUFFICES ASSUME monitor.src # None
               PROVE  monitor.row + 1 <= channelOf[monitor.src]
    OBVIOUS
  <2>1. channelOf[monitor.src] \in Slots /\ monitor.row # channelOf[monitor.src]
    BY <1>1, OwnersChannel
  <2> QED BY <1>1, <1>4, <2>1, ChDemuxAssumption DEF Slots
<1>6. MonitorTypeOK' /\ Scanning'
  <2>1. MonitorTypeOK'
    BY <1>1, <1>3, TypedRecord
  <2>2. Scanning'
    BY <1>1, <1>2, <1>3 DEF Scanning
  <2> QED BY <2>1, <2>2
<1>7. OwnerFound'
  BY <1>1, <1>3, <1>4, <1>5 DEF OwnerFound
<1> QED BY <1>6, <1>7

LEMMA CallbackKeeps ==
    ASSUME MonitorIInv, NEW c, Callback(c)
    PROVE  MonitorTypeOK' /\ Scanning' /\ OwnerFound'
<1>1. monitor' = Wait /\ captured' = captured
  BY DEF Callback
<1>2. MonitorTypeOK'
  BY <1>1, Locals, TypedRecord DEF MonitorIInv
<1>3. Scanning' /\ OwnerFound'
  BY <1>1, Locals DEF Scanning, OwnerFound
<1> QED BY <1>2, <1>3

LEMMA MonitorInit1 == MonitorInit => MonitorIInv
<1> SUFFICES ASSUME MonitorInit PROVE MonitorIInv
  OBVIOUS
<1>1. EisInit /\ captured = {} /\ monitor = Wait
  BY DEF MonitorInit
<1>2. TablesInv
  BY <1>1, EisInitInv, HeldInitInv DEF TablesInv
<1>3. MonitorTypeOK
  BY <1>1, Locals, TypedRecord
<1>4. Scanning /\ OwnerFound
  BY <1>1, Locals DEF Scanning, OwnerFound
<1> QED BY <1>2, <1>3, <1>4 DEF MonitorIInv

LEMMA MonitorStep ==
    ASSUME MonitorIInv, [MonitorNext]_monitorVars
    PROVE  MonitorIInv'
<1>1. TablesInv'
  BY TablesKept DEF MonitorIInv
<1>2. MonitorTypeOK' /\ Scanning' /\ OwnerFound'
  <2>1. CASE UNCHANGED monitorVars
    BY <2>1 DEF monitorVars, MonitorIInv, MonitorTypeOK, Scanning, OwnerFound
  <2> QED BY <2>1, BrowserLeavesOwner, CaptureKeeps, ReadKeeps, FindFilterKeeps,
             FindSlotKeeps, CallbackKeeps DEF MonitorNext
<1> QED BY <1>1, <1>2 DEF MonitorIInv

(* What a callback delivers is its owner's.                                 *)
LEMMA CallbackDelivers ==
    ASSUME MonitorIInv, NEW c \in SlotArg, Callback(c), monitor.src # None
    PROVE  monitor.fl = monitor.src /\ c = channelOf[monitor.src]
<1>1. /\ monitor.at = "slot" /\ monitor.fl = monitor.src
      /\ monitor.row <= channelOf[monitor.src] /\ monitor.row \in Slots
  BY DEF Callback, MonitorIInv, OwnerFound, Scanning
<1>2. /\ channelOf[monitor.src] \in Slots
      /\ RowMatches <=> monitor.row = channelOf[monitor.src]
  BY <1>1, OwnersChannel
<1>3. ~ (~ RowMatches /\ monitor.row + 1 = MaxSlot)
  BY <1>1, <1>2, ChDemuxAssumption DEF Slots
<1> QED BY <1>1, <1>2, <1>3 DEF Callback

-----------------------------------------------------------------------------
(* The thread's locals stay within the tables, and the tables stay sound.   *)
THEOREM MonitorInvariant == MonitorSpec => []MonitorIInv
<1>1. MonitorIInv /\ [MonitorNext]_monitorVars => MonitorIInv'
  BY MonitorStep
<1> QED BY <1>1, MonitorInit1, PTL DEF MonitorSpec

(* A section is delivered under the numbers its filter and channel have,    *)
(* although the lookups take no lock, for every number of rows.             *)
THEOREM SectionsDelivered == MonitorSpec => DeliveredToOwner
<1> DEFINE A == \A c \in SlotArg : Callback(c) /\ monitor.src # None =>
                  monitor.fl = monitor.src /\ c = channelOf[monitor.src]
<1>1. MonitorIInv => A
  BY CallbackDelivers
<1>2. MonitorIInv /\ [MonitorNext]_monitorVars => [A]_monitorVars
  BY <1>1
<1> QED BY <1>2, MonitorInvariant, PTL DEF MonitorSpec, DeliveredToOwner
=============================================================================
