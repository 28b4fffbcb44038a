--------------------------- MODULE ChDemux_proofs ---------------------------
(***************************************************************************)
(* DemuxInv is inductive: for every number of slots, filters, driver        *)
(* objects and PIDs, and every order of calls.                             *)
(*                                                                         *)
(* Most operations touch neither a handle column nor the set of allocated   *)
(* objects; QuietStep covers them all.  The five that do (allocate and free *)
(* a slot, allocate and free a filter, associate) have a lemma each.        *)
(***************************************************************************)
EXTENDS ChDemux, TLAPS

USE DEF Slots, Filters, None

LEMMA Counting ==
    \A n \in 0 .. CountMod - 1 : /\ Succ8(n) \in 0 .. CountMod - 1
                                 /\ Pred8(n) \in 0 .. CountMod - 1
BY ChDemuxAssumption DEF Succ8, Pred8

(* The driver's operations keep its state well typed.                       *)
LEMMA DriverTypes ==
    ASSUME NEW p \in PtiState
    PROVE  /\ \A h \in SlotObject : /\ SlotAllocate(p, h) \in PtiState
                                    /\ SlotDeallocate(p, h) \in PtiState
                                    /\ SlotClearPid(p, h) \in PtiState
           /\ \A b \in BufferObject : /\ BufferAllocate(p, b) \in PtiState
                                      /\ BufferDeallocate(p, b) \in PtiState
           /\ \A f \in FilterObject : /\ FilterAllocate(p, f) \in PtiState
                                      /\ FilterDeallocate(p, f) \in PtiState
                                      /\ FilterEnable(p, f) \in PtiState
                                      /\ FilterDisable(p, f) \in PtiState
           /\ \A f \in FilterObject, h \in SlotObject :
                 /\ FilterAssociate(p, f, h) \in PtiState
                 /\ FilterDisassociate(p, f, h) \in PtiState
           /\ \A h \in SlotObject, v \in Pid \cup {NoPid} :
                 SlotSetPid(p, h, v) \in PtiState
<1>1. \A h \in SlotObject : /\ SlotAllocate(p, h) \in PtiState
                            /\ SlotClearPid(p, h) \in PtiState
  BY DEF PtiState, SlotAllocate, SlotClearPid
<1>2. \A h \in SlotObject : SlotDeallocate(p, h) \in PtiState
  BY DEF PtiState, SlotDeallocate
<1>3. \A b \in BufferObject : /\ BufferAllocate(p, b) \in PtiState
                              /\ BufferDeallocate(p, b) \in PtiState
  BY DEF PtiState, BufferAllocate, BufferDeallocate
<1>4. \A f \in FilterObject : /\ FilterAllocate(p, f) \in PtiState
                              /\ FilterEnable(p, f) \in PtiState
                              /\ FilterDisable(p, f) \in PtiState
  BY DEF PtiState, FilterAllocate, FilterEnable, FilterDisable
<1>5. \A f \in FilterObject : FilterDeallocate(p, f) \in PtiState
  BY DEF PtiState, FilterDeallocate
<1>6. \A f \in FilterObject, h \in SlotObject :
         /\ FilterAssociate(p, f, h) \in PtiState
         /\ FilterDisassociate(p, f, h) \in PtiState
  BY DEF PtiState, FilterAssociate, FilterDisassociate
<1>7. \A h \in SlotObject, v \in Pid \cup {NoPid} :
         SlotSetPid(p, h, v) \in PtiState
  BY DEF PtiState, SlotSetPid
<1>8. QED BY <1>1, <1>2, <1>3, <1>4, <1>5, <1>6, <1>7

(* The shapes of the rows: what reading a column gives and what writing one *)
(* keeps.                                                                  *)
LEMMA SlotRows ==
    /\ FreeSlotRow \in SlotRow
    /\ \A r \in SlotRow :
          /\ r.SlotStatus \in {"FREE", "IN_USE"}
          /\ r.SlotHandle \in SlotObject \cup {NoHandle}
          /\ r.BufferHandle \in BufferObject \cup {NoHandle}
          /\ r.PidValue \in Pid \cup {NoPid}
          /\ r.FilterCount \in 0 .. CountMod - 1
          /\ \A v \in Pid : [r EXCEPT !.PidValue = v] \in SlotRow
          /\ \A n \in 0 .. CountMod - 1 :
                [r EXCEPT !.FilterCount = n] \in SlotRow
<1>1. 0 \in 0 .. CountMod - 1
  BY ChDemuxAssumption
<1>2. QED BY <1>1 DEF SlotRow, FreeSlotRow

LEMMA FilterRows ==
    /\ FreeFilterRow \in FilterRow
    /\ \A r \in FilterRow :
          /\ r.FilterStatus \in {"FREE", "IN_USE", "DONE"}
          /\ r.FilterHandle \in FilterObject \cup {NoHandle}
          /\ r.SlotHandle \in SlotObject \cup {NoHandle}
          /\ \A t \in {"IN_USE", "DONE"} :
                [r EXCEPT !.FilterStatus = t] \in FilterRow
          /\ \A h \in SlotObject : [r EXCEPT !.SlotHandle = h] \in FilterRow
          /\ \A fh \in FilterObject :
                [FilterStatus |-> "IN_USE", FilterHandle |-> fh,
                 SlotHandle |-> r.SlotHandle] \in FilterRow
BY DEF FilterRow, FreeFilterRow

-----------------------------------------------------------------------------
(* What most operations leave alone: who owns which driver object, ...      *)
SlotTableKept ==
    /\ \A s \in Slots :
          /\ SectionSlot'[s].SlotStatus = SectionSlot[s].SlotStatus
          /\ SectionSlot'[s].SlotHandle = SectionSlot[s].SlotHandle
          /\ SectionSlot'[s].BufferHandle = SectionSlot[s].BufferHandle
    /\ pti'.slots = pti.slots
    /\ pti'.buffers = pti.buffers

FilterTableKept ==
    /\ \A f \in Filters :
          /\ FilterFree(f)' <=> FilterFree(f)
          /\ SectionFilter'[f].FilterHandle = SectionFilter[f].FilterHandle
          /\ SectionFilter'[f].SlotHandle = SectionFilter[f].SlotHandle
    /\ pti'.filters = pti.filters

(* ... and they make the driver do more only for an object a row owns.      *)
OwnedActivity ==
    /\ pti'.links \subseteq pti.links
    /\ \A h \in SlotObject : pti'.pid[h] # NoPid =>
          \/ pti.pid[h] # NoPid
          \/ \E s \in Slots : ~ SlotFree(s) /\ SectionSlot[s].SlotHandle = h
    /\ \A h \in pti'.enabled :
          \/ h \in pti.enabled
          \/ \E f \in Filters : ~ FilterFree(f) /\ SectionFilter[f].FilterHandle = h

Quiet == SlotTableKept /\ FilterTableKept /\ OwnedActivity

LEMMA UnchangedQuiet ==
    ASSUME DemuxTypeOK, UNCHANGED demuxVars
    PROVE  DemuxTypeOK' /\ Quiet
BY DEF demuxVars, DemuxTypeOK, Quiet, SlotTableKept, FilterTableKept,
       OwnedActivity, FilterFree, PtiState

(* The row an accepted index names.                                         *)
LEMMA TakenRows ==
    ASSUME DemuxTypeOK, StatusMatchesHandle
    PROVE  /\ \A s : SlotTaken(s) => /\ s \in Slots
                                     /\ SectionSlot[s] \in SlotRow
                                     /\ SectionSlot[s].SlotHandle \in SlotObject
                                     /\ SectionSlot[s].BufferHandle \in BufferObject
           /\ \A f : FilterTaken(f) \/ HandleValid(f) =>
                       /\ f \in Filters
                       /\ SectionFilter[f] \in FilterRow
                       /\ ~ FilterFree(f)
                       /\ SectionFilter[f].FilterHandle \in FilterObject
BY SlotRows, FilterRows
   DEF DemuxTypeOK, StatusMatchesHandle, SlotTaken, SlotFree, FilterTaken,
       HandleValid

(* What each driver call does to the fields the invariants read.            *)
LEMMA SlotCalls ==
    ASSUME NEW p \in PtiState, NEW h \in SlotObject, NEW b \in BufferObject,
           NEW v \in Pid \cup {NoPid}
    PROVE  /\ LET q == BufferAllocate(SlotAllocate(p, h), b)
              IN /\ q.slots = p.slots \cup {h}
                 /\ q.buffers = p.buffers \cup {b}
                 /\ q.filters = p.filters /\ q.pid = p.pid
                 /\ q.links = p.links /\ q.enabled = p.enabled
           /\ LET q == SlotDeallocate(BufferDeallocate(p, b), h)
              IN /\ q.slots = p.slots \ {h}
                 /\ q.buffers = p.buffers \ {b}
                 /\ q.filters = p.filters /\ q.enabled = p.enabled
                 /\ \A x \in SlotObject :
                       q.pid[x] = IF x = h THEN NoPid ELSE p.pid[x]
                 /\ q.links = {l \in p.links : l[2] # h}
           /\ \A q \in {SlotClearPid(p, h), SlotSetPid(p, h, v)} :
                 /\ q.slots = p.slots /\ q.buffers = p.buffers
                 /\ q.filters = p.filters /\ q.enabled = p.enabled
                 /\ q.links = p.links
                 /\ \A x \in SlotObject \ {h} : q.pid[x] = p.pid[x]
<1>1. LET q == BufferAllocate(SlotAllocate(p, h), b)
      IN /\ q.slots = p.slots \cup {h}
         /\ q.buffers = p.buffers \cup {b}
         /\ q.filters = p.filters /\ q.pid = p.pid
         /\ q.links = p.links /\ q.enabled = p.enabled
  BY DEF PtiState, BufferAllocate, SlotAllocate
<1>2. LET q == SlotDeallocate(BufferDeallocate(p, b), h)
      IN /\ q.slots = p.slots \ {h}
         /\ q.buffers = p.buffers \ {b}
         /\ q.filters = p.filters /\ q.enabled = p.enabled
         /\ \A x \in SlotObject : q.pid[x] = IF x = h THEN NoPid ELSE p.pid[x]
         /\ q.links = {l \in p.links : l[2] # h}
  BY DEF PtiState, BufferDeallocate, SlotDeallocate
<1>3. \A q \in {SlotClearPid(p, h), SlotSetPid(p, h, v)} :
         /\ q.slots = p.slots /\ q.buffers = p.buffers
         /\ q.filters = p.filters /\ q.enabled = p.enabled
         /\ q.links = p.links
         /\ \A x \in SlotObject \ {h} : q.pid[x] = p.pid[x]
  BY DEF PtiState, SlotClearPid, SlotSetPid
<1>4. QED BY <1>1, <1>2, <1>3

LEMMA FilterCalls ==
    ASSUME NEW p \in PtiState, NEW f \in FilterObject
    PROVE  /\ LET q == FilterAllocate(p, f)
              IN /\ q.filters = p.filters \cup {f}
                 /\ q.slots = p.slots /\ q.buffers = p.buffers /\ q.pid = p.pid
                 /\ q.links = p.links /\ q.enabled = p.enabled
           /\ \A h : LET q == FilterDeallocate(FilterDisassociate(p, f, h), f)
                     IN /\ q \in PtiState
                        /\ q.filters = p.filters \ {f}
                        /\ q.slots = p.slots /\ q.buffers = p.buffers
                        /\ q.pid = p.pid
                        /\ q.links = {l \in p.links : l[1] # f}
                        /\ q.enabled = p.enabled \ {f}
           /\ \A q \in {FilterEnable(p, f), FilterDisable(p, f)} :
                 /\ q.slots = p.slots /\ q.buffers = p.buffers
                 /\ q.filters = p.filters /\ q.pid = p.pid
                 /\ q.links = p.links
                 /\ q.enabled \subseteq p.enabled \cup {f}
<1>1. LET q == FilterAllocate(p, f)
      IN /\ q.filters = p.filters \cup {f}
         /\ q.slots = p.slots /\ q.buffers = p.buffers /\ q.pid = p.pid
         /\ q.links = p.links /\ q.enabled = p.enabled
  BY DEF PtiState, FilterAllocate
<1>2. ASSUME NEW h
      PROVE  LET q == FilterDeallocate(FilterDisassociate(p, f, h), f)
             IN /\ q \in PtiState
                /\ q.filters = p.filters \ {f}
                /\ q.slots = p.slots /\ q.buffers = p.buffers
                /\ q.pid = p.pid
                /\ q.links = {l \in p.links : l[1] # f}
                /\ q.enabled = p.enabled \ {f}
  <2> DEFINE r == FilterDisassociate(p, f, h)
             q == FilterDeallocate(r, f)
  <2>1. /\ r \in PtiState
        /\ r.slots = p.slots /\ r.buffers = p.buffers
        /\ r.filters = p.filters /\ r.pid = p.pid
        /\ r.links = p.links \ {<<f, h>>} /\ r.enabled = p.enabled
    BY DEF PtiState, FilterDisassociate
  <2>2. /\ q \in PtiState
        /\ q.slots = r.slots /\ q.buffers = r.buffers
        /\ q.filters = r.filters \ {f} /\ q.pid = r.pid
        /\ q.links = {l \in r.links : l[1] # f}
        /\ q.enabled = r.enabled \ {f}
    <3> HIDE DEF r
    <3>1. QED BY <2>1 DEF PtiState, FilterDeallocate
  <2>3. {l \in p.links \ {<<f, h>>} : l[1] # f} = {l \in p.links : l[1] # f}
    OBVIOUS
  <2>4. QED BY <2>1, <2>2, <2>3
<1>3. \A q \in {FilterEnable(p, f), FilterDisable(p, f)} :
         /\ q.slots = p.slots /\ q.buffers = p.buffers
         /\ q.filters = p.filters /\ q.pid = p.pid
         /\ q.links = p.links
         /\ q.enabled \subseteq p.enabled \cup {f}
  BY DEF PtiState, FilterEnable, FilterDisable
<1>4. QED BY <1>1, <1>2, <1>3

-----------------------------------------------------------------------------
(* The quiet operations, each with its type correctness.                    *)
LEMMA FailedAllocationQuiet ==
    ASSUME DemuxTypeOK, AllocateSlotFails \/ AllocateFilterFails
    PROVE  DemuxTypeOK' /\ Quiet
<1>1. CASE pti' = pti
  BY <1>1, UnchangedQuiet DEF AllocateSlotFails, AllocateFilterFails, demuxVars
<1>2. ASSUME NEW h \in SlotObject \ pti.slots,
             \/ pti' = AbandonedSlot(pti, h)
             \/ \E b \in BufferObject \ pti.buffers :
                   pti' = BufferDeallocate(
                            SlotDeallocate(
                              BufferAllocate(SlotAllocate(pti, h), b), h), b)
      PROVE  /\ pti' \in PtiState
             /\ pti'.slots = pti.slots /\ pti'.buffers = pti.buffers
             /\ pti'.filters = pti.filters /\ pti'.enabled = pti.enabled
             /\ pti'.links \subseteq pti.links
             /\ \A x \in SlotObject : pti'.pid[x] # NoPid => pti.pid[x] # NoPid
  <2>1. CASE pti' = AbandonedSlot(pti, h)
    <3> DEFINE q == SlotAllocate(pti, h)
    <3>1. /\ q \in PtiState
          /\ q.slots = pti.slots \cup {h} /\ q.buffers = pti.buffers
          /\ q.filters = pti.filters /\ q.enabled = pti.enabled
          /\ q.links = pti.links /\ q.pid = pti.pid
      BY DEF DemuxTypeOK, PtiState, SlotAllocate
    <3>2. pti' = SlotDeallocate(q, h)
      BY <2>1 DEF AbandonedSlot
    <3> HIDE DEF q
    <3>3. /\ pti' \in PtiState
          /\ pti'.slots = q.slots \ {h} /\ pti'.buffers = q.buffers
          /\ pti'.filters = q.filters /\ pti'.enabled = q.enabled
          /\ pti'.links \subseteq q.links
          /\ \A x \in SlotObject : pti'.pid[x] # NoPid => q.pid[x] # NoPid
      BY <3>1, <3>2 DEF SlotDeallocate, PtiState
    <3>4. QED BY <3>1, <3>3
  <2>2. ASSUME NEW b \in BufferObject \ pti.buffers,
               pti' = BufferDeallocate(
                        SlotDeallocate(
                          BufferAllocate(SlotAllocate(pti, h), b), h), b)
        PROVE  /\ pti' \in PtiState
               /\ pti'.slots = pti.slots /\ pti'.buffers = pti.buffers
               /\ pti'.filters = pti.filters /\ pti'.enabled = pti.enabled
               /\ pti'.links \subseteq pti.links
               /\ \A x \in SlotObject :
                     pti'.pid[x] # NoPid => pti.pid[x] # NoPid
    <3> DEFINE q == BufferAllocate(SlotAllocate(pti, h), b)
               r == SlotDeallocate(q, h)
    <3>1. /\ q \in PtiState
          /\ q.slots = pti.slots \cup {h} /\ q.buffers = pti.buffers \cup {b}
          /\ q.filters = pti.filters /\ q.enabled = pti.enabled
          /\ q.links = pti.links /\ q.pid = pti.pid
      BY DEF DemuxTypeOK, PtiState, SlotAllocate, BufferAllocate
    <3>2. /\ r \in PtiState
          /\ r.slots = q.slots \ {h} /\ r.buffers = q.buffers
          /\ r.filters = q.filters /\ r.enabled = q.enabled
          /\ r.links \subseteq q.links
          /\ \A x \in SlotObject : r.pid[x] # NoPid => q.pid[x] # NoPid
      <4> HIDE DEF q
      <4>1. QED BY <3>1 DEF SlotDeallocate, PtiState
    <3>3. /\ pti' \in PtiState
          /\ pti'.slots = r.slots /\ pti'.buffers = r.buffers \ {b}
          /\ pti'.filters = r.filters /\ pti'.enabled = r.enabled
          /\ pti'.links = r.links /\ pti'.pid = r.pid
      <4>1. pti' = BufferDeallocate(r, b)
        BY <2>2
      <4> HIDE DEF r
      <4>2. QED BY <4>1, <3>2 DEF BufferDeallocate, PtiState
    <3> HIDE DEF q, r
    <3>4. QED BY <3>1, <3>2, <3>3
  <2>3. QED BY <1>2, <2>1, <2>2
<1>3. ASSUME NEW h \in FilterObject \ pti.filters,
             pti' = FilterDeallocate(FilterAllocate(pti, h), h)
      PROVE  /\ pti' \in PtiState
             /\ pti'.slots = pti.slots /\ pti'.buffers = pti.buffers
             /\ pti'.filters = pti.filters /\ pti'.enabled \subseteq pti.enabled
             /\ pti'.links \subseteq pti.links /\ pti'.pid = pti.pid
  <2> DEFINE q == FilterAllocate(pti, h)
  <2>1. /\ q \in PtiState
        /\ q.filters = pti.filters \cup {h}
        /\ q.slots = pti.slots /\ q.buffers = pti.buffers
        /\ q.enabled = pti.enabled /\ q.links = pti.links /\ q.pid = pti.pid
    BY DEF DemuxTypeOK, PtiState, FilterAllocate
  <2>2. pti' = FilterDeallocate(q, h)
    BY <1>3
  <2> HIDE DEF q
  <2>3. /\ pti' \in PtiState
        /\ pti'.slots = q.slots /\ pti'.buffers = q.buffers
        /\ pti'.filters = q.filters \ {h}
        /\ pti'.enabled \subseteq q.enabled
        /\ pti'.links \subseteq q.links /\ pti'.pid = q.pid
    BY <2>1, <2>2 DEF FilterDeallocate, PtiState
  <2>4. QED BY <2>1, <2>3
<1>4. /\ pti' \in PtiState
      /\ pti'.slots = pti.slots /\ pti'.buffers = pti.buffers
      /\ pti'.filters = pti.filters /\ pti'.enabled \subseteq pti.enabled
      /\ pti'.links \subseteq pti.links
      /\ \A x \in SlotObject : pti'.pid[x] # NoPid => pti.pid[x] # NoPid
  <2>1. CASE pti' = pti
    BY <2>1 DEF DemuxTypeOK
  <2>2. CASE pti' # pti
    BY <2>2, <1>2, <1>3 DEF AllocateSlotFails, AllocateFilterFails
  <2>3. QED BY <2>1, <2>2
<1>5. SectionSlot' = SectionSlot /\ SectionFilter' = SectionFilter
  BY DEF AllocateSlotFails, AllocateFilterFails
<1>6. QED BY <1>4, <1>5
          DEF DemuxTypeOK, Quiet, SlotTableKept, FilterTableKept, OwnedActivity,
              FilterFree

LEMMA SetPidQuiet ==
    ASSUME DemuxTypeOK, NEW s \in SlotArg, NEW v \in Pid, NEW err \in BOOLEAN,
           CH6_Set_Slot_Pid(s, v, err)
    PROVE  DemuxTypeOK' /\ Quiet
<1>1. CASE s \notin Slots
  BY <1>1, UnchangedQuiet DEF CH6_Set_Slot_Pid, Failed
<1>2. CASE s \in Slots
  <2>1. /\ SectionSlot' = [SectionSlot EXCEPT ![s].PidValue = v]
        /\ SectionFilter' = SectionFilter /\ pti' = pti
    BY <1>2 DEF CH6_Set_Slot_Pid
  <2>2. DemuxTypeOK'
    BY <2>1, <1>2, SlotRows DEF DemuxTypeOK
  <2>3. SlotTableKept
    BY <2>1, <1>2 DEF SlotTableKept, DemuxTypeOK, SlotRow
  <2>4. QED BY <2>1, <2>2, <2>3 DEF Quiet, FilterTableKept, OwnedActivity,
                                    FilterFree
<1>3. QED BY <1>1, <1>2

LEMMA StartStopSlotQuiet ==
    ASSUME DemuxTypeOK, StatusMatchesHandle, NEW s, NEW err,
           CH6_Start_Slot(s, err) \/ CH6_Stop_Slot(s, err)
    PROVE  DemuxTypeOK' /\ Quiet
<1>1. CASE ~ SlotUsable(s)
  BY <1>1, UnchangedQuiet DEF CH6_Start_Slot, CH6_Stop_Slot, Failed
<1>2. CASE SlotUsable(s)
  <2> DEFINE h == SectionSlot[s].SlotHandle
             v == SectionSlot[s].PidValue
  <2>1. /\ s \in Slots /\ ~ SlotFree(s)
        /\ h \in SlotObject /\ v \in Pid \cup {NoPid}
        /\ SectionSlot[s].BufferHandle \in BufferObject
    BY <1>2, TakenRows, SlotRows DEF SlotUsable, SlotTaken
  <2>2. pti' \in {SlotClearPid(pti, h), SlotSetPid(pti, h, v)}
    BY <1>2 DEF CH6_Start_Slot, CH6_Stop_Slot
  <2>3. SectionSlot' = SectionSlot /\ SectionFilter' = SectionFilter
    BY <1>2 DEF CH6_Start_Slot, CH6_Stop_Slot
  <2>4. pti' \in PtiState
    BY <2>1, <2>2, DriverTypes DEF DemuxTypeOK
  <2>5. /\ pti'.slots = pti.slots /\ pti'.buffers = pti.buffers
        /\ pti'.filters = pti.filters /\ pti'.enabled = pti.enabled
        /\ pti'.links = pti.links
        /\ \A x \in SlotObject \ {h} : pti'.pid[x] = pti.pid[x]
    BY <2>1, <2>2, SlotCalls DEF DemuxTypeOK
  <2> HIDE DEF v
  <2>6. QED BY <2>1, <2>3, <2>4, <2>5
            DEF DemuxTypeOK, Quiet, SlotTableKept, FilterTableKept,
                OwnedActivity, FilterFree
<1>3. QED BY <1>1, <1>2

LEMMA ArmFilterQuiet ==
    ASSUME DemuxTypeOK, StatusMatchesHandle, NEW f, NEW err,
           \/ CH6_Set_Filter(f, err)
           \/ CH6_Start_Filter(f, err) \/ CH6_Stop_Filter(f, err)
           \/ CH6_ReenableFilter(f, err) \/ CH6_StopFilter(f, err)
    PROVE  DemuxTypeOK' /\ Quiet
<1> DEFINE h == SectionFilter[f].FilterHandle
<1>1. CASE UNCHANGED demuxVars
  BY <1>1, UnchangedQuiet
<1>2. CASE ~ UNCHANGED demuxVars
  <2>1. FilterTaken(f) \/ HandleValid(f)
    BY <1>2 DEF CH6_Set_Filter, CH6_Start_Filter, CH6_Stop_Filter,
                CH6_ReenableFilter, CH6_StopFilter, Failed, FilterUsable
  <2>2. /\ f \in Filters /\ SectionFilter[f] \in FilterRow
        /\ ~ FilterFree(f) /\ h \in FilterObject
    BY <2>1, TakenRows
  <2>3. /\ pti' \in {FilterEnable(pti, h), FilterDisable(pti, h)}
        /\ SectionSlot' = SectionSlot
    BY <1>2 DEF CH6_Set_Filter, CH6_Start_Filter, CH6_Stop_Filter,
                CH6_ReenableFilter, CH6_StopFilter, Failed
  <2>4. \/ SectionFilter' = SectionFilter
        \/ \E t \in {"IN_USE", "DONE"} :
              SectionFilter' = [SectionFilter EXCEPT ![f].FilterStatus = t]
    BY <1>2 DEF CH6_Set_Filter, CH6_Start_Filter, CH6_Stop_Filter,
                CH6_ReenableFilter, CH6_StopFilter, StoppedRow, Failed
  <2>5. pti' \in PtiState
    BY <2>2, <2>3, DriverTypes DEF DemuxTypeOK
  <2>6. /\ pti'.slots = pti.slots /\ pti'.buffers = pti.buffers
        /\ pti'.filters = pti.filters /\ pti'.pid = pti.pid
        /\ pti'.links = pti.links
        /\ pti'.enabled \subseteq pti.enabled \cup {h}
    BY <2>2, <2>3, FilterCalls DEF DemuxTypeOK
  <2>7. /\ SectionFilter' \in [Filters -> FilterRow]
        /\ FilterTableKept
    <3>1. CASE SectionFilter' = SectionFilter
      BY <3>1, <2>6 DEF DemuxTypeOK, FilterTableKept, FilterFree
    <3>2. ASSUME NEW t \in {"IN_USE", "DONE"},
                 SectionFilter' = [SectionFilter EXCEPT ![f].FilterStatus = t]
          PROVE  /\ SectionFilter' \in [Filters -> FilterRow]
                 /\ FilterTableKept
      <4>1. SectionFilter' \in [Filters -> FilterRow]
        BY <3>2, <2>2, FilterRows DEF DemuxTypeOK
      <4>2. FilterTableKept
        BY <3>2, <2>2, <2>6
           DEF DemuxTypeOK, FilterTableKept, FilterFree, FilterRow
      <4>3. QED BY <4>1, <4>2
    <3>3. QED BY <3>1, <3>2, <2>4
  <2>8. SlotTableKept /\ OwnedActivity
    BY <2>2, <2>3, <2>6 DEF SlotTableKept, OwnedActivity
  <2>9. QED BY <2>3, <2>5, <2>7, <2>8 DEF DemuxTypeOK, Quiet
<1>3. QED BY <1>1, <1>2

LEMMA DisAssociateQuiet ==
    ASSUME DemuxTypeOK, NEW s \in Slots, NEW f \in Filters, NEW err,
           CH6_DisAssociate_Slot_Filter(s, f, err)
    PROVE  DemuxTypeOK' /\ Quiet
<1>1. CASE UNCHANGED demuxVars
  BY <1>1, UnchangedQuiet
<1>2. CASE ~ UNCHANGED demuxVars
  <2> DEFINE fh == SectionFilter[f].FilterHandle
             sh == SectionSlot[s].SlotHandle
             n  == SectionSlot[s].FilterCount
  <2>1. /\ pti' = FilterDisassociate(pti, fh, sh)
        /\ SectionSlot' = [SectionSlot EXCEPT ![s].FilterCount =
                             IF @ > 0 THEN Pred8(@) ELSE @]
        /\ SectionFilter' = SectionFilter
    BY <1>2 DEF CH6_DisAssociate_Slot_Filter, Failed
  <2>2. /\ pti' \in PtiState
        /\ pti'.slots = pti.slots /\ pti'.buffers = pti.buffers
        /\ pti'.filters = pti.filters /\ pti'.pid = pti.pid
        /\ pti'.links \subseteq pti.links /\ pti'.enabled = pti.enabled
    BY <2>1 DEF FilterDisassociate, PtiState, DemuxTypeOK
  <2>3. n \in 0 .. CountMod - 1
    BY SlotRows DEF DemuxTypeOK
  <2>4. PICK m \in 0 .. CountMod - 1 :
               SectionSlot' = [SectionSlot EXCEPT ![s].FilterCount = m]
    BY <2>1, <2>3, Counting
  <2>5. SectionSlot' \in [Slots -> SlotRow] /\ SlotTableKept
    <3>1. SectionSlot' \in [Slots -> SlotRow]
      BY <2>4, SlotRows DEF DemuxTypeOK
    <3>2. SlotTableKept
      BY <2>2, <2>4 DEF DemuxTypeOK, SlotTableKept, SlotRow
    <3>3. QED BY <3>1, <3>2
  <2>6. QED BY <2>1, <2>2, <2>5
            DEF DemuxTypeOK, Quiet, FilterTableKept, OwnedActivity, FilterFree
<1>3. QED BY <1>1, <1>2

-----------------------------------------------------------------------------
(* The quiet half of the induction: nothing is owned differently and no     *)
(* object that runs is without an owner.                                    *)
LEMMA QuietStep ==
    ASSUME DemuxInv, DemuxTypeOK', Quiet
    PROVE  DemuxInv'
<1> USE DEF Quiet
<1>1. StatusMatchesHandle'
  BY DEF DemuxInv, StatusMatchesHandle, SlotTableKept, FilterTableKept,
         SlotFree
<1>2. LinksRecorded'
  BY DEF DemuxInv, LinksRecorded, FilterTableKept, OwnedActivity
<1>3. NothingRunsUnowned'
  <2>1. \A s \in Slots : (SlotFree(s))' <=> SlotFree(s)
    BY DEF SlotTableKept, SlotFree
  <2>2. \A l \in pti'.links : \E s \in Slots :
           ~ SlotFree(s)' /\ SectionSlot'[s].SlotHandle = l[2]
    BY <2>1 DEF DemuxInv, NothingRunsUnowned, SlotTableKept, OwnedActivity
  <2>3. \A h \in SlotObject : pti'.pid[h] # NoPid => \E s \in Slots :
           ~ SlotFree(s)' /\ SectionSlot'[s].SlotHandle = h
    BY <2>1 DEF DemuxInv, NothingRunsUnowned, SlotTableKept, OwnedActivity
  <2>4. \A h \in pti'.enabled : \E f \in Filters :
           ~ FilterFree(f)' /\ SectionFilter'[f].FilterHandle = h
    BY DEF DemuxInv, NothingRunsUnowned, FilterTableKept, OwnedActivity
  <2>5. QED BY <2>2, <2>3, <2>4 DEF NothingRunsUnowned
<1>4. HandlesAccounted'
  BY DEF DemuxInv, HandlesAccounted, SlotPool!Accounted, BufferPool!Accounted,
         FilterPool!Accounted, SlotTableKept, FilterTableKept
<1>5. QED BY <1>1, <1>2, <1>3, <1>4 DEF DemuxInv

(* A quiet step is a stutter of each pool.                                  *)
LEMMA SlotTableStutter ==
    ASSUME DemuxTypeOK, SlotTableKept
    PROVE  UNCHANGED SlotPool!poolVars /\ UNCHANGED BufferPool!poolVars
BY DEF SlotTableKept, SlotPool!poolVars, BufferPool!poolVars

LEMMA FilterTableStutter ==
    ASSUME DemuxTypeOK, FilterTableKept
    PROVE  UNCHANGED FilterPool!poolVars
BY DEF FilterTableKept, FilterPool!poolVars

-----------------------------------------------------------------------------
(* The five operations that change who owns what.  SlotsMove and            *)
(* FiltersMove name the pool steps they may be.                             *)
SlotsMove   == [SlotPool!Next]_SlotPool!poolVars
                 /\ [BufferPool!Next]_BufferPool!poolVars
FiltersMove == [FilterPool!Next]_FilterPool!poolVars

(* One pool, as a relation of its states: a step of HandlePool keeps every   *)
(* object named exactly once.                                              *)
Owned(Row, a, h) == /\ \A x \in a : \E r \in Row : h[r] = x
                    /\ \A r \in Row : h[r] # NoHandle => h[r] \in a
                    /\ \A r, q \in Row : h[r] = h[q] => r = q \/ h[r] = NoHandle

PoolMoves(Handle, Row, a, h, b, k) ==
    \/ b = a /\ k = h
    \/ \E r \in Row, x \in Handle \ a :
          h[r] = NoHandle /\ b = a \cup {x} /\ k = [h EXCEPT ![r] = x]
    \/ \E r \in Row : /\ h[r] # NoHandle /\ b = a \ {h[r]}
                      /\ k = [h EXCEPT ![r] = NoHandle]

LEMMA PoolStep ==
    ASSUME NEW Handle, NEW Row, NEW a, NEW h, NEW b, NEW k,
           NoHandle \notin Handle,
           a \in SUBSET Handle, h \in [Row -> Handle \cup {NoHandle}],
           Owned(Row, a, h), PoolMoves(Handle, Row, a, h, b, k)
    PROVE  Owned(Row, b, k)
<1>1. CASE b = a /\ k = h
  BY <1>1
<1>2. ASSUME NEW r \in Row, NEW x \in Handle \ a, h[r] = NoHandle,
             b = a \cup {x}, k = [h EXCEPT ![r] = x]
      PROVE  Owned(Row, b, k)
  BY <1>2 DEF Owned
<1>3. ASSUME NEW r \in Row, h[r] # NoHandle, b = a \ {h[r]},
             k = [h EXCEPT ![r] = NoHandle]
      PROVE  Owned(Row, b, k)
  BY <1>3 DEF Owned
<1> QED BY <1>1, <1>2, <1>3 DEF PoolMoves

LEMMA AccountedKept ==
    ASSUME DemuxInv, SlotsMove, FiltersMove
    PROVE  HandlesAccounted'
<1>1. SlotPool!TypeOK /\ BufferPool!TypeOK /\ FilterPool!TypeOK
  BY SlotRows, FilterRows
     DEF DemuxInv, DemuxTypeOK, PtiState, SlotPool!TypeOK, BufferPool!TypeOK,
         FilterPool!TypeOK
<1>2. NoHandle \notin SlotObject \cup BufferObject \cup FilterObject
  BY PtiAssumption
<1>3. SlotPool!Accounted /\ BufferPool!Accounted /\ FilterPool!Accounted
  BY DEF DemuxInv, HandlesAccounted
<1>4. SlotPool!Accounted'
  <2> DEFINE h == [s \in Slots |-> SectionSlot[s].SlotHandle]
             k == [s \in Slots |-> SectionSlot'[s].SlotHandle]
             a == pti.slots
             b == pti'.slots
  <2>1. /\ a \in SUBSET SlotObject /\ h \in [Slots -> SlotObject \cup {NoHandle}]
        /\ Owned(Slots, a, h)
    BY <1>1, <1>3 DEF SlotPool!TypeOK, SlotPool!Accounted, Owned
  <2>2. PoolMoves(SlotObject, Slots, a, h, b, k)
    BY DEF PoolMoves, SlotsMove, SlotPool!Next, SlotPool!Take, SlotPool!Drop,
           SlotPool!poolVars
  <2>3. Owned(Slots, b, k)
    <3> HIDE DEF a, b, h, k
    <3> QED BY <1>2, <2>1, <2>2, PoolStep
  <2> QED BY <2>3 DEF SlotPool!Accounted, Owned
<1>5. BufferPool!Accounted'
  <2> DEFINE h == [s \in Slots |-> SectionSlot[s].BufferHandle]
             k == [s \in Slots |-> SectionSlot'[s].BufferHandle]
             a == pti.buffers
             b == pti'.buffers
  <2>1. /\ a \in SUBSET BufferObject /\ h \in [Slots -> BufferObject \cup {NoHandle}]
        /\ Owned(Slots, a, h)
    BY <1>1, <1>3 DEF BufferPool!TypeOK, BufferPool!Accounted, Owned
  <2>2. PoolMoves(BufferObject, Slots, a, h, b, k)
    BY DEF PoolMoves, SlotsMove, BufferPool!Next, BufferPool!Take, BufferPool!Drop,
           BufferPool!poolVars
  <2>3. Owned(Slots, b, k)
    <3> HIDE DEF a, b, h, k
    <3> QED BY <1>2, <2>1, <2>2, PoolStep
  <2> QED BY <2>3 DEF BufferPool!Accounted, Owned
<1>6. FilterPool!Accounted'
  <2> DEFINE h == [f \in Filters |-> SectionFilter[f].FilterHandle]
             k == [f \in Filters |-> SectionFilter'[f].FilterHandle]
             a == pti.filters
             b == pti'.filters
  <2>1. /\ a \in SUBSET FilterObject /\ h \in [Filters -> FilterObject \cup {NoHandle}]
        /\ Owned(Filters, a, h)
    BY <1>1, <1>3 DEF FilterPool!TypeOK, FilterPool!Accounted, Owned
  <2>2. PoolMoves(FilterObject, Filters, a, h, b, k)
    BY DEF PoolMoves, FiltersMove, FilterPool!Next, FilterPool!Take, FilterPool!Drop,
           FilterPool!poolVars
  <2>3. Owned(Filters, b, k)
    <3> HIDE DEF a, b, h, k
    <3> QED BY <1>2, <2>1, <2>2, PoolStep
  <2> QED BY <2>3 DEF FilterPool!Accounted, Owned
<1>7. QED BY <1>4, <1>5, <1>6 DEF HandlesAccounted

LEMMA AllocateSlotStep ==
    ASSUME DemuxInv, NEW s \in Slots, AllocateSlotAt(s)
    PROVE  DemuxInv' /\ SlotsMove /\ FiltersMove
<1> USE DEF DemuxInv
<1>1. SlotFree(s) /\ SectionSlot[s].SlotHandle = NoHandle
                  /\ SectionSlot[s].BufferHandle = NoHandle
  BY DEF AllocateSlotAt, IsFirst, FreeSlots, StatusMatchesHandle
<1> DEFINE row(h, b) == [SlotStatus |-> "IN_USE", SlotHandle |-> h,
                         BufferHandle |-> b, PidValue |-> NoPid,
                         FilterCount |-> 0]
<1>2. PICK h \in SlotObject \ pti.slots, b \in BufferObject \ pti.buffers :
         /\ pti' = BufferAllocate(SlotAllocate(pti, h), b)
         /\ SectionSlot' = [SectionSlot EXCEPT ![s] = row(h, b)]
         /\ SectionFilter' = SectionFilter
  BY DEF AllocateSlotAt
<1>3. /\ row(h, b) \in SlotRow
      /\ row(h, b).SlotStatus = "IN_USE"
      /\ row(h, b).SlotHandle = h
      /\ row(h, b).BufferHandle = b
  <2>1. 0 \in 0 .. CountMod - 1
    BY ChDemuxAssumption
  <2>2. QED BY <2>1 DEF SlotRow
<1> HIDE DEF row
<1>4. /\ pti'.slots = pti.slots \cup {h} /\ pti'.buffers = pti.buffers \cup {b}
      /\ pti'.filters = pti.filters /\ pti'.pid = pti.pid
      /\ pti'.links = pti.links /\ pti'.enabled = pti.enabled
  BY <1>2, SlotCalls DEF DemuxTypeOK
<1>5. DemuxTypeOK'
  <2>1. pti' \in PtiState
    BY <1>2, DriverTypes DEF DemuxTypeOK
  <2>2. QED BY <1>2, <1>3, <2>1 DEF DemuxTypeOK
<1>6. h # NoHandle /\ b # NoHandle
  BY PtiAssumption
<1>7. SectionSlot'[s] = row(h, b)
      /\ \A r \in Slots \ {s} : SectionSlot'[r] = SectionSlot[r]
  BY <1>2 DEF DemuxTypeOK
<1>8. SlotsMove
  <2>1. \A r \in Slots :
          /\ SectionSlot'[r].SlotHandle =
                IF r = s THEN h ELSE SectionSlot[r].SlotHandle
          /\ SectionSlot'[r].BufferHandle =
                IF r = s THEN b ELSE SectionSlot[r].BufferHandle
    BY <1>3, <1>7
  <2>2. SlotPool!Take(s, h)
    BY <1>1, <1>4, <2>1 DEF SlotPool!Take
  <2>3. BufferPool!Take(s, b)
    BY <1>1, <1>4, <2>1 DEF BufferPool!Take
  <2>4. QED BY <2>2, <2>3 DEF SlotsMove, SlotPool!Next, BufferPool!Next
<1>9. FiltersMove
  BY <1>2, <1>4 DEF FiltersMove, FilterPool!poolVars
<1>10. StatusMatchesHandle'
  <2>1. \A f \in Filters : FilterFree(f)' <=>
                            SectionFilter'[f].FilterHandle = NoHandle
    BY <1>2 DEF StatusMatchesHandle, FilterFree
  <2>2. \A r \in Slots :
          /\ SlotFree(r)' <=> (SectionSlot'[r].SlotHandle = NoHandle)
          /\ SlotFree(r)' <=> (SectionSlot'[r].BufferHandle = NoHandle)
    BY <1>3, <1>6, <1>7 DEF StatusMatchesHandle, SlotFree
  <2>3. QED BY <2>1, <2>2 DEF StatusMatchesHandle
<1>11. LinksRecorded'
  BY <1>2, <1>4 DEF LinksRecorded
<1>12. NothingRunsUnowned'
  <2>1. \A r \in Slots : ~ SlotFree(r) =>
          ~ SlotFree(r)' /\ SectionSlot'[r].SlotHandle = SectionSlot[r].SlotHandle
    BY <1>1, <1>7 DEF SlotFree
  <2>2. \A g \in SlotObject : pti'.pid[g] # NoPid => \E r \in Slots :
           ~ SlotFree(r)' /\ SectionSlot'[r].SlotHandle = g
    BY <1>4, <2>1 DEF NothingRunsUnowned
  <2>3. \A l \in pti'.links : \E r \in Slots :
           ~ SlotFree(r)' /\ SectionSlot'[r].SlotHandle = l[2]
    BY <1>4, <2>1 DEF NothingRunsUnowned
  <2>4. \A g \in pti'.enabled : \E f \in Filters :
           ~ FilterFree(f)' /\ SectionFilter'[f].FilterHandle = g
    BY <1>2, <1>4 DEF NothingRunsUnowned, FilterFree
  <2>5. QED BY <2>2, <2>3, <2>4 DEF NothingRunsUnowned
<1>13. QED BY <1>5, <1>8, <1>9, <1>10, <1>11, <1>12, AccountedKept

LEMMA FreeSlotStep ==
    ASSUME DemuxInv, NEW s, NEW err, CH6_Free_Section_Slot(s, err), SlotTaken(s)
    PROVE  DemuxInv' /\ SlotsMove /\ FiltersMove
<1> USE DEF DemuxInv
<1> DEFINE h == SectionSlot[s].SlotHandle
           b == SectionSlot[s].BufferHandle
<1>1. /\ s \in Slots /\ h \in SlotObject /\ b \in BufferObject
      /\ h # NoHandle /\ b # NoHandle
  BY TakenRows, PtiAssumption
<1>2. /\ pti' = SlotDeallocate(BufferDeallocate(pti, b), h)
      /\ SectionSlot' = [SectionSlot EXCEPT ![s] = FreeSlotRow]
      /\ SectionFilter' = SectionFilter
  BY DEF CH6_Free_Section_Slot
<1>3. /\ FreeSlotRow \in SlotRow
      /\ FreeSlotRow.SlotStatus = "FREE"
      /\ FreeSlotRow.SlotHandle = NoHandle
      /\ FreeSlotRow.BufferHandle = NoHandle
  BY SlotRows DEF FreeSlotRow
<1>4. /\ pti'.slots = pti.slots \ {h} /\ pti'.buffers = pti.buffers \ {b}
      /\ pti'.filters = pti.filters /\ pti'.enabled = pti.enabled
      /\ \A x \in SlotObject : pti'.pid[x] = IF x = h THEN NoPid ELSE pti.pid[x]
      /\ pti'.links = {l \in pti.links : l[2] # h}
  <2> HIDE DEF h, b
  <2>1. NoPid \in Pid \cup {NoPid}
    OBVIOUS
  <2>2. QED BY <1>1, <1>2, <2>1, SlotCalls DEF DemuxTypeOK
<1>5. DemuxTypeOK'
  <2>1. pti' \in PtiState
    BY <1>1, <1>2, DriverTypes DEF DemuxTypeOK
  <2>2. QED BY <1>1, <1>2, <1>3, <2>1 DEF DemuxTypeOK
<1>6. /\ SectionSlot'[s] = FreeSlotRow
      /\ \A r \in Slots \ {s} : SectionSlot'[r] = SectionSlot[r]
  BY <1>1, <1>2 DEF DemuxTypeOK
<1>7. SlotsMove
  <2>1. \A r \in Slots :
          /\ SectionSlot'[r].SlotHandle =
                IF r = s THEN NoHandle ELSE SectionSlot[r].SlotHandle
          /\ SectionSlot'[r].BufferHandle =
                IF r = s THEN NoHandle ELSE SectionSlot[r].BufferHandle
    BY <1>3, <1>6
  <2>2. SlotPool!Drop(s)
    BY <1>1, <1>4, <2>1 DEF SlotPool!Drop
  <2>3. BufferPool!Drop(s)
    BY <1>1, <1>4, <2>1 DEF BufferPool!Drop
  <2>4. QED BY <1>1, <2>2, <2>3 DEF SlotsMove, SlotPool!Next, BufferPool!Next
<1>8. FiltersMove
  BY <1>2, <1>4 DEF FiltersMove, FilterPool!poolVars
<1>9. StatusMatchesHandle'
  <2>1. \A f \in Filters : FilterFree(f)' <=>
                            SectionFilter'[f].FilterHandle = NoHandle
    BY <1>2 DEF StatusMatchesHandle, FilterFree
  <2>2. \A r \in Slots :
          /\ SlotFree(r)' <=> (SectionSlot'[r].SlotHandle = NoHandle)
          /\ SlotFree(r)' <=> (SectionSlot'[r].BufferHandle = NoHandle)
    BY <1>3, <1>6 DEF StatusMatchesHandle, SlotFree
  <2>3. QED BY <2>1, <2>2 DEF StatusMatchesHandle
<1>10. LinksRecorded'
  BY <1>2, <1>4 DEF LinksRecorded
<1>11. NothingRunsUnowned'
  <2>1. \A r \in Slots : ~ SlotFree(r) /\ SectionSlot[r].SlotHandle # h =>
          ~ SlotFree(r)' /\ SectionSlot'[r].SlotHandle = SectionSlot[r].SlotHandle
    BY <1>6 DEF SlotFree
  <2>2. \A g \in SlotObject : pti'.pid[g] # NoPid => \E r \in Slots :
           ~ SlotFree(r)' /\ SectionSlot'[r].SlotHandle = g
    BY <1>4, <2>1 DEF NothingRunsUnowned
  <2>3. \A l \in pti'.links : \E r \in Slots :
           ~ SlotFree(r)' /\ SectionSlot'[r].SlotHandle = l[2]
    BY <1>4, <2>1 DEF NothingRunsUnowned
  <2>4. \A g \in pti'.enabled : \E f \in Filters :
           ~ FilterFree(f)' /\ SectionFilter'[f].FilterHandle = g
    BY <1>2, <1>4 DEF NothingRunsUnowned, FilterFree
  <2>5. QED BY <2>2, <2>3, <2>4 DEF NothingRunsUnowned
<1>12. QED BY <1>5, <1>7, <1>8, <1>9, <1>10, <1>11, AccountedKept

LEMMA AllocateFilterStep ==
    ASSUME DemuxInv, NEW f \in Filters, AllocateFilterAt(f)
    PROVE  DemuxInv' /\ SlotsMove /\ FiltersMove
<1> USE DEF DemuxInv
<1>1. FilterFree(f) /\ SectionFilter[f].FilterHandle = NoHandle
      /\ SectionFilter[f] \in FilterRow
  BY DEF AllocateFilterAt, IsFirst, StatusMatchesHandle, DemuxTypeOK
<1> DEFINE row(h) == [FilterStatus |-> "IN_USE", FilterHandle |-> h,
                      SlotHandle |-> SectionFilter[f].SlotHandle]
<1>2. PICK h \in FilterObject \ pti.filters :
         /\ pti' = FilterAllocate(pti, h)
         /\ SectionFilter' = [SectionFilter EXCEPT ![f] = row(h)]
         /\ SectionSlot' = SectionSlot
  BY DEF AllocateFilterAt
<1>3. /\ row(h) \in FilterRow
      /\ row(h).FilterStatus = "IN_USE"
      /\ row(h).FilterHandle = h
      /\ h # NoHandle
  BY <1>1, FilterRows, PtiAssumption
<1> HIDE DEF row
<1>4. /\ pti'.slots = pti.slots /\ pti'.buffers = pti.buffers
      /\ pti'.filters = pti.filters \cup {h} /\ pti'.pid = pti.pid
      /\ pti'.links = pti.links /\ pti'.enabled = pti.enabled
  BY <1>2, FilterCalls DEF DemuxTypeOK
<1>5. DemuxTypeOK'
  <2>1. pti' \in PtiState
    BY <1>2, DriverTypes DEF DemuxTypeOK
  <2>2. QED BY <1>2, <1>3, <2>1 DEF DemuxTypeOK
<1>6. /\ SectionFilter'[f] = row(h)
      /\ \A g \in Filters \ {f} : SectionFilter'[g] = SectionFilter[g]
  BY <1>2 DEF DemuxTypeOK
<1>7. \A g \in Filters : ~ FilterFree(g) =>
        ~ FilterFree(g)' /\ SectionFilter'[g] = SectionFilter[g]
  BY <1>1, <1>6 DEF FilterFree
<1>8. FiltersMove
  <2>1. \A g \in Filters : SectionFilter'[g].FilterHandle =
           IF g = f THEN h ELSE SectionFilter[g].FilterHandle
    BY <1>3, <1>6
  <2>2. FilterPool!Take(f, h)
    BY <1>1, <1>4, <2>1 DEF FilterPool!Take
  <2>3. QED BY <2>2 DEF FiltersMove, FilterPool!Next
<1>9. SlotsMove
  BY <1>2, <1>4 DEF SlotsMove, SlotPool!poolVars, BufferPool!poolVars
<1>10. StatusMatchesHandle'
  <2>1. \A g \in Filters : FilterFree(g)' <=>
                            (SectionFilter'[g].FilterHandle = NoHandle)
    BY <1>3, <1>6 DEF StatusMatchesHandle, FilterFree
  <2>2. \A r \in Slots :
          /\ SlotFree(r)' <=> (SectionSlot'[r].SlotHandle = NoHandle)
          /\ SlotFree(r)' <=> (SectionSlot'[r].BufferHandle = NoHandle)
    BY <1>2 DEF StatusMatchesHandle, SlotFree
  <2>3. QED BY <2>1, <2>2 DEF StatusMatchesHandle
<1>11. LinksRecorded'
  <2>1. \A l \in pti.links : l[1] # NoHandle
    BY PtiAssumption DEF DemuxTypeOK, PtiState
  <2>2. \A g \in Filters : SectionFilter[g].FilterHandle # NoHandle =>
           SectionFilter'[g] = SectionFilter[g]
    BY <1>1, <1>6
  <2>3. QED BY <1>4, <2>1, <2>2 DEF LinksRecorded
<1>12. NothingRunsUnowned'
  <2>1. \A g \in pti'.enabled : \E x \in Filters :
           ~ FilterFree(x)' /\ SectionFilter'[x].FilterHandle = g
    BY <1>4, <1>7 DEF NothingRunsUnowned
  <2>2. QED BY <1>2, <1>4, <2>1 DEF NothingRunsUnowned, SlotFree
<1>13. QED BY <1>5, <1>8, <1>9, <1>10, <1>11, <1>12, AccountedKept

LEMMA FreeFilterStep ==
    ASSUME DemuxInv, NEW f, NEW err, CH6_Free_Section_Filter(f, err),
           FilterTaken(f)
    PROVE  DemuxInv' /\ SlotsMove /\ FiltersMove
<1> USE DEF DemuxInv
<1> DEFINE fh == SectionFilter[f].FilterHandle
           sh == SectionFilter[f].SlotHandle
<1>1. f \in Filters /\ ~ FilterFree(f) /\ fh \in FilterObject /\ fh # NoHandle
  BY TakenRows, PtiAssumption
<1>2. /\ pti' = FilterDeallocate(FilterDisassociate(pti, fh, sh), fh)
      /\ SectionFilter' = [SectionFilter EXCEPT ![f] = FreeFilterRow]
      /\ \E s \in Slots \cup {None} :
            SectionSlot' = IF s = None THEN SectionSlot
                           ELSE [SectionSlot EXCEPT ![s].FilterCount = Pred8(@)]
  BY DEF CH6_Free_Section_Filter, ClearRow
<1>3. /\ pti' \in PtiState
      /\ pti'.filters = pti.filters \ {fh}
      /\ pti'.slots = pti.slots /\ pti'.buffers = pti.buffers
      /\ pti'.pid = pti.pid
      /\ pti'.links = {l \in pti.links : l[1] # fh}
      /\ pti'.enabled = pti.enabled \ {fh}
  <2> HIDE DEF fh, sh
  <2>1. QED BY <1>1, <1>2, FilterCalls DEF DemuxTypeOK
<1>4. /\ FreeFilterRow \in FilterRow
      /\ FreeFilterRow.FilterStatus = "FREE"
      /\ FreeFilterRow.FilterHandle = NoHandle
  BY FilterRows DEF FreeFilterRow
<1>5. SectionSlot' \in [Slots -> SlotRow] /\ SlotTableKept
  <2>1. CASE SectionSlot' = SectionSlot
    BY <2>1, <1>3 DEF DemuxTypeOK, SlotTableKept
  <2>2. ASSUME NEW s \in Slots,
               SectionSlot' = [SectionSlot EXCEPT ![s].FilterCount = Pred8(@)]
        PROVE  SectionSlot' \in [Slots -> SlotRow] /\ SlotTableKept
    <3>1. PICK n \in 0 .. CountMod - 1 :
             SectionSlot' = [SectionSlot EXCEPT ![s].FilterCount = n]
      BY <2>2, SlotRows, Counting DEF DemuxTypeOK
    <3>2. SectionSlot' \in [Slots -> SlotRow]
      BY <3>1, SlotRows DEF DemuxTypeOK
    <3>3. SlotTableKept
      BY <3>1, <1>3 DEF DemuxTypeOK, SlotTableKept, SlotRow
    <3>4. QED BY <3>2, <3>3
  <2>3. QED BY <1>2, <2>1, <2>2
<1>6. DemuxTypeOK'
  BY <1>1, <1>2, <1>3, <1>4, <1>5 DEF DemuxTypeOK
<1>7. /\ SectionFilter'[f] = FreeFilterRow
      /\ \A g \in Filters \ {f} : SectionFilter'[g] = SectionFilter[g]
  BY <1>1, <1>2 DEF DemuxTypeOK
<1>8. FiltersMove
  <2>1. \A g \in Filters : SectionFilter'[g].FilterHandle =
           IF g = f THEN NoHandle ELSE SectionFilter[g].FilterHandle
    BY <1>4, <1>7
  <2>2. FilterPool!Drop(f)
    BY <1>1, <1>3, <2>1 DEF FilterPool!Drop
  <2>3. QED BY <1>1, <2>2 DEF FiltersMove, FilterPool!Next
<1>9. SlotsMove
  BY <1>5, SlotTableStutter DEF SlotsMove
<1>10. StatusMatchesHandle'
  <2>1. \A g \in Filters : FilterFree(g)' <=>
                            (SectionFilter'[g].FilterHandle = NoHandle)
    BY <1>4, <1>7 DEF StatusMatchesHandle, FilterFree
  <2>2. \A r \in Slots :
          /\ SlotFree(r)' <=> (SectionSlot'[r].SlotHandle = NoHandle)
          /\ SlotFree(r)' <=> (SectionSlot'[r].BufferHandle = NoHandle)
    BY <1>5 DEF StatusMatchesHandle, SlotFree, SlotTableKept
  <2>3. QED BY <2>1, <2>2 DEF StatusMatchesHandle
<1>11. LinksRecorded'
  <2>1. \A g \in Filters : SectionFilter[g].FilterHandle # fh =>
           SectionFilter'[g] = SectionFilter[g]
    BY <1>7
  <2>2. QED BY <1>3, <2>1 DEF LinksRecorded
<1>12. NothingRunsUnowned'
  <2>1. \A g \in Filters :
           ~ FilterFree(g) /\ SectionFilter[g].FilterHandle # fh =>
             ~ FilterFree(g)' /\ SectionFilter'[g] = SectionFilter[g]
    BY <1>7 DEF FilterFree
  <2>2. \A g \in pti'.enabled : \E x \in Filters :
           ~ FilterFree(x)' /\ SectionFilter'[x].FilterHandle = g
    BY <1>3, <2>1 DEF NothingRunsUnowned
  <2>3. \A r \in Slots : /\ SlotFree(r)' <=> SlotFree(r)
                         /\ SectionSlot'[r].SlotHandle = SectionSlot[r].SlotHandle
    BY <1>5 DEF SlotTableKept, SlotFree
  <2>4. QED BY <1>3, <2>2, <2>3 DEF NothingRunsUnowned
<1>13. QED BY <1>6, <1>8, <1>9, <1>10, <1>11, <1>12, AccountedKept

(* The one place the client discipline is used: had f been associated       *)
(* before, its old link would be recorded nowhere.                          *)
LEMMA AssociateStep ==
    ASSUME DemuxInv, NEW s, NEW f, NEW err, BothUsable(s, f),
           NotYetAssociated(f), CH6_Associate_Slot_Filter(s, f, err),
           ~ UNCHANGED demuxVars
    PROVE  DemuxInv' /\ SlotsMove /\ FiltersMove
<1> USE DEF DemuxInv
<1> DEFINE fh == SectionFilter[f].FilterHandle
           sh == SectionSlot[s].SlotHandle
<1>1. /\ s \in Slots /\ SectionSlot[s] \in SlotRow /\ ~ SlotFree(s)
      /\ sh \in SlotObject
      /\ f \in Filters /\ SectionFilter[f] \in FilterRow /\ ~ FilterFree(f)
      /\ fh \in FilterObject
      /\ SectionFilter[f].SlotHandle = NoHandle
  BY TakenRows DEF BothUsable, FilterUsable, SlotTaken, NotYetAssociated
<1>2. /\ pti' = FilterDisable(FilterAssociate(pti, fh, sh), fh)
      /\ SectionFilter' = [SectionFilter EXCEPT ![f].SlotHandle = sh]
      /\ SectionSlot' = [SectionSlot EXCEPT ![s].FilterCount = Succ8(@)]
  BY DEF CH6_Associate_Slot_Filter, RecordLink, Failed
<1>3. /\ pti' \in PtiState
      /\ pti'.slots = pti.slots /\ pti'.buffers = pti.buffers
      /\ pti'.filters = pti.filters /\ pti'.pid = pti.pid
      /\ pti'.links = pti.links \cup {<<fh, sh>>}
      /\ pti'.enabled \subseteq pti.enabled
  <2> HIDE DEF fh, sh
  <2> DEFINE q == FilterAssociate(pti, fh, sh)
  <2>1. /\ q \in PtiState
        /\ q.slots = pti.slots /\ q.buffers = pti.buffers
        /\ q.filters = pti.filters /\ q.pid = pti.pid
        /\ q.links = pti.links \cup {<<fh, sh>>} /\ q.enabled = pti.enabled
    BY <1>1 DEF DemuxTypeOK, PtiState, FilterAssociate
  <2>2. pti' = FilterDisable(q, fh)
    BY <1>2
  <2> HIDE DEF q
  <2>3. QED BY <2>1, <2>2 DEF PtiState, FilterDisable
<1>4. PICK n \in 0 .. CountMod - 1 :
         SectionSlot' = [SectionSlot EXCEPT ![s].FilterCount = n]
  BY <1>1, <1>2, SlotRows, Counting
<1>5. SectionSlot' \in [Slots -> SlotRow] /\ SlotTableKept
  <2>1. SectionSlot' \in [Slots -> SlotRow]
    BY <1>1, <1>4, SlotRows DEF DemuxTypeOK
  <2>2. SlotTableKept
    BY <1>1, <1>3, <1>4 DEF DemuxTypeOK, SlotTableKept, SlotRow
  <2>3. QED BY <2>1, <2>2
<1>6. SectionFilter' \in [Filters -> FilterRow]
  BY <1>1, <1>2, FilterRows DEF DemuxTypeOK
<1>7. DemuxTypeOK'
  BY <1>3, <1>5, <1>6 DEF DemuxTypeOK
<1>8. /\ \A g \in Filters :
            /\ FilterFree(g)' <=> FilterFree(g)
            /\ SectionFilter'[g].FilterHandle = SectionFilter[g].FilterHandle
      /\ SectionFilter'[f].SlotHandle = sh
      /\ \A g \in Filters \ {f} : SectionFilter'[g] = SectionFilter[g]
  BY <1>1, <1>2 DEF DemuxTypeOK, FilterRow, FilterFree
<1>9. SlotsMove /\ FiltersMove
  BY <1>3, <1>5, <1>8, SlotTableStutter
     DEF SlotsMove, FiltersMove, FilterPool!poolVars
<1>10. StatusMatchesHandle'
  BY <1>5, <1>8 DEF StatusMatchesHandle, SlotTableKept, SlotFree
<1>11. LinksRecorded'
  <2>1. \A l \in pti.links : l[2] # NoHandle
    BY PtiAssumption DEF DemuxTypeOK, PtiState
  <2>2. ASSUME NEW l \in pti.links
        PROVE  \E g \in Filters : /\ SectionFilter'[g].FilterHandle = l[1]
                                  /\ SectionFilter'[g].SlotHandle = l[2]
    <3>1. PICK g \in Filters : /\ SectionFilter[g].FilterHandle = l[1]
                               /\ SectionFilter[g].SlotHandle = l[2]
      BY DEF LinksRecorded
    <3>2. g # f
      BY <1>1, <2>1, <3>1
    <3>3. QED BY <1>8, <3>1, <3>2
  <2>3. \E g \in Filters : /\ SectionFilter'[g].FilterHandle = <<fh, sh>>[1]
                           /\ SectionFilter'[g].SlotHandle = <<fh, sh>>[2]
    BY <1>1, <1>8
  <2>4. QED BY <1>3, <2>2, <2>3 DEF LinksRecorded
<1>12. NothingRunsUnowned'
  <2>1. \A r \in Slots : /\ SlotFree(r)' <=> SlotFree(r)
                         /\ SectionSlot'[r].SlotHandle = SectionSlot[r].SlotHandle
    BY <1>5 DEF SlotTableKept, SlotFree
  <2>2. \A l \in pti'.links : \E r \in Slots :
           ~ SlotFree(r)' /\ SectionSlot'[r].SlotHandle = l[2]
    <3>1. \A l \in pti.links : \E r \in Slots :
             ~ SlotFree(r)' /\ SectionSlot'[r].SlotHandle = l[2]
      BY <2>1 DEF NothingRunsUnowned
    <3>2. ~ SlotFree(s)' /\ SectionSlot'[s].SlotHandle = <<fh, sh>>[2]
      BY <1>1, <2>1
    <3>3. QED BY <1>1, <1>3, <3>1, <3>2
  <2>3. \A h \in SlotObject : pti'.pid[h] # NoPid => \E r \in Slots :
           ~ SlotFree(r)' /\ SectionSlot'[r].SlotHandle = h
    BY <1>3, <2>1 DEF NothingRunsUnowned
  <2>4. \A h \in pti'.enabled : \E g \in Filters :
           ~ FilterFree(g)' /\ SectionFilter'[g].FilterHandle = h
    BY <1>3, <1>8 DEF NothingRunsUnowned
  <2>5. QED BY <2>2, <2>3, <2>4 DEF NothingRunsUnowned
<1>13. QED BY <1>7, <1>9, <1>10, <1>11, <1>12, AccountedKept

-----------------------------------------------------------------------------
LEMMA QuietMoves ==
    ASSUME DemuxInv, DemuxTypeOK', Quiet
    PROVE  DemuxInv' /\ SlotsMove /\ FiltersMove
BY QuietStep, SlotTableStutter, FilterTableStutter
   DEF DemuxInv, Quiet, SlotsMove, FiltersMove

(* Every step keeps the invariant and is, for each pool, one row taking or  *)
(* dropping one object, or nothing.                                         *)
LEMMA DemuxStep ==
    ASSUME DemuxInv, [DemuxNext]_demuxVars
    PROVE  DemuxInv' /\ SlotsMove /\ FiltersMove
<1> USE DEF DemuxInv
<1>1. CASE UNCHANGED demuxVars
  BY <1>1, UnchangedQuiet, QuietMoves
<1>2. ASSUME NEW ret \in SlotArg, CH6_Allocate_Section_Slot(ret)
      PROVE  DemuxInv' /\ SlotsMove /\ FiltersMove
  BY <1>2, FailedAllocationQuiet, QuietMoves, AllocateSlotStep
     DEF CH6_Allocate_Section_Slot
<1>3. ASSUME NEW ret \in FilterArg, CH6_Allocate_Section_Filter(ret)
      PROVE  DemuxInv' /\ SlotsMove /\ FiltersMove
  BY <1>3, FailedAllocationQuiet, QuietMoves, AllocateFilterStep
     DEF CH6_Allocate_Section_Filter
<1>4. ASSUME NEW s \in SlotArg, NEW err \in BOOLEAN, SlotStep(s, err),
             ~ UNCHANGED demuxVars
      PROVE  DemuxInv' /\ SlotsMove /\ FiltersMove
  <2>1. CASE \E v \in Pid : CH6_Set_Slot_Pid(s, v, err)
    BY <2>1, SetPidQuiet, QuietMoves
  <2>2. CASE CH6_Free_Section_Slot(s, err)
    BY <1>4, <2>2, FreeSlotStep DEF CH6_Free_Section_Slot, Failed
  <2>3. CASE CH6_Start_Slot(s, err) \/ CH6_Stop_Slot(s, err)
    BY <2>3, StartStopSlotQuiet, QuietMoves
  <2>4. QED BY <1>4, <2>1, <2>2, <2>3 DEF SlotStep
<1>5. ASSUME NEW f \in FilterArg, NEW err \in BOOLEAN, FilterStep(f, err),
             ~ UNCHANGED demuxVars
      PROVE  DemuxInv' /\ SlotsMove /\ FiltersMove
  <2>1. CASE CH6_Free_Section_Filter(f, err)
    BY <1>5, <2>1, FreeFilterStep DEF CH6_Free_Section_Filter, Failed
  <2>2. CASE \/ CH6_Set_Filter(f, err)
             \/ CH6_Start_Filter(f, err) \/ CH6_Stop_Filter(f, err)
             \/ CH6_ReenableFilter(f, err) \/ CH6_StopFilter(f, err)
    BY <2>2, ArmFilterQuiet, QuietMoves
  <2>3. QED BY <1>5, <2>1, <2>2 DEF FilterStep
<1>6. ASSUME NEW s \in SlotArg, NEW f \in FilterArg, NEW err \in BOOLEAN,
             LinkStep(s, f, err), ~ UNCHANGED demuxVars
      PROVE  DemuxInv' /\ SlotsMove /\ FiltersMove
  <2>1. CASE NotYetAssociated(f) /\ CH6_Associate_Slot_Filter(s, f, err)
    BY <1>6, <2>1, AssociateStep DEF CH6_Associate_Slot_Filter, Failed
  <2>2. CASE f \in Filters /\ s \in Slots
             /\ CH6_DisAssociate_Slot_Filter(s, f, err)
    BY <2>2, DisAssociateQuiet, QuietMoves
  <2>3. QED BY <1>6, <2>1, <2>2 DEF LinkStep
<1>7. QED BY <1>1, <1>2, <1>3, <1>4, <1>5, <1>6 DEF DemuxNext

LEMMA DemuxInitInv == DemuxInit => DemuxInv
<1> SUFFICES ASSUME DemuxInit PROVE DemuxInv
  OBVIOUS
<1> USE DEF DemuxInit, PtiInit
<1>1. DemuxTypeOK
  BY SlotRows, FilterRows DEF DemuxTypeOK, PtiState
<1>2. StatusMatchesHandle
  BY DEF StatusMatchesHandle, SlotFree, FilterFree, FreeSlotRow, FreeFilterRow
<1>3. HandlesAccounted
  BY DEF HandlesAccounted, SlotPool!Accounted, BufferPool!Accounted,
         FilterPool!Accounted, FreeSlotRow, FreeFilterRow
<1>4. LinksRecorded /\ NothingRunsUnowned
  BY DEF LinksRecorded, NothingRunsUnowned
<1>5. QED BY <1>1, <1>2, <1>3, <1>4 DEF DemuxInv

-----------------------------------------------------------------------------
(* The four invariants of the tables and their types, in one: whatever the  *)
(* clients call and whatever the driver refuses.                            *)
THEOREM DemuxInvariant == DemuxSpec => []DemuxInv
<1>1. DemuxInv /\ [DemuxNext]_demuxVars => DemuxInv'
  BY DemuxStep
<1>2. QED BY <1>1, DemuxInitInv, PTL DEF DemuxSpec

(* The rows and the driver state stay within their types; the counter       *)
(* wraps rather than leaving its width.                                     *)
THEOREM DemuxTypeCorrect == DemuxSpec => []DemuxTypeOK
<1>1. DemuxInv => DemuxTypeOK
  BY DEF DemuxInv
<1>2. QED BY <1>1, DemuxInvariant, PTL

(* The status guards of chdemux.c and the handle guards of sectionbase.c    *)
(* accept the same rows.                                                    *)
THEOREM GuardsAgree == DemuxSpec => []StatusMatchesHandle
<1>1. DemuxInv => StatusMatchesHandle
  BY DEF DemuxInv
<1>2. QED BY <1>1, DemuxInvariant, PTL

(* No driver object leaks, dangles or is shared by two rows.                *)
THEOREM NoHandleLost == DemuxSpec => []HandlesAccounted
<1>1. DemuxInv => HandlesAccounted
  BY DEF DemuxInv
<1>2. QED BY <1>1, DemuxInvariant, PTL

(* A captured section is attributed to the slot the driver captured it on.  *)
THEOREM CapturesAttributed == DemuxSpec => []LinksRecorded
<1>1. DemuxInv => LinksRecorded
  BY DEF DemuxInv
<1>2. QED BY <1>1, DemuxInvariant, PTL

(* What a client freed no longer collects, matches or signals.              *)
THEOREM FreedIsQuiet == DemuxSpec => []NothingRunsUnowned
<1>1. DemuxInv => NothingRunsUnowned
  BY DEF DemuxInv
<1>2. QED BY <1>1, DemuxInvariant, PTL

(* The tables implement three abstract pools.                               *)
THEOREM PoolsRefined == DemuxSpec => PoolsImplemented
<1>1. DemuxInit => SlotPool!Init /\ BufferPool!Init /\ FilterPool!Init
  BY DEF DemuxInit, PtiInit, FreeSlotRow, FreeFilterRow, SlotPool!Init,
         BufferPool!Init, FilterPool!Init
<1>2. DemuxInv /\ [DemuxNext]_demuxVars => SlotsMove /\ FiltersMove
  BY DemuxStep
<1>3. DemuxInv /\ [DemuxNext]_demuxVars
        => /\ [SlotPool!Next]_SlotPool!poolVars
           /\ [BufferPool!Next]_BufferPool!poolVars
           /\ [FilterPool!Next]_FilterPool!poolVars
  BY <1>2 DEF SlotsMove, FiltersMove
<1>4. DemuxSpec => [][DemuxNext]_demuxVars /\ DemuxInit
  BY DEF DemuxSpec
<1>5. QED BY <1>1, <1>3, <1>4, DemuxInvariant, PTL
          DEF PoolsImplemented, SlotPool!Spec, BufferPool!Spec, FilterPool!Spec
=============================================================================
