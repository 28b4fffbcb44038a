------------------------- MODULE DemuxClients_proofs -------------------------
(***************************************************************************)
(* The browser and the conditional-access kernel together stay within what  *)
(* ChDemux assumes of its clients, so the system of both implements         *)
(* DemuxSpec and inherits its theorems.  And while their PIDs are apart,     *)
(* what one of them runs is not disturbed by the other: the slots' counts    *)
(* account for both clients' filters at every place either of them can be    *)
(* (Accounts), whatever the other does between two of its calls.             *)
(***************************************************************************)
EXTENDS DemuxClients, EisDemux_proofs, FiniteSetTheorems

(* Where the kernel's operation may stand.                                  *)
DdiPlaced ==
    /\ ~ Doing("idle") => ddi.fl \in Filters
    /\ ddi.at \in {"allocate", "set pid", "set", "associate"} => ~ Info.defined
    /\ ddi.at \in {"allocate", "set pid"} => Info.FilterPID \in CaPid

(* A filter is associated once: the kernel does not set again what          *)
(* StopAllEcmFilter took out of use.                                        *)
ClientsIInv == /\ ~ SetsAgain
               /\ ClientsInv /\ FiltersDivided /\ DdiPlaced

(* What the CA base does with the kernel's filters between two operations.  *)
BaseWorks ==
    \/ StopAllEcmFilter
    \/ \E f \in Filters : CHCA_MgFilterDelayCheck(f) \/ reset_set(f)

-----------------------------------------------------------------------------
(* What the table operations do to the filter rows.                         *)
RowKept(g) == /\ FilterFree(g)' <=> FilterFree(g)
              /\ SectionFilter'[g].SlotHandle = SectionFilter[g].SlotHandle

RowsKept   == \A g \in Filters : RowKept(g)
OthersKept(f) == \A g \in Filters \ {f} : RowKept(g)

LEMMA UnchangedRows == SectionFilter' = SectionFilter => RowsKept
BY DEF RowsKept, RowKept, FilterFree

LEMMA SlotOpsKeepRows ==
    ASSUME NEW s, NEW v, NEW err,
           \/ CH6_Allocate_Section_Slot(s) \/ CH6_Set_Slot_Pid(s, v, err)
           \/ CH6_Free_Section_Slot(s, err)
           \/ CH6_Start_Slot(s, err) \/ CH6_Stop_Slot(s, err)
    PROVE  RowsKept
<1>1. SectionFilter' = SectionFilter
  BY DEF CH6_Allocate_Section_Slot, AllocateSlotFails, AllocateSlotAt,
         CH6_Set_Slot_Pid, CH6_Free_Section_Slot, CH6_Start_Slot,
         CH6_Stop_Slot, Failed, demuxVars
<1> QED BY <1>1, UnchangedRows

LEMMA ArmingKeepsRows ==
    ASSUME DemuxTypeOK, NEW f, NEW err,
           \/ CH6_Set_Filter(f, err)
           \/ CH6_Start_Filter(f, err) \/ CH6_Stop_Filter(f, err)
    PROVE  RowsKept
<1>1. CASE SectionFilter' = SectionFilter
  BY <1>1, UnchangedRows
<1>2. CASE SectionFilter' # SectionFilter
  <2>1. /\ f \in Filters /\ ~ FilterFree(f)
        /\ \E t \in {"IN_USE", "DONE"} :
              SectionFilter' = [SectionFilter EXCEPT ![f].FilterStatus = t]
    BY <1>2 DEF CH6_Set_Filter, CH6_Start_Filter, CH6_Stop_Filter, StoppedRow,
                FilterUsable, FilterTaken, Failed, demuxVars
  <2> QED BY <2>1 DEF RowsKept, RowKept, FilterFree, DemuxTypeOK, FilterRow
<1> QED BY <1>1, <1>2

LEMMA AllocatedRow ==
    ASSUME DemuxTypeOK, NEW f, CH6_Allocate_Section_Filter(f)
    PROVE  \/ f = None /\ RowsKept
           \/ /\ f \in Filters /\ OthersKept(f)
              /\ FilterFree(f) /\ ~ FilterFree(f)'
              /\ SectionFilter'[f].SlotHandle = SectionFilter[f].SlotHandle
<1>1. CASE f = None
  <2>1. SectionFilter' = SectionFilter
    BY <1>1 DEF CH6_Allocate_Section_Filter, AllocateFilterFails, Filters, None
  <2> QED BY <1>1, <2>1, UnchangedRows
<1>2. CASE f # None
  <2>1. f \in Filters /\ AllocateFilterAt(f) /\ FilterFree(f)
    BY <1>2 DEF CH6_Allocate_Section_Filter, AllocateFilterAt, IsFirst
  <2>2. PICK h \in FilterObject :
           SectionFilter' = [SectionFilter EXCEPT ![f] =
                               [FilterStatus |-> "IN_USE", FilterHandle |-> h,
                                SlotHandle |-> SectionFilter[f].SlotHandle]]
    BY <2>1 DEF AllocateFilterAt
  <2> QED BY <2>1, <2>2 DEF OthersKept, RowKept, FilterFree, DemuxTypeOK
<1> QED BY <1>1, <1>2

LEMMA FreedRows ==
    ASSUME DemuxTypeOK, NEW f, NEW err \in BOOLEAN, CH6_Free_Section_Filter(f, err)
    PROVE  /\ err => RowsKept
           /\ ~ err => /\ f \in Filters /\ OthersKept(f)
                       /\ FilterFree(f)' /\ NotYetAssociated(f)'
<1>1. CASE err
  <2>1. SectionFilter' = SectionFilter
    BY <1>1 DEF CH6_Free_Section_Filter, Failed, demuxVars
  <2> QED BY <1>1, <2>1, UnchangedRows
<1>2. CASE ~ err
  <2>1. /\ f \in Filters
        /\ SectionFilter' = [SectionFilter EXCEPT ![f] = FreeFilterRow]
    BY <1>2 DEF CH6_Free_Section_Filter, ClearRow, FilterTaken, Failed
  <2> QED BY <1>2, <2>1 DEF OthersKept, RowKept, FilterFree, DemuxTypeOK,
                            NotYetAssociated, FreeFilterRow
<1> QED BY <1>1, <1>2

LEMMA AssociatedRow ==
    ASSUME DemuxTypeOK, NEW s, NEW f, NEW err \in BOOLEAN,
           CH6_Associate_Slot_Filter(s, f, err)
    PROVE  /\ err => RowsKept
           /\ ~ err => /\ f \in Filters /\ s \in Slots /\ OthersKept(f)
                       /\ ~ FilterFree(f) /\ ~ FilterFree(f)'
<1>1. CASE err
  <2>1. SectionFilter' = SectionFilter
    BY <1>1 DEF CH6_Associate_Slot_Filter, Failed, demuxVars
  <2> QED BY <1>1, <2>1, UnchangedRows
<1>2. CASE ~ err
  <2>1. PICK h : /\ f \in Filters /\ s \in Slots /\ ~ FilterFree(f)
                 /\ SectionFilter' = [SectionFilter EXCEPT ![f].SlotHandle = h]
    BY <1>2 DEF CH6_Associate_Slot_Filter, BothUsable, FilterUsable, SlotTaken,
                FilterTaken, RecordLink, Failed
  <2> QED BY <1>2, <2>1 DEF OthersKept, RowKept, FilterFree, DemuxTypeOK, FilterRow
<1> QED BY <1>1, <1>2

-----------------------------------------------------------------------------
(* The kernel's calls are operations of the tables with arguments in range, *)
(* and it associates only a filter that carries no slot.                    *)
LEMMA KernelCalls ==
    ASSUME ClientsIInv, CaClient
    PROVE  [DemuxNext]_demuxVars
<1> USE DEF SlotArg, FilterArg
<1>1. /\ held \subseteq Filters /\ ddi.fl \in FilterArg
      /\ \A f \in Filters : FDmxFlterInfo[f].SlotId \in SlotArg
  BY DEF ClientsIInv, ClientsInv, MgTypeOK, InfoRow, Operation
<1>2. ~ Doing("idle") => ddi.fl \in Filters /\ Slot \in SlotArg
  BY <1>1 DEF ClientsIInv, DdiPlaced, Slot, Info
<1>3. CASE MGDDISrcAllocDmxFltr
  BY <1>3 DEF MGDDISrcAllocDmxFltr, DemuxNext
<1>4. CASE set_allocate
  BY <1>4 DEF set_allocate, DemuxNext
<1>5. CASE set_pid
  <2>1. Doing("set pid") /\ CH6_Set_Slot_Pid(Slot, Info.FilterPID, FALSE)
    BY <1>5 DEF set_pid
  <2>2. Info.FilterPID \in Pid /\ Slot \in SlotArg
    BY <1>2, <2>1, MgDmxFilterAssumption DEF ClientsIInv, DdiPlaced, Doing
  <2> QED BY <2>1, <2>2 DEF DemuxNext, SlotStep
<1>6. CASE set_filter
  BY <1>1, <1>6 DEF set_filter, DemuxNext, FilterStep
<1>7. CASE set_associate
  <2>1. PICK err \in BOOLEAN : CH6_Associate_Slot_Filter(Slot, ddi.fl, err)
    BY <1>7 DEF set_associate
  <2>2. Doing("associate")
    BY <1>7 DEF set_associate
  <2>3. ddi.fl \in held /\ ~ FDmxFlterInfo[ddi.fl].defined
    BY <2>2 DEF ClientsIInv, FiltersDivided, DdiPlaced, Doing, Info
  <2>4. NotYetAssociated(ddi.fl) /\ Slot \in SlotArg
    BY <1>2, <2>2, <2>3 DEF ClientsIInv, ClientsInv, Doing
  <2> QED BY <1>1, <2>1, <2>4 DEF DemuxNext, LinkStep
<1>8. ASSUME NEW f \in Filters, start_slot(f)
      PROVE  DemuxNext
  BY <1>1, <1>8 DEF start_slot, DemuxNext, SlotStep
<1>9. CASE start_filter
  BY <1>1, <1>9 DEF start_filter, DemuxNext, FilterStep
<1>10. CASE stop_filter
  BY <1>1, <1>10 DEF stop_filter, DemuxNext, FilterStep
<1>11. CASE stop_slot
  BY <1>2, <1>11 DEF stop_slot, Doing, DemuxNext, SlotStep
<1>12. CASE free_filter
  BY <1>1, <1>12 DEF free_filter, DemuxNext, FilterStep
<1>13. CASE free_slot
  BY <1>2, <1>13 DEF free_slot, Doing, DemuxNext, SlotStep
<1>14. CASE \/ \E f \in Filters, v \in CaPid : set_find(f, v)
            \/ \E f \in Filters : stop_count(f) \/ free_count(f)
            \/ StopAllEcmFilter
            \/ \E f \in Filters : CHCA_MgFilterDelayCheck(f)
  BY <1>14 DEF set_find, stop_count, free_count, StopAllEcmFilter,
               CHCA_MgFilterDelayCheck
<1>15. ASSUME NEW f \in Filters, reset_set(f)
       PROVE  DemuxNext
  BY <1>1, <1>15 DEF reset_set, DemuxNext, FilterStep
<1> QED
  BY <1>3, <1>4, <1>5, <1>6, <1>7, <1>8, <1>9, <1>10, <1>11, <1>12, <1>13,
     <1>14, <1>15 DEF CaClient

-----------------------------------------------------------------------------
(* The four ways an operation of the kernel moves filter rows: not at all,  *)
(* one taken, one given back, one associated.                               *)
DefinedKept(S) ==
    \A g \in S : FDmxFlterInfo'[g].defined = FDmxFlterInfo[g].defined

NoneMoved == /\ RowsKept
             /\ held' = held
             /\ DefinedKept(held)

Taken(f) == /\ f \in Filters /\ OthersKept(f)
            /\ FilterFree(f) /\ ~ FilterFree(f)'
            /\ SectionFilter'[f].SlotHandle = SectionFilter[f].SlotHandle
            /\ held' = held \cup {f}
            /\ DefinedKept(held)

GivenBack(f) == /\ f \in held /\ OthersKept(f)
                /\ FilterFree(f)' /\ NotYetAssociated(f)'
                /\ held' = held \ {f}
                /\ DefinedKept(held \ {f})

Associated(f) == /\ f \in held /\ OthersKept(f)
                 /\ ~ FilterFree(f)'
                 /\ held' = held
                 /\ FDmxFlterInfo'[f].defined
                 /\ DefinedKept(held \ {f})

DdiNamesHeld == ~ Doing("idle") /\ ~ Doing("free slot") => ddi.fl \in held

LEMMA KernelMoves ==
    ASSUME ClientsIInv, UNCHANGED clientVars, MgTypeOK', DdiNamesHeld', NEW f,
           NoneMoved \/ Taken(f) \/ GivenBack(f) \/ Associated(f)
    PROVE  ClientsInv' /\ FiltersDivided'
<1> USE DEF ClientsIInv, ClientsInv, FiltersDivided
<1>1. held \subseteq Filters /\ BrowserFilters \subseteq Filters
  BY DEF MgTypeOK, BrowserFilters
<1>2. /\ BrowserFilters' = BrowserFilters /\ call' = call
      /\ At("associate")' <=> At("associate")
      /\ EisTypeOK'
  BY DEF clientVars, BrowserFilters, At, EisInv, EisTypeOK
<1>3. \A g \in Filters : RowKept(g) /\ NotYetAssociated(g) => NotYetAssociated(g)'
  BY DEF RowKept, NotYetAssociated
<1>4. \A g \in Filters :
        FilterFree(g)' \/ (At("associate")' /\ call'.fl = g) => NotYetAssociated(g)'
  <2> SUFFICES ASSUME NEW g \in Filters,
                      FilterFree(g)' \/ (At("associate") /\ call.fl = g)
               PROVE  NotYetAssociated(g)'
    BY <1>2
  <2>1. CASE RowKept(g)
    BY <1>3, <2>1 DEF EisInv, RowKept
  <2>2. CASE g = f /\ Taken(f)
    BY <2>2 DEF Taken
  <2>3. CASE g = f /\ GivenBack(f)
    BY <2>3 DEF GivenBack
  <2>4. CASE g = f /\ Associated(f)
    BY <2>4 DEF Associated
  <2> QED BY <2>1, <2>2, <2>3, <2>4
             DEF NoneMoved, Taken, GivenBack, Associated, RowsKept, OthersKept
<1>5. EisInv'
  BY <1>2, <1>4 DEF EisInv
<1>6. \A g \in held' : ~ FDmxFlterInfo'[g].defined => NotYetAssociated(g)'
  <2> SUFFICES ASSUME NEW g \in held', ~ FDmxFlterInfo'[g].defined
               PROVE  NotYetAssociated(g)'
    OBVIOUS
  <2>1. CASE NoneMoved
    BY <1>1, <1>3, <2>1 DEF NoneMoved, RowsKept, DefinedKept
  <2>2. CASE Taken(f)
    <3>1. CASE g = f
      <4>1. NotYetAssociated(f)
        BY <2>2 DEF Taken, EisInv
      <4> QED BY <2>2, <3>1, <4>1 DEF Taken, NotYetAssociated
    <3>2. CASE g # f
      BY <1>1, <1>3, <2>2, <3>2 DEF Taken, OthersKept, DefinedKept
    <3> QED BY <3>1, <3>2
  <2>3. CASE GivenBack(f)
    BY <1>1, <1>3, <2>3 DEF GivenBack, OthersKept, DefinedKept
  <2>4. CASE Associated(f)
    BY <1>1, <1>3, <2>4 DEF Associated, OthersKept, DefinedKept
  <2> QED BY <2>1, <2>2, <2>3, <2>4
<1>7. \A g \in held' \cup BrowserFilters : ~ FilterFree(g)'
  BY <1>1 DEF NoneMoved, Taken, GivenBack, Associated, RowsKept, OthersKept, RowKept
<1>8. held' \cap BrowserFilters = {}
  BY DEF NoneMoved, Taken, GivenBack, Associated
<1>9. ASSUME At("associate")
      PROVE  call.fl \in Filters \ held' /\ ~ FilterFree(call.fl)'
  <2>1. call.fl \in Filters \ held /\ ~ FilterFree(call.fl)
    BY <1>9
  <2>2. call.fl \notin held' /\ RowKept(call.fl)
    BY <2>1 DEF NoneMoved, Taken, GivenBack, Associated, RowsKept, OthersKept
  <2> QED BY <1>2, <2>1, <2>2 DEF RowKept
<1> QED BY <1>2, <1>5, <1>6, <1>7, <1>8, <1>9 DEF DdiNamesHeld

(* The ways an operation moves on, and writes its row, are well typed.      *)
LEMMA ArgsTyped ==
    /\ None \in SlotArg /\ Slots \subseteq SlotArg
    /\ None \in FilterArg /\ Filters \subseteq FilterArg
    /\ 0 \in 0 .. CountMod - 1
<1>1. CountMod \in Nat /\ CountMod > 0
  BY ChDemuxAssumption
<1> QED BY <1>1 DEF SlotArg, FilterArg

LEMMA BeginTyped ==
    ASSUME NEW f \in Filters, NEW n \in 0 .. CountMod - 1,
           NEW place \in {"allocate", "set", "start", "stop", "free"},
           Begin(place, f, n)
    PROVE  ddi' \in Operation /\ ddi'.at = place /\ ddi'.fl = f
<1>1. f \in FilterArg
  BY ArgsTyped
<1> QED BY <1>1 DEF Begin, Operation

LEMMA ProceedTyped ==
    ASSUME ddi \in Operation,
           NEW place \in {"set pid", "set", "associate", "stop slot", "free slot"},
           Proceed(place)
    PROVE  ddi' \in Operation /\ ddi'.at = place /\ ddi'.fl = ddi.fl
BY DEF Proceed, Operation

LEMMA DoneTyped ==
    ASSUME Done
    PROVE  ddi' \in Operation /\ ddi'.at = "idle"
BY ArgsTyped DEF Done, NoOperation, Operation

LEMMA InfoSet ==
    ASSUME FDmxFlterInfo \in [Filters -> InfoRow], NEW f \in Filters,
           NEW row \in InfoRow,
           FDmxFlterInfo' = [FDmxFlterInfo EXCEPT ![f] = row]
    PROVE  /\ FDmxFlterInfo' \in [Filters -> InfoRow]
           /\ FDmxFlterInfo'[f] = row
           /\ \A g \in Filters \ {f} : FDmxFlterInfo'[g] = FDmxFlterInfo[g]
OBVIOUS

(* A row may be rewritten, its history kept.                                *)
LEMMA InfoKept ==
    ASSUME FDmxFlterInfo \in [Filters -> InfoRow], NEW f \in Filters,
           NEW row \in InfoRow, row.defined = FDmxFlterInfo[f].defined,
           held \subseteq Filters,
           FDmxFlterInfo' = [FDmxFlterInfo EXCEPT ![f] = row]
    PROVE  DefinedKept(held)
BY DEF DefinedKept

(* Each operation of the kernel keeps its own state in its types, knows     *)
(* where it stands, and moves the rows in one of the four ways.             *)
Sound == MgTypeOK' /\ DdiPlaced' /\ DdiNamesHeld'

LEMMA StandingSound ==
    ASSUME FDmxFlterInfo' \in [Filters -> InfoRow], held' \subseteq Filters,
           ddi' \in Operation,
           \/ ddi'.at = "idle"
           \/ ddi'.at = "free slot" /\ ddi'.fl \in Filters
           \/ ddi'.at \in {"start", "stop", "stop slot", "free"} /\ ddi'.fl \in held'
           \/ /\ ddi'.at \in {"set", "associate"} /\ ddi'.fl \in held'
              /\ ~ FDmxFlterInfo'[ddi'.fl].defined
           \/ /\ ddi'.at \in {"allocate", "set pid"} /\ ddi'.fl \in held'
              /\ ~ FDmxFlterInfo'[ddi'.fl].defined
              /\ FDmxFlterInfo'[ddi'.fl].FilterPID \in CaPid
    PROVE  Sound
BY DEF Sound, MgTypeOK, DdiPlaced, DdiNamesHeld, Doing, Info

LEMMA BaseFacts ==
    ASSUME FDmxFlterInfo \in [Filters -> InfoRow], BaseWorks
    PROVE  /\ ddi' = ddi /\ ddi.at = "idle" /\ held' = held
           /\ FDmxFlterInfo' \in [Filters -> InfoRow]
           /\ \A f \in Filters :
                 /\ FDmxFlterInfo'[f].SlotId = FDmxFlterInfo[f].SlotId
                 /\ FDmxFlterInfo'[f].FilterPID = FDmxFlterInfo[f].FilterPID
                 /\ FDmxFlterInfo'[f].defined = FDmxFlterInfo[f].defined
                 /\ FDmxFlterInfo'[f].bdmxactived => FDmxFlterInfo[f].bdmxactived
           /\ \/ UNCHANGED demuxVars
              \/ \E f \in held, err \in BOOLEAN : CH6_Set_Filter(f, err)
<1>1. CASE StopAllEcmFilter
  <2>1. PICK ecm : FDmxFlterInfo' = [f \in Filters |->
                      IF f \in ecm THEN ClearedRow(FDmxFlterInfo[f])
                      ELSE FDmxFlterInfo[f]]
    BY <1>1 DEF StopAllEcmFilter
  <2>2. ASSUME NEW row \in InfoRow
        PROVE  /\ ClearedRow(row) \in InfoRow
               /\ ClearedRow(row).SlotId = row.SlotId
               /\ ClearedRow(row).FilterPID = row.FilterPID
               /\ ClearedRow(row).defined = row.defined
               /\ ~ ClearedRow(row).bdmxactived
    BY DEF ClearedRow, InfoRow
  <2>3. UNCHANGED <<demuxVars, ddi, held>> /\ ddi.at = "idle"
    BY <1>1 DEF StopAllEcmFilter, Doing
  <2>4. ASSUME NEW f \in Filters
        PROVE  /\ FDmxFlterInfo[f] \in InfoRow
               /\ \/ FDmxFlterInfo'[f] = ClearedRow(FDmxFlterInfo[f])
                  \/ FDmxFlterInfo'[f] = FDmxFlterInfo[f]
    BY <2>1
  <2>5. FDmxFlterInfo' \in [Filters -> InfoRow]
    BY <2>1, <2>2, <2>4
  <2> QED BY <2>2, <2>3, <2>4, <2>5
<1>2. ASSUME NEW f \in Filters, CHCA_MgFilterDelayCheck(f)
      PROVE  /\ UNCHANGED <<demuxVars, ddi, held>> /\ ddi.at = "idle"
             /\ FDmxFlterInfo' \in [Filters -> InfoRow]
             /\ \A g \in Filters :
                   /\ FDmxFlterInfo'[g].SlotId = FDmxFlterInfo[g].SlotId
                   /\ FDmxFlterInfo'[g].FilterPID = FDmxFlterInfo[g].FilterPID
                   /\ FDmxFlterInfo'[g].defined = FDmxFlterInfo[g].defined
                   /\ FDmxFlterInfo'[g].bdmxactived => FDmxFlterInfo[g].bdmxactived
  <2>1. FDmxFlterInfo' = [FDmxFlterInfo EXCEPT ![f] =
                             [FDmxFlterInfo[f] EXCEPT !.bdmxactived = FALSE]]
    BY <1>2 DEF CHCA_MgFilterDelayCheck
  <2>2. UNCHANGED <<demuxVars, ddi, held>> /\ ddi.at = "idle"
    BY <1>2 DEF CHCA_MgFilterDelayCheck, Named, Doing
  <2> DEFINE row == [FDmxFlterInfo[f] EXCEPT !.bdmxactived = FALSE]
  <2>3. /\ row \in InfoRow /\ row.SlotId = FDmxFlterInfo[f].SlotId
        /\ row.FilterPID = FDmxFlterInfo[f].FilterPID
        /\ row.defined = FDmxFlterInfo[f].defined /\ ~ row.bdmxactived
    BY DEF InfoRow
  <2>4. FDmxFlterInfo' = [FDmxFlterInfo EXCEPT ![f] = row]
    BY <2>1
  <2> HIDE DEF row
  <2> QED BY <2>2, <2>3, <2>4
<1>3. ASSUME NEW f \in Filters, reset_set(f)
      PROVE  /\ UNCHANGED mgVars /\ ddi.at = "idle" /\ f \in held
             /\ \E err \in BOOLEAN : CH6_Set_Filter(f, err)
  BY <1>3 DEF reset_set, Named, Doing
<1> QED BY <1>1, <1>2, <1>3 DEF BaseWorks, mgVars

LEMMA KernelSteps ==
    ASSUME ClientsIInv, DemuxTypeOK, CaClient
    PROVE  /\ Sound
           /\ NoneMoved \/ \E f : Taken(f) \/ GivenBack(f) \/ Associated(f)
<1> USE DEF Doing
<1>1. /\ FDmxFlterInfo \in [Filters -> InfoRow]
      /\ ddi \in Operation /\ held \subseteq Filters
      /\ \A f \in held : ~ FilterFree(f)
      /\ ddi.at \notin {"idle", "free slot"} => ddi.fl \in held
      /\ ddi.at # "idle" => ddi.fl \in Filters
      /\ ddi.at \in {"allocate", "set pid", "set", "associate"} => ~ Info.defined
      /\ ddi.at \in {"allocate", "set pid"} => Info.FilterPID \in CaPid
  BY DEF ClientsIInv, ClientsInv, FiltersDivided, MgTypeOK, DdiPlaced
<1>2. ASSUME UNCHANGED <<FDmxFlterInfo, held>>
      PROVE  /\ FDmxFlterInfo' \in [Filters -> InfoRow] /\ held' \subseteq Filters
             /\ DefinedKept(held)
  BY <1>1, <1>2 DEF DefinedKept
<1>3. CASE MGDDISrcAllocDmxFltr
  <2>1. PICK f \in FilterArg :
           /\ CH6_Allocate_Section_Filter(f)
           /\ IF f = None
              THEN UNCHANGED <<FDmxFlterInfo, held>>
              ELSE /\ FDmxFlterInfo' = [FDmxFlterInfo EXCEPT ![f] = FreshInfo]
                   /\ held' = held \cup {f}
    BY <1>3 DEF MGDDISrcAllocDmxFltr
  <2>2. ddi' = ddi /\ ddi.at = "idle"
    BY <1>3 DEF MGDDISrcAllocDmxFltr
  <2>3. CASE f = None
    <3>1. UNCHANGED <<FDmxFlterInfo, held>> /\ RowsKept
      BY <2>1, <2>3, AllocatedRow DEF Filters, None
    <3> QED BY <1>1, <1>2, <2>2, <3>1, StandingSound DEF NoneMoved
  <2>4. CASE f # None
    <3>1. f \in Filters /\ f \notin held
      BY <1>1, <2>1, <2>4, AllocatedRow
    <3>2. FreshInfo \in InfoRow
      BY ArgsTyped DEF FreshInfo, InfoRow
    <3>3. /\ FDmxFlterInfo' \in [Filters -> InfoRow]
          /\ \A g \in Filters \ {f} : FDmxFlterInfo'[g] = FDmxFlterInfo[g]
          /\ held' = held \cup {f}
      BY <1>1, <2>1, <2>4, <3>1, <3>2, InfoSet
    <3>4. Sound
      BY <1>1, <2>2, <3>1, <3>3, StandingSound
    <3>5. DefinedKept(held)
      BY <1>1, <3>1, <3>3 DEF DefinedKept
    <3>6. Taken(f)
      BY <2>1, <2>4, <3>3, <3>5, AllocatedRow DEF Taken
    <3> QED BY <3>4, <3>6
  <2> QED BY <2>3, <2>4
<1>4. ASSUME NEW f \in Filters, NEW v \in CaPid, set_find(f, v)
      PROVE  Sound /\ NoneMoved
  <2>1. PICK s \in SlotArg :
           /\ FDmxFlterInfo' =
                [FDmxFlterInfo EXCEPT ![f].FilterPID = v,
                                      ![f].SlotId = IF s = None THEN @ ELSE s]
           /\ Begin(IF s = None THEN "allocate" ELSE "set", f, 0)
    BY <1>4 DEF set_find
  <2>2. /\ f \in held /\ ~ FDmxFlterInfo[f].defined
        /\ held' = held /\ SectionFilter' = SectionFilter
    BY <1>4 DEF set_find, Named, demuxVars, Settable, Dropped, ClientsIInv
  <2>3. FDmxFlterInfo[f] \in InfoRow /\ FDmxFlterInfo[f].SlotId \in SlotArg
    BY <1>1 DEF InfoRow
  <2> DEFINE slot == IF s = None THEN FDmxFlterInfo[f].SlotId ELSE s
             row  == [FDmxFlterInfo[f] EXCEPT !.FilterPID = v, !.SlotId = slot]
  <2>4. slot \in SlotArg
    BY <2>3
  <2>5. row \in InfoRow /\ ~ row.defined /\ row.FilterPID = v
    <3>1. FDmxFlterInfo[f] \in InfoRow /\ v \in CaPid \cup {NoPid}
      BY <2>3
    <3> HIDE DEF slot
    <3> QED BY <2>2, <2>4, <3>1 DEF InfoRow
  <2>6. FDmxFlterInfo' = [FDmxFlterInfo EXCEPT ![f] = row]
    BY <1>1, <2>1, <2>3 DEF InfoRow
  <2> HIDE DEF row
  <2>7. /\ FDmxFlterInfo' \in [Filters -> InfoRow]
        /\ ~ FDmxFlterInfo'[f].defined /\ FDmxFlterInfo'[f].FilterPID = v
    BY <1>1, <2>5, <2>6, InfoSet
  <2>8. DefinedKept(held)
    BY <1>1, <2>2, <2>3, <2>5, <2>6, InfoKept DEF InfoRow
  <2>9. /\ ddi' \in Operation /\ ddi'.fl = f
        /\ ddi'.at = IF s = None THEN "allocate" ELSE "set"
    BY <2>1, ArgsTyped, BeginTyped
  <2>10. Sound
    BY <1>1, <2>2, <2>7, <2>9, StandingSound
  <2> QED BY <2>2, <2>8, <2>10, UnchangedRows DEF NoneMoved
<1>5. CASE set_allocate
  <2>1. PICK s \in SlotArg :
           /\ CH6_Allocate_Section_Slot(s)
           /\ IF s = None
              THEN Done /\ UNCHANGED FDmxFlterInfo
              ELSE SetInfo([Info EXCEPT !.SlotId = s]) /\ Proceed("set pid")
    BY <1>5 DEF set_allocate
  <2>2. /\ held' = held /\ ddi.at = "allocate" /\ ddi.fl \in held
        /\ Info.FilterPID \in CaPid /\ ~ Info.defined
        /\ Info \in InfoRow /\ Info = FDmxFlterInfo[ddi.fl]
    BY <1>1, <1>5 DEF set_allocate, Info
  <2>3. RowsKept
    BY <2>1, SlotOpsKeepRows
  <2>4. CASE s = None
    <3>1. Sound
      BY <1>1, <1>2, <2>1, <2>2, <2>4, DoneTyped, StandingSound
    <3> QED BY <1>2, <2>1, <2>2, <2>3, <2>4, <3>1 DEF NoneMoved
  <2>5. CASE s # None
    <3> DEFINE row == [Info EXCEPT !.SlotId = s]
    <3>1. row \in InfoRow /\ row.defined = Info.defined /\ row.FilterPID \in CaPid
      BY <2>2 DEF InfoRow
    <3>2. FDmxFlterInfo' = [FDmxFlterInfo EXCEPT ![ddi.fl] = row]
      BY <2>1, <2>5 DEF SetInfo
    <3> HIDE DEF row
    <3>3. /\ FDmxFlterInfo' \in [Filters -> InfoRow]
          /\ ~ FDmxFlterInfo'[ddi.fl].defined
          /\ FDmxFlterInfo'[ddi.fl].FilterPID \in CaPid
      BY <1>1, <2>2, <3>1, <3>2, InfoSet
    <3>4. DefinedKept(held)
      BY <1>1, <2>2, <3>1, <3>2, InfoKept
    <3>5. Sound
      BY <1>1, <2>1, <2>2, <2>5, <3>3, ProceedTyped, StandingSound
    <3> QED BY <2>2, <2>3, <3>4, <3>5 DEF NoneMoved
  <2> QED BY <2>4, <2>5
<1>6. CASE set_pid
  <2>1. /\ CH6_Set_Slot_Pid(Slot, Info.FilterPID, FALSE)
        /\ Proceed("set") /\ UNCHANGED <<FDmxFlterInfo, held>>
        /\ ddi.at = "set pid"
    BY <1>6 DEF set_pid
  <2>2. Sound
    BY <1>1, <1>2, <2>1, ProceedTyped, StandingSound DEF Info
  <2> QED BY <1>2, <2>1, <2>2, SlotOpsKeepRows DEF NoneMoved
<1>7. CASE set_filter
  <2>1. PICK err \in BOOLEAN :
           /\ CH6_Set_Filter(ddi.fl, err)
           /\ IF err THEN Done ELSE Proceed("associate")
    BY <1>7 DEF set_filter
  <2>2. UNCHANGED <<FDmxFlterInfo, held>> /\ ddi.at = "set"
    BY <1>7 DEF set_filter
  <2>3. Sound
    BY <1>1, <1>2, <2>1, <2>2, DoneTyped, ProceedTyped, StandingSound DEF Info
  <2> QED BY <1>2, <2>1, <2>2, <2>3, ArmingKeepsRows DEF NoneMoved
<1>8. CASE set_associate
  <2>1. PICK err \in BOOLEAN :
           /\ CH6_Associate_Slot_Filter(Slot, ddi.fl, err)
           /\ SetInfo([Info EXCEPT !.InUsed = ~ err,
                                   !.defined = Info.defined \/ ~ err])
    BY <1>8 DEF set_associate
  <2>2. /\ Done /\ held' = held
        /\ ddi.at = "associate" /\ ddi.fl \in held /\ ~ Info.defined
        /\ Info \in InfoRow
    BY <1>1, <1>8 DEF set_associate, Info
  <2> DEFINE row == [Info EXCEPT !.InUsed = ~ err, !.defined = Info.defined \/ ~ err]
  <2>3. row \in InfoRow /\ (row.defined <=> ~ err)
    BY <2>2 DEF InfoRow
  <2>4. FDmxFlterInfo' = [FDmxFlterInfo EXCEPT ![ddi.fl] = row]
    BY <2>1 DEF SetInfo
  <2> HIDE DEF row
  <2>5. /\ FDmxFlterInfo' \in [Filters -> InfoRow]
        /\ FDmxFlterInfo'[ddi.fl] = row
        /\ \A g \in Filters \ {ddi.fl} : FDmxFlterInfo'[g] = FDmxFlterInfo[g]
    BY <1>1, <2>2, <2>3, <2>4, InfoSet
  <2>6. Sound
    BY <1>1, <2>2, <2>5, DoneTyped, StandingSound
  <2>7. CASE err
    <3>1. DefinedKept(held)
      BY <1>1, <2>2, <2>3, <2>5, <2>7 DEF DefinedKept, Info, InfoRow
    <3> QED BY <2>1, <2>2, <2>6, <2>7, <3>1, AssociatedRow DEF NoneMoved
  <2>8. CASE ~ err
    <3>1. DefinedKept(held \ {ddi.fl}) /\ FDmxFlterInfo'[ddi.fl].defined
      BY <1>1, <2>3, <2>5, <2>8 DEF DefinedKept
    <3>2. PICK f : f = ddi.fl
      OBVIOUS
    <3>3. Associated(f)
      BY <2>1, <2>2, <2>8, <3>1, <3>2, AssociatedRow DEF Associated
    <3> QED BY <2>6, <3>3
  <2> QED BY <2>7, <2>8
<1>9. ASSUME NEW f \in Filters, start_slot(f)
      PROVE  Sound /\ NoneMoved
  <2>1. PICK err \in BOOLEAN : CH6_Start_Slot(FDmxFlterInfo[f].SlotId, err)
    BY <1>9 DEF start_slot
  <2>2. f \in held /\ Begin("start", f, 0) /\ UNCHANGED <<FDmxFlterInfo, held>>
    BY <1>9 DEF start_slot, Named
  <2>3. Sound
    BY <1>1, <1>2, <2>2, ArgsTyped, BeginTyped, StandingSound
  <2> QED BY <1>2, <2>1, <2>2, <2>3, SlotOpsKeepRows DEF NoneMoved
<1>10. ASSUME start_filter \/ stop_filter
       PROVE  Sound /\ NoneMoved
  <2>1. PICK err \in BOOLEAN, b \in BOOLEAN :
           /\ CH6_Start_Filter(ddi.fl, err) \/ CH6_Stop_Filter(ddi.fl, err)
           /\ SetInfo([Info EXCEPT !.bdmxactived = b])
    <3>1. Info \in InfoRow
      BY <1>1, <1>10 DEF start_filter, stop_filter, Info
    <3>2. Info.bdmxactived \in BOOLEAN
      BY <3>1 DEF InfoRow
    <3>3. CASE start_filter
      <4>1. PICK err \in BOOLEAN :
              /\ CH6_Start_Filter(ddi.fl, err)
              /\ SetInfo([Info EXCEPT !.bdmxactived = Info.bdmxactived \/ ~ err])
        BY <3>3 DEF start_filter
      <4> QED BY <4>1
    <3>4. CASE stop_filter
      <4>1. PICK err \in BOOLEAN :
              /\ CH6_Stop_Filter(ddi.fl, err)
              /\ SetInfo([Info EXCEPT !.bdmxactived = Info.bdmxactived /\ err])
        BY <3>4 DEF stop_filter
      <4> QED BY <4>1
    <3> QED BY <1>10, <3>3, <3>4
  <2>2. /\ ddi.at \in {"start", "stop"} /\ held' = held
        /\ Done \/ Proceed("stop slot")
    BY <1>10 DEF start_filter, stop_filter
  <2>3. ddi.fl \in held /\ Info \in InfoRow /\ Info = FDmxFlterInfo[ddi.fl]
    BY <1>1, <2>2 DEF Info
  <2> DEFINE row == [Info EXCEPT !.bdmxactived = b]
  <2>4. row \in InfoRow /\ row.defined = Info.defined
    BY <2>3 DEF InfoRow
  <2>5. FDmxFlterInfo' = [FDmxFlterInfo EXCEPT ![ddi.fl] = row]
    BY <2>1 DEF SetInfo
  <2> HIDE DEF row
  <2>6. FDmxFlterInfo' \in [Filters -> InfoRow] /\ DefinedKept(held)
    BY <1>1, <2>3, <2>4, <2>5, InfoSet, InfoKept
  <2>7. Sound
    BY <1>1, <2>2, <2>3, <2>6, DoneTyped, ProceedTyped, StandingSound
  <2> QED BY <2>1, <2>2, <2>6, <2>7, ArmingKeepsRows DEF NoneMoved
<1>11. CASE stop_slot
  <2>1. PICK err \in BOOLEAN : CH6_Stop_Slot(Slot, err)
    BY <1>11 DEF stop_slot
  <2>2. Done /\ UNCHANGED <<FDmxFlterInfo, held>>
    BY <1>11 DEF stop_slot
  <2>3. Sound
    BY <1>2, <2>2, DoneTyped, StandingSound
  <2> QED BY <1>2, <2>1, <2>2, <2>3, SlotOpsKeepRows DEF NoneMoved
<1>12. ASSUME NEW f \in Filters, stop_count(f) \/ free_count(f)
       PROVE  Sound /\ NoneMoved
  <2>1. /\ f \in held
        /\ Begin("stop", f, Count(f)) \/ Begin("free", f, Count(f))
        /\ UNCHANGED <<FDmxFlterInfo, held>>
        /\ SectionFilter' = SectionFilter
        /\ FDmxFlterInfo[f].SlotId # None
    BY <1>12 DEF stop_count, free_count, Named, demuxVars
  <2>2. FDmxFlterInfo[f].SlotId \in Slots
    BY <1>1, <2>1 DEF InfoRow, SlotArg
  <2>3. Count(f) \in 0 .. CountMod - 1
    BY <2>2 DEF Count, CH6_Get_SlotAssociateFilter_Count, DemuxTypeOK, SlotRow
  <2>4. Sound
    BY <1>1, <1>2, <2>1, <2>3, BeginTyped, StandingSound
  <2> QED BY <1>2, <2>1, <2>4, UnchangedRows DEF NoneMoved
<1>13. CASE free_filter
  <2>1. PICK err \in BOOLEAN :
           /\ CH6_Free_Section_Filter(ddi.fl, err)
           /\ IF err
              THEN Done /\ UNCHANGED <<FDmxFlterInfo, held>>
              ELSE /\ SetInfo([Info EXCEPT !.InUsed = FALSE,
                                           !.defined = FALSE,
                                           !.bdmxactived = FALSE])
                   /\ held' = held \ {ddi.fl}
                   /\ IF SharedSlot(ddi.count) THEN Done ELSE Proceed("free slot")
    BY <1>13 DEF free_filter
  <2>2. ddi.at = "free" /\ ddi.fl \in held /\ Info \in InfoRow
    BY <1>1, <1>13 DEF free_filter, Info
  <2>3. CASE err
    <3>1. Sound
      BY <1>2, <2>1, <2>3, DoneTyped, StandingSound
    <3> QED BY <1>2, <2>1, <2>3, <3>1, FreedRows DEF NoneMoved
  <2>4. CASE ~ err
    <3> DEFINE row == [Info EXCEPT !.InUsed = FALSE, !.defined = FALSE,
                                   !.bdmxactived = FALSE]
    <3>1. row \in InfoRow
      BY <2>2 DEF InfoRow
    <3>2. FDmxFlterInfo' = [FDmxFlterInfo EXCEPT ![ddi.fl] = row]
      BY <2>1, <2>4 DEF SetInfo
    <3> HIDE DEF row
    <3>3. /\ FDmxFlterInfo' \in [Filters -> InfoRow]
          /\ DefinedKept(held \ {ddi.fl})
      BY <1>1, <2>2, <3>1, <3>2, InfoSet DEF DefinedKept
    <3>4. Sound
      BY <1>1, <2>1, <2>2, <2>4, <3>3, DoneTyped, ProceedTyped, StandingSound
    <3>5. PICK f : f = ddi.fl
      OBVIOUS
    <3>6. GivenBack(f)
      BY <2>1, <2>2, <2>4, <3>3, <3>5, FreedRows DEF GivenBack
    <3> QED BY <3>4, <3>6
  <2> QED BY <2>3, <2>4
<1>14. CASE free_slot
  <2>1. PICK err \in BOOLEAN :
           /\ CH6_Free_Section_Slot(Slot, err)
           /\ SetInfo(IF err THEN Info
                      ELSE [Info EXCEPT !.SlotId = None, !.FilterPID = NoPid])
    BY <1>14 DEF free_slot
  <2>2. /\ Done /\ held' = held /\ ddi.fl \in Filters
        /\ Info \in InfoRow /\ Info = FDmxFlterInfo[ddi.fl]
    BY <1>1, <1>14 DEF free_slot, Info
  <2> DEFINE row == IF err THEN Info
                    ELSE [Info EXCEPT !.SlotId = None, !.FilterPID = NoPid]
  <2>3. row \in InfoRow /\ row.defined = Info.defined
    BY <2>2, ArgsTyped DEF InfoRow
  <2>4. FDmxFlterInfo' = [FDmxFlterInfo EXCEPT ![ddi.fl] = row]
    BY <2>1 DEF SetInfo
  <2> HIDE DEF row
  <2>5. FDmxFlterInfo' \in [Filters -> InfoRow] /\ DefinedKept(held)
    BY <1>1, <2>2, <2>3, <2>4, InfoSet, InfoKept
  <2>6. Sound
    BY <1>1, <2>2, <2>5, DoneTyped, StandingSound
  <2> QED BY <2>1, <2>2, <2>5, <2>6, SlotOpsKeepRows DEF NoneMoved
<1>15. CASE BaseWorks
  <2>1. /\ ddi' = ddi /\ ddi.at = "idle" /\ held' = held
        /\ FDmxFlterInfo' \in [Filters -> InfoRow]
        /\ \A f \in Filters : FDmxFlterInfo'[f].defined = FDmxFlterInfo[f].defined
        /\ \/ UNCHANGED demuxVars
           \/ \E f \in held, err \in BOOLEAN : CH6_Set_Filter(f, err)
    BY <1>1, <1>15, BaseFacts
  <2>2. Sound
    BY <1>1, <2>1, StandingSound
  <2>3. RowsKept
    BY <2>1, UnchangedRows, ArmingKeepsRows DEF demuxVars
  <2> QED BY <1>1, <2>1, <2>2, <2>3 DEF NoneMoved, DefinedKept
<1> QED
  BY <1>3, <1>4, <1>5, <1>6, <1>7, <1>8, <1>9, <1>10, <1>11, <1>12, <1>13,
     <1>14, <1>15 DEF CaClient, BaseWorks

-----------------------------------------------------------------------------
(* A call of the browser leaves the kernel's filters alone.                 *)
BrowserRows ==
    \A f \in held : /\ ~ FilterFree(f)'
                    /\ NotYetAssociated(f) => NotYetAssociated(f)'

BrowserDivided ==
    /\ held \cap BrowserFilters' = {}
    /\ \A f \in BrowserFilters' : ~ FilterFree(f)'
    /\ At("associate")' => /\ call'.fl \in Filters \ held
                           /\ ~ FilterFree(call.fl)'

LEMMA BrowserMoves ==
    ASSUME ClientsIInv, DemuxTypeOK, Browser
    PROVE  BrowserRows /\ BrowserDivided
<1>1. /\ held \subseteq Filters
      /\ \A f \in held \cup BrowserFilters : ~ FilterFree(f)
      /\ held \cap BrowserFilters = {}
      /\ At("associate") => call.fl \in Filters \ held /\ ~ FilterFree(call.fl)
      /\ channelOf \in [Filters -> Slots \cup {NoFilter, Orphan}]
      /\ call \in Call
  BY DEF ClientsIInv, ClientsInv, FiltersDivided, MgTypeOK, EisInv, EisTypeOK
<1>2. ASSUME RowsKept, BrowserFilters' \subseteq BrowserFilters,
             call'.at # "associate"
      PROVE  BrowserRows /\ BrowserDivided
  <2>1. \A f \in Filters : RowKept(f)
    BY <1>2 DEF RowsKept
  <2>2. BrowserRows
    BY <1>1, <2>1 DEF BrowserRows, RowKept, NotYetAssociated
  <2>3. BrowserDivided
    BY <1>1, <1>2, <2>1 DEF BrowserDivided, RowKept, At, BrowserFilters
  <2> QED BY <2>2, <2>3
<1>3. channelOf' = channelOf => BrowserFilters' = BrowserFilters
  BY DEF BrowserFilters
<1>4. CASE create_channel
  BY <1>2, <1>3, <1>4, SlotOpsKeepRows DEF create_channel, At
<1>5. CASE set_channel_pid
  BY <1>2, <1>3, <1>5, SlotOpsKeepRows DEF set_channel_pid, At, clientVars
<1>6. CASE create_filter_allocate
  <2>1. PICK c \in channels, f \in FilterArg :
           /\ CH6_Allocate_Section_Filter(f)
           /\ call' = IF f = None THEN Idle ELSE CallAt("associate", c, f)
    BY <1>6 DEF create_filter_allocate
  <2>2. BrowserFilters' = BrowserFilters
    BY <1>3, <1>6 DEF create_filter_allocate
  <2>3. CASE f = None
    <3>1. RowsKept
      BY <2>1, <2>3, AllocatedRow DEF Filters, None
    <3> QED BY <1>2, <2>1, <2>2, <2>3, <3>1 DEF Idle, CallAt
  <2>4. CASE f # None
    <3>1. /\ f \in Filters /\ OthersKept(f) /\ FilterFree(f)
          /\ ~ FilterFree(f)'
      BY <2>1, <2>4, AllocatedRow
    <3>2. f \notin held /\ f \notin BrowserFilters /\ call'.fl = f
      BY <1>1, <2>1, <2>4, <3>1 DEF CallAt
    <3>3. BrowserRows
      BY <1>1, <3>1, <3>2 DEF BrowserRows, OthersKept, RowKept, NotYetAssociated
    <3>4. BrowserDivided
      <4>1. \A g \in BrowserFilters' : ~ FilterFree(g)'
        BY <1>1, <2>2, <3>1, <3>2 DEF OthersKept, RowKept, BrowserFilters
      <4> QED BY <1>1, <2>2, <3>1, <3>2, <4>1 DEF BrowserDivided, FilterFree
    <3> QED BY <3>3, <3>4
  <2> QED BY <2>3, <2>4
<1>7. CASE create_filter_associate
  <2>1. PICK err \in BOOLEAN :
           /\ CH6_Associate_Slot_Filter(call.ch, CreatedFilter(call.fl), err)
           /\ channelOf' = [channelOf EXCEPT ![call.fl] = CreatedOn(call.ch, err)]
    BY <1>7 DEF create_filter_associate
  <2>2. At("associate") /\ call'.at = "idle"
    BY <1>7 DEF create_filter_associate, Return, Idle, CallAt
  <2>3. PICK f : f = call.fl
    OBVIOUS
  <2>4. CASE err
    <3>1. RowsKept
      BY <2>1, <2>3, <2>4, AssociatedRow DEF CreatedFilter
    <3>2. BrowserFilters' \subseteq BrowserFilters
      BY <1>1, <2>1, <2>4 DEF BrowserFilters, CreatedOn
    <3> QED BY <1>2, <2>2, <3>1, <3>2
  <2>5. CASE ~ err
    <3>1. OthersKept(f) /\ ~ FilterFree(f)' /\ f \in Filters \ held
      BY <1>1, <2>1, <2>2, <2>3, <2>5, AssociatedRow DEF CreatedFilter
    <3>2. BrowserFilters' \subseteq BrowserFilters \cup {f}
      BY <1>1, <2>1, <2>3 DEF BrowserFilters
    <3>3. BrowserRows
      BY <1>1, <3>1 DEF BrowserRows, OthersKept, RowKept, NotYetAssociated
    <3>4. BrowserDivided
      BY <1>1, <2>2, <3>1, <3>2
         DEF BrowserDivided, OthersKept, RowKept, BrowserFilters, At
    <3> QED BY <3>3, <3>4
  <2> QED BY <2>4, <2>5
<1>8. CASE set_filter_get_pid
  <2>1. SectionFilter' = SectionFilter /\ channelOf' = channelOf
    BY <1>8 DEF set_filter_get_pid, demuxVars
  <2>2. call'.at = "set"
    BY <1>8 DEF set_filter_get_pid, CallAt
  <2> QED BY <1>2, <1>3, <2>1, <2>2, UnchangedRows
<1>9. CASE set_filter_set
  BY <1>2, <1>3, <1>9, ArmingKeepsRows DEF set_filter_set, Return, Idle, CallAt
<1>10. CASE enable_filter
  BY <1>2, <1>3, <1>10, ArmingKeepsRows DEF enable_filter, At, clientVars
<1>11. CASE disable_filter
  BY <1>2, <1>3, <1>11, ArmingKeepsRows DEF disable_filter, At, clientVars
<1>12. CASE destroy_filter
  <2>1. PICK f \in BrowserFilters :
           /\ CH6_Free_Section_Filter(f, FALSE)
           /\ channelOf' = [channelOf EXCEPT ![f] = NoFilter]
    BY <1>12 DEF destroy_filter
  <2>2. OthersKept(f) /\ f \notin held /\ f \in Filters
    BY <1>1, <2>1, FreedRows
  <2>3. BrowserFilters' = BrowserFilters \ {f}
    BY <1>1, <2>1 DEF BrowserFilters
  <2>4. call'.at = "idle"
    BY <1>12 DEF destroy_filter, At
  <2>5. BrowserRows
    BY <1>1, <2>2 DEF BrowserRows, OthersKept, RowKept, NotYetAssociated
  <2>6. BrowserDivided
    BY <1>1, <2>2, <2>3, <2>4
       DEF BrowserDivided, OthersKept, RowKept, BrowserFilters, At
  <2> QED BY <2>5, <2>6
<1>13. CASE start_channel
  <2>1. SectionFilter' = SectionFilter /\ channelOf' = channelOf
    BY <1>13 DEF start_channel, demuxVars
  <2>2. call'.at # "associate"
    <3>1. \E c : call' \in {CallAt("started", c, None), CallAt("start", c, None)}
      BY <1>13 DEF start_channel, StartOk
    <3> QED BY <3>1 DEF CallAt
  <2> QED BY <1>2, <1>3, <2>1, <2>2, UnchangedRows
<1>14. CASE start_channel_start
  <2>1. RowsKept /\ channelOf' = channelOf
    BY <1>14, SlotOpsKeepRows DEF start_channel_start
  <2>2. call'.at # "associate"
    <3>1. \/ call' = CallAt("started", call.ch, None)
          \/ call' = [call EXCEPT !.at = "find other"]
      BY <1>14 DEF start_channel_start, Goto, StartOk
    <3>2. CASE call' = CallAt("started", call.ch, None)
      BY <3>2 DEF CallAt
    <3>3. CASE call' # CallAt("started", call.ch, None)
      BY <1>1, <3>1, <3>3, CallMoves DEF Place
    <3> QED BY <3>2, <3>3
  <2> QED BY <1>2, <1>3, <2>1, <2>2
<1>15. CASE start_channel_find_other
  <2>1. SectionFilter' = SectionFilter /\ channelOf' = channelOf
    BY <1>15 DEF start_channel_find_other, demuxVars
  <2>2. call'.at # "associate"
    <3>1. \/ call' = CallAt("started", call.ch, None)
          \/ \E o : call' = [call EXCEPT !.at = "stop other", !.other = o]
      BY <1>15 DEF start_channel_find_other, StartOk
    <3>2. CASE call' = CallAt("started", call.ch, None)
      BY <3>2 DEF CallAt
    <3>3. ASSUME NEW o, call' = [call EXCEPT !.at = "stop other", !.other = o]
          PROVE  call'.at # "associate"
      <4>1. call'.at = "stop other"
        BY <1>1, <3>3, CallMoves
      <4> QED BY <4>1
    <3> QED BY <3>1, <3>2, <3>3
  <2> QED BY <1>2, <1>3, <2>1, <2>2, UnchangedRows
<1>16. CASE start_channel_stop_other \/ start_channel_start_again
  <2>1. RowsKept /\ channelOf' = channelOf
    BY <1>16, SlotOpsKeepRows
       DEF start_channel_stop_other, start_channel_start_again
  <2>2. call'.at # "associate"
    <3>1. \/ call' = CallAt("started", call.ch, None)
          \/ call' = [call EXCEPT !.at = "start again"]
      BY <1>16 DEF start_channel_stop_other, start_channel_start_again, Goto,
                   StartOk
    <3>2. CASE call' = CallAt("started", call.ch, None)
      BY <3>2 DEF CallAt
    <3>3. CASE call' # CallAt("started", call.ch, None)
      BY <1>1, <3>1, <3>3, CallMoves DEF Place
    <3> QED BY <3>2, <3>3
  <2> QED BY <1>2, <1>3, <2>1, <2>2
<1>17. CASE start_channel_return
  <2>1. SectionFilter' = SectionFilter /\ channelOf' = channelOf
    BY <1>17 DEF start_channel_return, demuxVars
  <2>2. call'.at # "associate"
    BY <1>17 DEF start_channel_return, Return, Idle, CallAt
  <2> QED BY <1>2, <1>3, <2>1, <2>2, UnchangedRows
<1>18. CASE destroy_channel_stop
  BY <1>2, <1>3, <1>18, SlotOpsKeepRows DEF destroy_channel_stop, CallAt
<1>19. CASE destroy_channel_free
  <2>1. RowsKept /\ call'.at # "associate"
    BY <1>19, SlotOpsKeepRows DEF destroy_channel_free, Return, Idle, CallAt
  <2>2. BrowserFilters' \subseteq BrowserFilters
    <3>1. call.ch # NoFilter
      BY <1>1 DEF Call, SlotArg, Slots, None, NoFilter
    <3>2. channelOf' = [f \in Filters |-> IF channelOf[f] = call.ch THEN Orphan
                                          ELSE channelOf[f]]
      BY <1>19 DEF destroy_channel_free
    <3> QED BY <1>1, <3>1, <3>2 DEF BrowserFilters
  <2> QED BY <1>2, <2>1, <2>2
<1> QED
  BY <1>4, <1>5, <1>6, <1>7, <1>8, <1>9, <1>10, <1>11, <1>12, <1>13, <1>14,
     <1>15, <1>16, <1>17, <1>18, <1>19 DEF Browser

LEMMA BrowserKeepsClients ==
    ASSUME ClientsIInv, DemuxInv, Browser, UNCHANGED mgVars
    PROVE  ClientsIInv'
<1>1. /\ EisInv /\ MgTypeOK /\ FiltersDivided /\ DdiPlaced
      /\ \A f \in held : ~ FDmxFlterInfo[f].defined => NotYetAssociated(f)
      /\ DemuxTypeOK
  BY DEF ClientsIInv, ClientsInv, DemuxInv
<1>2. EisInv'
  BY <1>1, BrowserKeepsInv
<1>3. FDmxFlterInfo' = FDmxFlterInfo /\ ddi' = ddi /\ held' = held
  BY DEF mgVars
<1>4. BrowserRows /\ BrowserDivided
  BY <1>1, BrowserMoves
<1>5. MgTypeOK' /\ DdiPlaced'
  BY <1>1, <1>3 DEF MgTypeOK, DdiPlaced, Doing, Info
<1>6. ClientsInv'
  BY <1>1, <1>2, <1>3, <1>4, <1>5 DEF ClientsInv, BrowserRows
<1>7. FiltersDivided'
  <2>1. \A f \in held' \cup BrowserFilters' : ~ FilterFree(f)'
    BY <1>3, <1>4 DEF BrowserRows, BrowserDivided
  <2>2. held' \cap BrowserFilters' = {}
    BY <1>3, <1>4 DEF BrowserDivided
  <2>3. At("associate")' => call'.fl \in Filters \ held' /\ ~ FilterFree(call.fl)'
    BY <1>3, <1>4 DEF BrowserDivided, FilterFree
  <2>4. ~ Doing("idle")' /\ ~ Doing("free slot")' => ddi'.fl \in held'
    BY <1>1, <1>3 DEF FiltersDivided, Doing
  <2> QED BY <2>1, <2>2, <2>3, <2>4 DEF FiltersDivided
<1> QED BY <1>5, <1>6, <1>7 DEF ClientsIInv

LEMMA ClientsInitInv == ~ SetsAgain /\ ClientsInit => ClientsIInv /\ DemuxInv
<1> SUFFICES ASSUME ~ SetsAgain, ClientsInit
             PROVE  ClientsIInv /\ DemuxInv
  OBVIOUS
<1>1. EisInv /\ DemuxInit
  BY EisInitInv DEF ClientsInit, EisInit
<1>2. FreshInfo \in InfoRow
  BY ArgsTyped DEF FreshInfo, InfoRow
<1>3. NoOperation \in Operation
  BY ArgsTyped DEF NoOperation, Operation
<1>4. MgTypeOK /\ DdiPlaced
  BY <1>2, <1>3
     DEF ClientsInit, MgInit, MgTypeOK, DdiPlaced, Doing, NoOperation
<1>5. FiltersDivided
  BY DEF ClientsInit, EisInit, MgInit, FiltersDivided, BrowserFilters, At, Idle,
         CallAt, Doing, NoOperation
<1>6. ClientsInv
  BY <1>1, <1>4 DEF ClientsInv, ClientsInit, MgInit
<1> QED BY <1>1, <1>4, <1>5, <1>6, DemuxInitInv DEF ClientsIInv

LEMMA ClientsStep ==
    ASSUME ClientsIInv, DemuxInv, [ClientsNext]_clientsVars
    PROVE  ClientsIInv' /\ DemuxInv' /\ [DemuxNext]_demuxVars
<1>1. CASE Browser /\ UNCHANGED mgVars
  <2>1. [DemuxNext]_demuxVars
    BY <1>1, BrowserCalls DEF ClientsIInv, ClientsInv
  <2> QED BY <1>1, <2>1, BrowserKeepsClients, DemuxStep
<1>2. CASE CaClient /\ UNCHANGED clientVars
  <2>1. [DemuxNext]_demuxVars
    BY <1>2, KernelCalls
  <2>2. Sound /\ (NoneMoved \/ \E f : Taken(f) \/ GivenBack(f) \/ Associated(f))
    BY <1>2, KernelSteps DEF DemuxInv
  <2>3. ClientsInv' /\ FiltersDivided'
    BY <1>2, <2>2, KernelMoves DEF Sound
  <2> QED BY <2>1, <2>2, <2>3, DemuxStep DEF ClientsIInv, Sound
<1>3. CASE UNCHANGED clientsVars
  <2>1. UNCHANGED demuxVars /\ UNCHANGED clientVars /\ UNCHANGED mgVars
    BY <1>3 DEF clientsVars, eisVars, demuxVars, clientVars, mgVars
  <2>2. DemuxInv'
    BY <2>1, DemuxStep
  <2>3. ClientsIInv'
    <3>1. EisInv'
      BY <2>1 DEF demuxVars, clientVars, ClientsIInv, ClientsInv, EisInv,
                  EisTypeOK, At, FilterFree, NotYetAssociated
    <3>2. MgTypeOK' /\ DdiPlaced'
      BY <2>1 DEF mgVars, ClientsIInv, ClientsInv, MgTypeOK, DdiPlaced, Doing, Info
    <3>3. ClientsInv'
      BY <2>1, <3>1, <3>2 DEF mgVars, demuxVars, ClientsIInv, ClientsInv,
                              NotYetAssociated
    <3>4. FiltersDivided'
      BY <2>1 DEF mgVars, demuxVars, clientVars, ClientsIInv, FiltersDivided,
                  BrowserFilters, At, Doing, FilterFree
    <3> QED BY <3>2, <3>3, <3>4 DEF ClientsIInv
  <2> QED BY <2>1, <2>2, <2>3
<1> QED BY <1>1, <1>2, <1>3 DEF ClientsNext

-----------------------------------------------------------------------------
(* Neither client's filters come to hold a slot of an earlier use, if the   *)
(* kernel frees what StopAllEcmFilter took out of use before it sets it      *)
(* again (~ SetsAgain), here and in the three theorems below.               *)
THEOREM ClientsInvariant == ~ SetsAgain => (ClientsSpec => []ClientsInv)
<1> SUFFICES ASSUME ~ SetsAgain
             PROVE  ClientsSpec => []ClientsInv
  OBVIOUS
<1>0. ClientsInit => ClientsIInv /\ DemuxInv
  BY ClientsInitInv
<1>1. ClientsIInv /\ DemuxInv /\ [ClientsNext]_clientsVars
      => ClientsIInv' /\ DemuxInv'
  BY ClientsStep
<1>2. ClientsIInv => ClientsInv
  BY DEF ClientsIInv
<1> QED BY <1>0, <1>1, <1>2, PTL DEF ClientsSpec

(* No filter is both clients', and none is used after it was freed.         *)
THEOREM ClientsDivided == ~ SetsAgain => (ClientsSpec => []FiltersDivided)
<1> SUFFICES ASSUME ~ SetsAgain
             PROVE  ClientsSpec => []FiltersDivided
  OBVIOUS
<1>0. ClientsInit => ClientsIInv /\ DemuxInv
  BY ClientsInitInv
<1>1. ClientsIInv /\ DemuxInv /\ [ClientsNext]_clientsVars
      => ClientsIInv' /\ DemuxInv'
  BY ClientsStep
<1>2. ClientsIInv => FiltersDivided
  BY DEF ClientsIInv
<1> QED BY <1>0, <1>1, <1>2, PTL DEF ClientsSpec

(* The two clients together are a client of the tables.                     *)
THEOREM ClientsImplement == ~ SetsAgain => (ClientsSpec => ClientsImplementDemux)
<1> SUFFICES ASSUME ~ SetsAgain
             PROVE  ClientsSpec => ClientsImplementDemux
  OBVIOUS
<1>0. ClientsInit => ClientsIInv /\ DemuxInv
  BY ClientsInitInv
<1>1. ClientsInit => DemuxInit
  BY DEF ClientsInit, EisInit
<1>2. ClientsIInv /\ DemuxInv /\ [ClientsNext]_clientsVars
      => ClientsIInv' /\ DemuxInv' /\ [DemuxNext]_demuxVars
  BY ClientsStep
<1> QED BY <1>0, <1>1, <1>2, PTL
           DEF ClientsSpec, ClientsImplementDemux, DemuxSpec

(* So the tables stay sound under both.                                     *)
THEOREM TablesSoundUnderClients == ~ SetsAgain => (ClientsSpec => []DemuxInv)
BY ClientsImplement, DemuxInvariant DEF ClientsImplementDemux

-----------------------------------------------------------------------------
(* What the table operations do to the slot rows.                           *)
Count8(s)    == SectionSlot[s].FilterCount
SlotKept(s)  == /\ SlotFree(s)' <=> SlotFree(s)
                /\ SectionSlot'[s].SlotHandle = SectionSlot[s].SlotHandle
                /\ PidAt(s)' = PidAt(s)
CountKept(s) == Count8(s)' = Count8(s)

SlotsQuiet   == \A s \in Slots : SlotKept(s) /\ CountKept(s)

LEMMA SameSlots == SectionSlot' = SectionSlot => SlotsQuiet
BY DEF SlotsQuiet, SlotKept, CountKept, SlotFree, PidAt, Count8

LEMMA QuietOps ==
    ASSUME NEW s, NEW f, NEW err,
           \/ CH6_Allocate_Section_Slot(None)
           \/ CH6_Allocate_Section_Filter(f)
           \/ CH6_Start_Slot(s, err) \/ CH6_Stop_Slot(s, err)
           \/ CH6_Set_Filter(f, err)
           \/ CH6_Start_Filter(f, err) \/ CH6_Stop_Filter(f, err)
           \/ UNCHANGED demuxVars
    PROVE  SlotsQuiet
<1>1. SectionSlot' = SectionSlot
  BY DEF CH6_Allocate_Section_Slot, AllocateSlotFails,
         CH6_Allocate_Section_Filter, AllocateFilterFails, AllocateFilterAt,
         CH6_Start_Slot, CH6_Stop_Slot, CH6_Set_Filter, CH6_Start_Filter,
         CH6_Stop_Filter, Failed, demuxVars, None, Slots
<1> QED BY <1>1, SameSlots

OthersQuiet(s) == \A t \in Slots \ {s} : SlotKept(t) /\ CountKept(t)

LEMMA NewSlotRow ==
    ASSUME DemuxTypeOK, NEW s \in Slots, CH6_Allocate_Section_Slot(s)
    PROVE  /\ SlotFree(s) /\ ~ SlotFree(s)' /\ OthersQuiet(s)
           /\ PidAt(s)' = NoPid /\ Count8(s)' = 0
<1>1. AllocateSlotAt(s) /\ SlotFree(s)
  BY DEF CH6_Allocate_Section_Slot, AllocateSlotAt, IsFirst, FreeSlots, None, Slots
<1>2. PICK h, b : SectionSlot' = [SectionSlot EXCEPT ![s] =
                         [SlotStatus |-> "IN_USE", SlotHandle |-> h,
                          BufferHandle |-> b, PidValue |-> NoPid,
                          FilterCount |-> 0]]
  BY <1>1 DEF AllocateSlotAt
<1> QED BY <1>1, <1>2 DEF OthersQuiet, SlotKept, CountKept, SlotFree, PidAt, Count8,
                          DemuxTypeOK

LEMMA PidRow ==
    ASSUME DemuxTypeOK, NEW s \in Slots, NEW v, CH6_Set_Slot_Pid(s, v, FALSE)
    PROVE  /\ PidAt(s)' = v /\ CountKept(s) /\ OthersQuiet(s)
           /\ SlotFree(s)' <=> SlotFree(s)
<1>1. SectionSlot' = [SectionSlot EXCEPT ![s].PidValue = v]
  BY DEF CH6_Set_Slot_Pid, Failed
<1> QED BY <1>1 DEF OthersQuiet, SlotKept, CountKept, SlotFree, PidAt, Count8,
                    DemuxTypeOK, SlotRow

LEMMA GoneRow ==
    ASSUME DemuxTypeOK, NEW s \in Slots, NEW err \in BOOLEAN,
           ~ SlotFree(s), CH6_Free_Section_Slot(s, err)
    PROVE  /\ err = FALSE /\ OthersQuiet(s)
           /\ SlotFree(s)' /\ PidAt(s)' = NoPid
<1>1. err = FALSE /\ SectionSlot' = [SectionSlot EXCEPT ![s] = FreeSlotRow]
  BY DEF CH6_Free_Section_Slot, Failed, SlotTaken
<1> QED BY <1>1 DEF OthersQuiet, SlotKept, CountKept, SlotFree, PidAt, Count8,
                    DemuxTypeOK, FreeSlotRow

(* The counts, of rows that are otherwise kept.                             *)
RecountedAt(s, n) == /\ \A t \in Slots : SlotKept(t)
                     /\ \A t \in Slots \ {s} : CountKept(t)
                     /\ Count8(s)' = n

LEMMA Recounted ==
    ASSUME DemuxTypeOK, NEW s \in Slots, NEW n,
           SectionSlot' = [SectionSlot EXCEPT ![s].FilterCount = n]
    PROVE  RecountedAt(s, n)
BY DEF RecountedAt, SlotKept, CountKept, SlotFree, PidAt, Count8, DemuxTypeOK, SlotRow

LEMMA JoinedRow ==
    ASSUME DemuxTypeOK, NEW s, NEW f, CH6_Associate_Slot_Filter(s, f, FALSE)
    PROVE  /\ s \in Slots /\ ~ SlotFree(s) /\ f \in Filters /\ ~ FilterFree(f)
           /\ RecountedAt(s, Succ8(Count8(s)))
<1>1. /\ s \in Slots /\ ~ SlotFree(s) /\ f \in Filters /\ ~ FilterFree(f)
      /\ SectionSlot' = [SectionSlot EXCEPT ![s].FilterCount =
                           Succ8(Count8(s))]
  BY DEF CH6_Associate_Slot_Filter, BothUsable, FilterUsable, FilterTaken,
         SlotTaken, Failed, Count8
<1> QED BY <1>1, Recounted

LEMMA LeftRow ==
    ASSUME DemuxInv, NEW s \in Slots, NEW f \in Filters, ~ SlotFree(s),
           SectionFilter[f].SlotHandle = SectionSlot[s].SlotHandle,
           CH6_Free_Section_Filter(f, FALSE)
    PROVE  RecountedAt(s, Pred8(Count8(s)))
<1> DEFINE sh == SectionFilter[f].SlotHandle
<1>1. PICK t \in Slots \cup {None} :
         /\ CH6_FindMatchSlot(sh, t)
         /\ SectionSlot' = IF t = None THEN SectionSlot
                           ELSE [SectionSlot EXCEPT ![t].FilterCount = Pred8(@)]
  BY DEF CH6_Free_Section_Filter, Failed
<1>2. SlotsWithHandle(sh) = {s}
  BY NamedObjects DEF SlotsWithHandle
<1>3. t = s
  BY <1>1, <1>2 DEF CH6_FindMatchSlot, IsFirst
<1>4. SectionSlot' = [SectionSlot EXCEPT ![s].FilterCount = Pred8(Count8(s))]
  <2>1. s # None
    BY DEF None, Slots
  <2> QED BY <1>1, <1>3, <2>1 DEF Count8
<1> QED BY <1>4, Recounted DEF DemuxInv

LEMMA LeavingKeepsSlots ==
    ASSUME DemuxTypeOK, NEW f, CH6_Free_Section_Filter(f, FALSE)
    PROVE  \A s \in Slots : SlotKept(s)
<1>1. PICK s \in Slots \cup {None} :
         SectionSlot' = IF s = None THEN SectionSlot
                        ELSE [SectionSlot EXCEPT ![s].FilterCount = Pred8(@)]
  BY DEF CH6_Free_Section_Filter, Failed
<1>2. CASE SectionSlot' = SectionSlot
  BY <1>2, SameSlots DEF SlotsQuiet
<1>3. CASE SectionSlot' # SectionSlot
  <2>1. s \in Slots /\ SectionSlot' = [SectionSlot EXCEPT ![s].FilterCount =
                                         Pred8(Count8(s))]
    BY <1>1, <1>3 DEF Count8
  <2> QED BY <2>1, Recounted DEF RecountedAt
<1> QED BY <1>2, <1>3

-----------------------------------------------------------------------------
(* The count of a row never wraps: a row has at most MaxFilter filters.     *)
LEMMA CountSteps ==
    ASSUME NEW n \in 0 .. CountMod - 1
    PROVE  /\ n + 1 < CountMod => Succ8(n) = n + 1
           /\ n > 0 => Pred8(n) = n - 1
<1>1. CountMod \in Nat /\ CountMod > 0
  BY ChDemuxAssumption
<1>2. n + 1 < CountMod => Succ8(n) = n + 1
  BY <1>1 DEF Succ8
<1>3. ASSUME n > 0 PROVE Pred8(n) = n - 1
  BY <1>1, <1>3 DEF Pred8
<1> QED BY <1>2, <1>3

LEMMA OnFinite ==
    ASSUME NEW s
    PROVE  /\ IsFiniteSet(On(s)) /\ Cardinality(On(s)) \in 0 .. MaxFilter
           /\ IsFiniteSet(On(s))' /\ Cardinality(On(s))' \in 0 .. MaxFilter
<1>1. MaxFilter \in Nat /\ MaxFilter > 0
  BY ChDemuxAssumption
<1>2. IsFiniteSet(Filters) /\ Cardinality(Filters) = MaxFilter
  BY <1>1, FS_Interval DEF Filters
<1>3. On(s) \subseteq Filters /\ On(s)' \subseteq Filters
  BY DEF On
<1>4. \A S \in SUBSET Filters : /\ IsFiniteSet(S)
                                /\ Cardinality(S) \in Nat
                                /\ Cardinality(S) <= MaxFilter
  BY <1>2, FS_Subset, FS_CardinalityType
<1> QED BY <1>1, <1>3, <1>4

-----------------------------------------------------------------------------
(* What a step of either client does to the ledger: nothing, a slot more,   *)
(* its PID, a filter more, a filter less, a slot less.                      *)
Stays      == \A f \in Filters : SlotOf(f)' = SlotOf(f)
Only(f)    == \A g \in Filters \ {f} : SlotOf(g)' = SlotOf(g)
OwnersKept == BrowserSlots' = BrowserSlots /\ CaSlots' = CaSlots
SparesAll  == \A f, c : Spares(f, c)
FreshKept  == \A f \in Filters : NotYetAssociated(f) => NotYetAssociated(f)'

Quietly  == SlotsQuiet /\ SparesAll /\ FreshKept /\ Stays /\ OwnersKept

Creates(s) ==
    /\ s \in Slots /\ CH6_Allocate_Section_Slot(s)
    /\ Stays
    /\ \/ BrowserSlots' = BrowserSlots \cup {s} /\ CaSlots' = CaSlots
       \/ BrowserSlots' = BrowserSlots /\ CaSlots' = CaSlots \cup {s}

Marks(s, v) ==
    /\ s \in Slots /\ CH6_Set_Slot_Pid(s, v, FALSE)
    /\ Stays /\ OwnersKept
    /\ \/ s \in BrowserSlots /\ v \in BrowserPid
       \/ /\ s \in CaSlots /\ PidAt(s) = NoPid
          /\ v \in CaPid /\ \A t \in Slots : PidAt(t) # v

Joins(f, s) ==
    /\ CH6_Associate_Slot_Filter(s, f, FALSE)
    /\ SlotOf(f) = None /\ SlotOf(f)' = s /\ Only(f) /\ OwnersKept

Leaves(f) ==
    /\ f \in Filters /\ CH6_Free_Section_Filter(f, FALSE)
    /\ SlotOf(f) \in Slots /\ SlotOf(f)' = None /\ Only(f) /\ OwnersKept

Destroys(s) ==
    /\ s \in BrowserSlots \cup CaSlots /\ CH6_Free_Section_Slot(s, FALSE)
    /\ On(s) = {} /\ Stays
    /\ BrowserSlots' \subseteq BrowserSlots /\ CaSlots' \subseteq CaSlots
    /\ BrowserSlots' \cup CaSlots' = (BrowserSlots \cup CaSlots) \ {s}

Moves == \/ Quietly
         \/ \E s : Creates(s) \/ Destroys(s) \/ \E v : Marks(s, v)
         \/ \E f : Leaves(f) \/ \E s : Joins(f, s)

LEMMA PidsApart == Apart => /\ NoPid \notin CaPid /\ NoPid \notin BrowserPid
                            /\ \A v \in BrowserPid : v \notin CaPid
BY PtiAssumption, EisDemuxAssumption, MgDmxFilterAssumption DEF Apart

LEMMA MovesDivide ==
    ASSUME DemuxTypeOK, Apart, SlotsDivided, PidsDivided, Moves
    PROVE  SlotsDivided' /\ PidsDivided'
<1> DEFINE B == BrowserSlots
           C == CaSlots
<1>1. /\ \A s \in B \cup C : s \in Slots /\ ~ SlotFree(s)
      /\ \A s \in Slots : ~ SlotFree(s) => s \in B \cup C
      /\ B \cap C = {}
      /\ \A s \in Slots : SlotFree(s) => PidAt(s) = NoPid
      /\ \A s \in B : PidAt(s) \in BrowserPid \cup {NoPid}
      /\ \A s \in C : PidAt(s) \in CaPid \cup {NoPid}
      /\ \A s, t \in Slots : PidAt(s) = PidAt(t) /\ PidAt(s) \in CaPid => s = t
  BY DEF SlotsDivided, PidsDivided
<1>2. ASSUME /\ \A s \in B' \cup C' : s \in Slots /\ ~ SlotFree(s)'
             /\ \A s \in Slots : ~ SlotFree(s)' => s \in B' \cup C'
             /\ B' \cap C' = {}
      PROVE  SlotsDivided'
  BY <1>2 DEF SlotsDivided
<1>3. ASSUME /\ \A s \in Slots : SlotFree(s)' => PidAt(s)' = NoPid
             /\ \A s \in B' : PidAt(s)' \in BrowserPid \cup {NoPid}
             /\ \A s \in C' : PidAt(s)' \in CaPid \cup {NoPid}
             /\ \A s, t \in Slots : PidAt(s)' = PidAt(t)' /\ PidAt(s)' \in CaPid
                                      => s = t
      PROVE  PidsDivided'
  BY <1>3 DEF PidsDivided
<1> HIDE DEF B, C
<1>4. ASSUME \A s \in Slots : SlotKept(s), B' = B /\ C' = C
      PROVE  SlotsDivided' /\ PidsDivided'
  BY <1>1, <1>2, <1>3, <1>4 DEF SlotKept
<1>5. ASSUME NEW s, Creates(s)
      PROVE  SlotsDivided' /\ PidsDivided'
  <2>1. /\ s \in Slots /\ SlotFree(s) /\ ~ SlotFree(s)' /\ OthersQuiet(s)
        /\ PidAt(s)' = NoPid
        /\ \/ B' = B \cup {s} /\ C' = C
           \/ B' = B /\ C' = C \cup {s}
    BY <1>5, NewSlotRow DEF Creates, B, C
  <2>2. \A t \in Slots \ {s} : SlotKept(t)
    BY <2>1 DEF OthersQuiet
  <2> QED BY <1>1, <1>2, <1>3, <2>1, <2>2, PidsApart DEF SlotKept
<1>6. ASSUME NEW s, Destroys(s)
      PROVE  SlotsDivided' /\ PidsDivided'
  <2>1. /\ s \in B \cup C /\ B' \subseteq B /\ C' \subseteq C
        /\ B' \cup C' = (B \cup C) \ {s}
    BY <1>6 DEF Destroys, B, C
  <2>2. /\ s \in Slots /\ SlotFree(s)' /\ OthersQuiet(s) /\ PidAt(s)' = NoPid
    BY <1>1, <1>6, <2>1, GoneRow DEF Destroys
  <2>3. \A t \in Slots \ {s} : SlotKept(t)
    BY <2>2 DEF OthersQuiet
  <2> QED BY <1>1, <1>2, <1>3, <2>1, <2>2, <2>3, PidsApart DEF SlotKept
<1>7. ASSUME NEW s, NEW v, Marks(s, v)
      PROVE  SlotsDivided' /\ PidsDivided'
  <2>1. /\ s \in Slots /\ B' = B /\ C' = C
        /\ \/ s \in B /\ v \in BrowserPid
           \/ s \in C /\ v \in CaPid /\ \A t \in Slots : PidAt(t) # v
    BY <1>7 DEF Marks, OwnersKept, B, C
  <2>2. /\ PidAt(s)' = v /\ OthersQuiet(s) /\ (SlotFree(s)' <=> SlotFree(s))
    BY <1>7, <2>1, PidRow DEF Marks
  <2>3. \A t \in Slots \ {s} : SlotKept(t)
    BY <2>2 DEF OthersQuiet
  <2>4. SlotsDivided'
    BY <1>1, <1>2, <2>1, <2>2, <2>3 DEF SlotKept
  <2>5. ~ SlotFree(s)
    BY <1>1, <2>1
  <2>6. CASE s \in B /\ v \in BrowserPid
    BY <1>1, <1>3, <2>1, <2>2, <2>3, <2>4, <2>5, <2>6, PidsApart DEF SlotKept
  <2>7. CASE s \in C /\ v \in CaPid /\ \A t \in Slots : PidAt(t) # v
    BY <1>1, <1>3, <2>1, <2>2, <2>3, <2>4, <2>5, <2>7, PidsApart DEF SlotKept
  <2> QED BY <2>1, <2>6, <2>7
<1>8. ASSUME NEW f, NEW s, Joins(f, s)
      PROVE  SlotsDivided' /\ PidsDivided'
  BY <1>4, <1>8, JoinedRow DEF Joins, OwnersKept, RecountedAt, B, C
<1>9. ASSUME NEW f, Leaves(f)
      PROVE  SlotsDivided' /\ PidsDivided'
  BY <1>4, <1>9, LeavingKeepsSlots DEF Leaves, OwnersKept, B, C
<1> QED BY <1>4, <1>5, <1>6, <1>7, <1>8, <1>9
        DEF Moves, Quietly, SlotsQuiet, OwnersKept, B, C

(* What is linked in the driver stays what the clients mean.                *)
LEMMA SlotOfRange ==
    ASSUME ClientsIInv, NEW f \in Filters
    PROVE  SlotOf(f) \in Slots \cup {None}
BY DEF ClientsIInv, ClientsInv, MgTypeOK, InfoRow, SlotArg, SlotOf

LEMMA MeantKept ==
    ASSUME DemuxInv, LinksMeant, NEW f \in Filters, SlotOf(f) \in Slots,
           SlotOf(f)' = SlotOf(f), Spares(f, SlotOf(f))
    PROVE  Linked(pti, SectionFilter[f].FilterHandle,
                       SectionSlot[SlotOf(f)].SlotHandle)'
<1>1. PICK c \in Slots : c = SlotOf(f)
  OBVIOUS
<1>2. c # None
  BY DEF Slots, None
<1>3. Linked(pti, SectionFilter[f].FilterHandle, SectionSlot[c].SlotHandle)
  BY <1>1, <1>2 DEF LinksMeant
<1>4. Attached(f, c)'
  BY <1>1, <1>3, LinkedIsAttached, AttachedStays
<1> QED BY <1>1, <1>4 DEF Attached

LEMMA MovesLink ==
    ASSUME DemuxInv, ClientsIInv, SlotsDivided, LinksMeant, Moves
    PROVE  LinksMeant'
<1> SUFFICES ASSUME NEW f \in Filters
             PROVE  (IF SlotOf(f) = None THEN NotYetAssociated(f)
                     ELSE Linked(pti, SectionFilter[f].FilterHandle,
                                      SectionSlot[SlotOf(f)].SlotHandle))'
  BY DEF LinksMeant
<1> DEFINE Meant == IF SlotOf(f) = None THEN NotYetAssociated(f)
                    ELSE Linked(pti, SectionFilter[f].FilterHandle,
                                     SectionSlot[SlotOf(f)].SlotHandle)
<1>1. /\ DemuxTypeOK
      /\ SlotOf(f) \in Slots \cup {None} /\ None \notin Slots
      /\ SlotOf(f) = None => NotYetAssociated(f)
  BY SlotOfRange DEF LinksMeant, DemuxInv, None, Slots
<1>2. ASSUME SlotOf(f)' = SlotOf(f), NotYetAssociated(f) => NotYetAssociated(f)',
             SlotOf(f) # None => Spares(f, SlotOf(f))
      PROVE  Meant'
  BY <1>1, <1>2, MeantKept
<1>3. \A g \in Filters : RowKept(g) /\ NotYetAssociated(g) => NotYetAssociated(g)'
  BY DEF RowKept, NotYetAssociated
<1>4. CASE Quietly
  BY <1>2, <1>4 DEF Quietly, FreshKept, Stays, SparesAll
<1>5. ASSUME NEW s, Creates(s)
      PROVE  Meant'
  <2>1. RowsKept
    BY <1>5, SlotOpsKeepRows DEF Creates
  <2>2. s \in SlotArg
    BY <1>5 DEF Creates, SlotArg
  <2>3. \A c : Spares(f, c)
    BY <1>5, <2>2 DEF Creates, Spares
  <2> QED BY <1>2, <1>3, <1>5, <2>1, <2>3 DEF Creates, Stays, RowsKept
<1>6. ASSUME NEW s, NEW v, Marks(s, v)
      PROVE  Meant'
  <2>1. RowsKept
    BY <1>6, SlotOpsKeepRows DEF Marks
  <2>2. v \in Pid
    BY <1>6, EisDemuxAssumption, MgDmxFilterAssumption DEF Marks
  <2>3. \A c : Spares(f, c)
    BY <1>6, <2>2 DEF Marks, Spares
  <2> QED BY <1>2, <1>3, <1>6, <2>1, <2>3 DEF Marks, Stays, RowsKept
<1>7. ASSUME NEW s, Destroys(s)
      PROVE  Meant'
  <2>1. RowsKept
    BY <1>7, SlotOpsKeepRows DEF Destroys
  <2>2. s # SlotOf(f)
    BY <1>7 DEF Destroys, On
  <2>3. Spares(f, SlotOf(f))
    BY <1>7, <2>2 DEF Destroys, Spares
  <2> QED BY <1>2, <1>3, <1>7, <2>1, <2>3 DEF Destroys, Stays, RowsKept
<1>8. ASSUME NEW g, NEW s, Joins(g, s)
      PROVE  Meant'
  <2>1. CH6_Associate_Slot_Filter(s, g, FALSE) /\ SlotOf(g)' = s /\ Only(g)
    BY <1>8 DEF Joins
  <2>2. CASE f = g
    <3>1. s \in Slots /\ Attached(g, s)'
      BY <2>1, AssociationAttaches
    <3> QED BY <1>1, <2>1, <2>2, <3>1 DEF Attached
  <2>3. CASE f # g
    <3>1. RowKept(f)
      BY <1>1, <2>1, <2>3, AssociatedRow DEF OthersKept
    <3>2. \A c : Spares(f, c)
      BY <2>1 DEF Spares
    <3> QED BY <1>2, <1>3, <2>1, <2>3, <3>1, <3>2 DEF Only
  <2> QED BY <2>2, <2>3
<1>9. ASSUME NEW g, Leaves(g)
      PROVE  Meant'
  <2>1. CH6_Free_Section_Filter(g, FALSE) /\ SlotOf(g)' = None /\ Only(g)
    BY <1>9 DEF Leaves
  <2>2. OthersKept(g) /\ NotYetAssociated(g)'
    BY <1>1, <2>1, FreedRows
  <2>3. CASE f = g
    BY <2>1, <2>2, <2>3
  <2>4. CASE f # g
    <3>1. \A c : Spares(f, c)
      BY <2>1, <2>4 DEF Spares
    <3> QED BY <1>2, <1>3, <2>1, <2>2, <2>4, <3>1 DEF Only, OthersKept
  <2> QED BY <2>3, <2>4
<1> QED BY <1>4, <1>5, <1>6, <1>7, <1>8, <1>9 DEF Moves

(* The counts stay the numbers of filters on the slots.                     *)
LEMMA MovesCount ==
    ASSUME DemuxInv, ClientsIInv, Apart, LinksMeant, CountsMeant,
           SlotsDivided, Moves
    PROVE  CountsMeant'
<1>1. DemuxTypeOK /\ CountMod > MaxFilter /\ MaxFilter \in Nat /\ CountMod \in Nat
  BY ChDemuxAssumption DEF DemuxInv, Apart
<1>2. \A s \in Slots : ~ SlotFree(s) => Count8(s) = Cardinality(On(s))
  BY DEF CountsMeant, Count8
<1> SUFFICES ASSUME NEW t \in Slots, ~ SlotFree(t)'
             PROVE  Count8(t)' = Cardinality(On(t))'
  BY DEF CountsMeant, Count8
<1>3. Stays => On(t)' = On(t)
  BY DEF Stays, On
<1>4. ASSUME SlotKept(t), CountKept(t), On(t)' = On(t)
      PROVE  Count8(t)' = Cardinality(On(t))'
  BY <1>2, <1>4 DEF SlotKept, CountKept
<1>5. CASE Quietly
  BY <1>3, <1>4, <1>5 DEF Quietly, SlotsQuiet
<1>6. ASSUME NEW s, Creates(s)
      PROVE  Count8(t)' = Cardinality(On(t))'
  <2>1. s \in Slots /\ SlotFree(s) /\ OthersQuiet(s) /\ Count8(s)' = 0 /\ Stays
    BY <1>1, <1>6, NewSlotRow DEF Creates
  <2>2. CASE t = s
    <3>1. \A f \in Filters : SlotOf(f) # s
      <4> SUFFICES ASSUME NEW f \in Filters, SlotOf(f) = s PROVE FALSE
        OBVIOUS
      <4>1. s # None
        BY <2>1 DEF Slots, None
      <4>2. Linked(pti, SectionFilter[f].FilterHandle, SectionSlot[s].SlotHandle)
        BY <4>1 DEF LinksMeant
      <4> QED BY <2>1, <4>2, LinkedIsAttached DEF Attached
    <3>2. On(t)' = {}
      BY <1>3, <2>1, <2>2, <3>1 DEF On
    <3> QED BY <2>1, <2>2, <3>2, FS_EmptySet
  <2>3. CASE t # s
    BY <1>3, <1>4, <2>1, <2>3 DEF OthersQuiet
  <2> QED BY <2>2, <2>3
<1>7. ASSUME NEW s, NEW v, Marks(s, v)
      PROVE  Count8(t)' = Cardinality(On(t))'
  <2>1. /\ s \in Slots /\ OthersQuiet(s) /\ CountKept(s) /\ Stays
        /\ SlotFree(s)' <=> SlotFree(s)
    BY <1>1, <1>7, PidRow DEF Marks
  <2>2. CountKept(t) /\ (SlotFree(t)' <=> SlotFree(t))
    BY <2>1 DEF OthersQuiet, SlotKept
  <2> QED BY <1>2, <1>3, <2>1, <2>2 DEF CountKept
<1>8. ASSUME NEW s, Destroys(s)
      PROVE  Count8(t)' = Cardinality(On(t))'
  <2>1. s \in Slots /\ ~ SlotFree(s) /\ Stays /\ CH6_Free_Section_Slot(s, FALSE)
    BY <1>8 DEF Destroys, SlotsDivided
  <2>2. OthersQuiet(s) /\ SlotFree(s)'
    BY <1>1, <2>1, GoneRow
  <2> QED BY <1>3, <1>4, <2>1, <2>2 DEF OthersQuiet
<1>9. ASSUME NEW f, NEW s, Joins(f, s)
      PROVE  Count8(t)' = Cardinality(On(t))'
  <2>1. /\ s \in Slots /\ ~ SlotFree(s) /\ f \in Filters
        /\ RecountedAt(s, Succ8(Count8(s)))
        /\ SlotOf(f) = None /\ SlotOf(f)' = s /\ Only(f)
    BY <1>1, <1>9, JoinedRow DEF Joins
  <2>2. s # None
    BY <2>1 DEF Slots, None
  <2>3. CASE t = s
    <3>1. On(s)' = On(s) \cup {f} /\ f \notin On(s)
      BY <2>1, <2>2 DEF On, Only
    <3>2. /\ IsFiniteSet(On(s)) /\ Cardinality(On(s))' \in 0 .. MaxFilter
          /\ Cardinality(On(s)) \in 0 .. MaxFilter
      BY OnFinite
    <3>3. Cardinality(On(s))' = Cardinality(On(s)) + 1
      <4>1. Cardinality(On(s) \cup {f}) = Cardinality(On(s)) + 1
        BY <3>1, <3>2, FS_AddElement
      <4> QED BY <3>1, <4>1
    <3>4. Succ8(Count8(s)) = Count8(s) + 1
      <4>1. Count8(s) = Cardinality(On(s))
        BY <1>2, <2>1
      <4>2. Count8(s) \in 0 .. CountMod - 1 /\ Count8(s) + 1 < CountMod
        BY <1>1, <3>2, <3>3, <4>1
      <4> QED BY <4>2, CountSteps
    <3> QED BY <1>2, <2>1, <2>3, <3>3, <3>4 DEF RecountedAt
  <2>4. CASE t # s
    <3>1. On(t)' = On(t)
      <4>1. t # None
        BY DEF Slots, None
      <4> QED BY <2>1, <2>4, <4>1 DEF On, Only
    <3> QED BY <1>4, <2>1, <2>4, <3>1 DEF RecountedAt
  <2> QED BY <2>3, <2>4
<1>10. ASSUME NEW f, Leaves(f)
       PROVE  Count8(t)' = Cardinality(On(t))'
  <2>1. PICK s \in Slots : s = SlotOf(f)
    BY <1>10 DEF Leaves
  <2>2. /\ f \in Filters /\ CH6_Free_Section_Filter(f, FALSE)
        /\ SlotOf(f)' = None /\ Only(f) /\ s # None /\ t # None
    <3>1. s # None /\ t # None
      BY DEF Slots, None
    <3> QED BY <1>10, <3>1 DEF Leaves
  <2>3. /\ ~ SlotFree(s)
        /\ SectionFilter[f].SlotHandle = SectionSlot[s].SlotHandle
    <3>1. Linked(pti, SectionFilter[f].FilterHandle, SectionSlot[s].SlotHandle)
      BY <2>1, <2>2 DEF LinksMeant
    <3> QED BY <2>2, <3>1, LinkedIsAttached DEF Attached
  <2>4. RecountedAt(s, Pred8(Count8(s)))
    BY <2>2, <2>3, LeftRow
  <2>5. CASE t = s
    <3>1. On(s)' = On(s) \ {f} /\ f \in On(s)
      BY <2>1, <2>2 DEF On, Only
    <3>2. /\ IsFiniteSet(On(s)) /\ Cardinality(On(s))' \in 0 .. MaxFilter
          /\ Cardinality(On(s)) \in 0 .. MaxFilter
      BY OnFinite
    <3>3. Cardinality(On(s))' = Cardinality(On(s)) - 1
      <4>1. Cardinality(On(s) \ {f}) = Cardinality(On(s)) - 1
        BY <3>1, <3>2, FS_RemoveElement
      <4> QED BY <3>1, <4>1
    <3>4. Pred8(Count8(s)) = Count8(s) - 1
      <4>1. Count8(s) = Cardinality(On(s))
        BY <1>2, <2>3
      <4>2. Count8(s) \in 0 .. CountMod - 1 /\ Count8(s) > 0
        BY <1>1, <3>2, <3>3, <4>1
      <4> QED BY <4>2, CountSteps
    <3> QED BY <1>2, <2>3, <2>4, <2>5, <3>3, <3>4 DEF RecountedAt
  <2>6. CASE t # s
    <3>1. On(t)' = On(t)
      BY <2>1, <2>2, <2>6 DEF On, Only
    <3> QED BY <1>4, <2>4, <2>6, <3>1 DEF RecountedAt
  <2> QED BY <2>5, <2>6
<1> QED BY <1>5, <1>6, <1>7, <1>8, <1>9, <1>10 DEF Moves

-----------------------------------------------------------------------------
(* A call of the browser moves the ledger, and leaves the kernel's slots    *)
(* aside.                                                                   *)
Aside == /\ \A s \in CaSlots : SlotKept(s) /\ CountKept(s)
         /\ \A s \in Slots : PidAt(s)' \in {PidAt(s), NoPid} \cup BrowserPid

BrowserPart == Moves /\ Aside /\ BrowserStands'

Loose(place) == place \notin {"free", "associate", "start", "find other",
                              "stop other", "start again"}

LEMMA BrowserQuiet ==
    ASSUME ClientsIInv, SlotsDivided, BrowserStands, Browser, UNCHANGED mgVars,
           SlotsQuiet, FreshKept, channelOf' = channelOf,
           call.at # "free", call'.at # "free", channels' = channels,
           Loose(call'.at) \/ call'.ch \in channels
    PROVE  BrowserPart
<1>1. SparesAll
  <2>1. EisInv
    BY DEF ClientsIInv, ClientsInv
  <2>2. ~ destroy_filter
    BY <2>1 DEF destroy_filter, BrowserFilters, EisInv, EisTypeOK
  <2>3. ~ destroy_channel_free
    BY DEF destroy_channel_free, At
  <2> QED BY <2>1, <2>2, <2>3, BrowserSpares DEF SparesAll
<1>2. Stays
  BY DEF Stays, SlotOf, mgVars
<1>3. OwnersKept
  BY DEF OwnersKept, BrowserSlots, CaSlots, Doing, At, mgVars
<1>4. Aside
  BY DEF Aside, SlotsQuiet, SlotsDivided, SlotKept
<1>5. BrowserStands'
  BY DEF BrowserStands, BrowserStarts, At, Loose
<1> QED BY <1>1, <1>2, <1>3, <1>4, <1>5 DEF BrowserPart, Moves, Quietly

LEMMA RowsFresh == RowsKept => FreshKept
BY DEF RowsKept, RowKept, FreshKept, NotYetAssociated

LEMMA BrowserLedger ==
    ASSUME Apart, ClientsIInv, DemuxInv, SlotsDivided, LinksMeant,
           BrowserStands, Browser, UNCHANGED mgVars
    PROVE  BrowserPart
<1>1. /\ call \in Call /\ channels \subseteq Slots /\ Orderly
      /\ channelOf \in [Filters -> Slots \cup {NoFilter, Orphan}]
      /\ EisInv /\ DemuxTypeOK
  BY DEF ClientsIInv, ClientsInv, EisInv, EisTypeOK, Apart, DemuxInv
<1>2. /\ Idle.at = "idle"
      /\ \A a, c, f : CallAt(a, c, f).at = a /\ CallAt(a, c, f).ch = c
  BY DEF Idle, CallAt
<1>3. /\ Loose("idle") /\ Loose("set") /\ Loose("started")
  BY DEF Loose
<1>4. CaSlots' = CaSlots
  BY DEF CaSlots, Doing, mgVars
<1>5. ASSUME NEW d, CH6_Set_Filter(call.fl, d) \/ \E f : \/ CH6_Start_Filter(f, d)
                                                     \/ CH6_Stop_Filter(f, d)
      PROVE  SlotsQuiet /\ FreshKept
  BY <1>1, <1>5, QuietOps, ArmingKeepsRows, RowsFresh
<1>6. ASSUME NEW s, NEW d, CH6_Start_Slot(s, d) \/ CH6_Stop_Slot(s, d)
      PROVE  SlotsQuiet /\ FreshKept
  BY <1>6, QuietOps, SlotOpsKeepRows, RowsFresh
<1>7. UNCHANGED demuxVars => SlotsQuiet /\ FreshKept
  BY SameSlots, UnchangedRows, RowsFresh DEF demuxVars
<1>8. CASE set_filter_set \/ enable_filter \/ disable_filter
  <2>1. SlotsQuiet /\ FreshKept
    BY <1>5, <1>8 DEF set_filter_set, enable_filter, disable_filter
  <2>2. /\ channelOf' = channelOf /\ channels' = channels
        /\ call.at \in {"idle", "set"} /\ call'.at = "idle"
    BY <1>2, <1>8 DEF set_filter_set, enable_filter, disable_filter, clientVars,
                      At, Return
  <2> QED BY <1>3, <2>1, <2>2, BrowserQuiet
<1>9. CASE create_filter_allocate
  <2>1. PICK c \in channels, f \in FilterArg :
           /\ CH6_Allocate_Section_Filter(f)
           /\ call' = IF f = None THEN Idle ELSE CallAt("associate", c, f)
    BY <1>9 DEF create_filter_allocate
  <2>2. FreshKept
    BY <1>1, <2>1, AllocatedRow DEF FreshKept, RowsKept, OthersKept, RowKept,
                                    NotYetAssociated
  <2>3. /\ channelOf' = channelOf /\ channels' = channels /\ call.at = "idle"
    BY <1>9 DEF create_filter_allocate, At
  <2>4. /\ call'.at \in {"idle", "associate"}
        /\ Loose(call'.at) \/ call'.ch \in channels
    BY <1>2, <1>3, <2>1
  <2> QED BY <2>1, <2>2, <2>3, <2>4, QuietOps, BrowserQuiet
<1>10. CASE set_filter_get_pid \/ start_channel
  <2>1. call'.at \in {"set", "started", "start"} /\ call'.ch \in channels
    <3>1. CASE set_filter_get_pid
      <4>1. \E c \in channels, f \in BrowserFilters : call' = CallAt("set", c, f)
        BY <3>1 DEF set_filter_get_pid
      <4> QED BY <1>2, <4>1
    <3>2. CASE start_channel
      <4>1. \E c \in channels : \/ call' = CallAt("started", c, None)
                               \/ call' = CallAt("start", c, None)
        BY <3>2 DEF start_channel, StartOk
      <4> QED BY <1>2, <4>1
    <3> QED BY <1>10, <3>1, <3>2
  <2>2. /\ channelOf' = channelOf /\ channels' = channels /\ call.at = "idle"
        /\ UNCHANGED demuxVars
    BY <1>10 DEF set_filter_get_pid, start_channel, At
  <2> QED BY <1>7, <2>1, <2>2, BrowserQuiet
<1>11. CASE start_channel_return
  BY <1>2, <1>3, <1>7, <1>11, BrowserQuiet DEF start_channel_return, At, Return
<1>12. CASE \/ start_channel_start \/ start_channel_find_other
            \/ start_channel_stop_other \/ start_channel_start_again
  <2>1. /\ channelOf' = channelOf /\ channels' = channels
        /\ BrowserStarts /\ SlotsQuiet /\ FreshKept
    <3>1. CASE start_channel_find_other
      BY <1>7, <3>1 DEF start_channel_find_other, At, BrowserStarts
    <3>2. CASE ~ start_channel_find_other
      BY <1>6, <1>12, <3>2
         DEF start_channel_start, start_channel_stop_other,
             start_channel_start_again, At, BrowserStarts
    <3> QED BY <3>1, <3>2
  <2>2. call.ch \in channels /\ call.at # "free"
    BY <2>1 DEF BrowserStands, BrowserStarts
  <2>3. /\ call'.at \in {"started", "find other", "stop other", "start again"}
        /\ call'.ch = call.ch
    <3>1. \/ call' = CallAt("started", call.ch, None)
          \/ call' = [call EXCEPT !.at = "find other"]
          \/ call' = [call EXCEPT !.at = "start again"]
          \/ \E o : call' = [call EXCEPT !.at = "stop other", !.other = o]
      <4>1. CASE start_channel_start \/ start_channel_start_again
        BY <4>1 DEF start_channel_start, start_channel_start_again, StartOk, Goto
      <4>2. CASE start_channel_find_other
        BY <4>2 DEF start_channel_find_other, StartOk
      <4>3. CASE start_channel_stop_other
        BY <4>3 DEF start_channel_stop_other, Goto
      <4> QED BY <1>12, <4>1, <4>2, <4>3
    <3>2. ASSUME NEW o, call' = [call EXCEPT !.at = "stop other", !.other = o]
          PROVE  call'.at = "stop other" /\ call'.ch = call.ch
      BY <1>1, <3>2, CallMoves
    <3>3. ASSUME NEW place \in {"find other", "start again"},
                 call' = [call EXCEPT !.at = place]
          PROVE  call'.at = place /\ call'.ch = call.ch
      BY <1>1, <3>3, CallMoves
    <3>4. CASE call' = CallAt("started", call.ch, None)
      <4>1. PICK c : c = call.ch
        OBVIOUS
      <4>2. call' = CallAt("started", c, None)
        BY <3>4, <4>1
      <4>3. call'.at = "started" /\ call'.ch = c
        BY <1>2, <4>2
      <4> QED BY <4>1, <4>3
    <3> QED BY <3>1, <3>2, <3>3, <3>4
  <2> QED BY <2>1, <2>2, <2>3, BrowserQuiet
<1>13. CASE create_channel
  <2>1. PICK c \in SlotArg :
           /\ CH6_Allocate_Section_Slot(c)
           /\ channels' = IF c = None THEN channels ELSE channels \cup {c}
    BY <1>13 DEF create_channel
  <2>2. /\ call' = call /\ call.at = "idle" /\ channelOf' = channelOf
    BY <1>13 DEF create_channel, At
  <2>3. CASE c = None
    <3>1. SlotsQuiet /\ FreshKept
      BY <2>1, <2>3, QuietOps, SlotOpsKeepRows, RowsFresh
    <3> QED BY <1>3, <2>1, <2>2, <2>3, <3>1, BrowserQuiet
  <2>4. CASE c # None
    <3>1. c \in Slots
      BY <2>4 DEF SlotArg
    <3>2. BrowserSlots' = BrowserSlots \cup {c}
      BY <2>1, <2>2, <2>4 DEF BrowserSlots, At
    <3>3. Stays
      BY <2>2 DEF Stays, SlotOf, mgVars
    <3>4. Creates(c)
      BY <1>4, <2>1, <3>1, <3>2, <3>3 DEF Creates
    <3>5. SlotFree(c) /\ OthersQuiet(c) /\ PidAt(c)' = NoPid
      BY <1>1, <2>1, <3>1, NewSlotRow
    <3>6. Aside
      BY <3>1, <3>5 DEF Aside, OthersQuiet, SlotsDivided, SlotKept
    <3>7. BrowserStands'
      BY <2>1, <2>2, <2>4 DEF BrowserStands, BrowserStarts, At
    <3> QED BY <3>4, <3>6, <3>7 DEF BrowserPart, Moves
  <2> QED BY <2>3, <2>4
<1>14. CASE set_channel_pid
  <2>1. PICK c \in channels, v \in BrowserPid : CH6_Set_Slot_Pid(c, v, FALSE)
    BY <1>14 DEF set_channel_pid
  <2>2. UNCHANGED clientVars /\ call.at = "idle"
    BY <1>14 DEF set_channel_pid, At
  <2>3. BrowserSlots' = BrowserSlots /\ c \in BrowserSlots /\ c \in Slots
    BY <1>1, <2>2 DEF BrowserSlots, At, clientVars
  <2>4. Stays
    BY <2>2 DEF Stays, SlotOf, mgVars, clientVars
  <2>5. Marks(c, v)
    BY <1>4, <2>1, <2>3, <2>4 DEF Marks, OwnersKept
  <2>6. PidAt(c)' = v /\ OthersQuiet(c)
    BY <1>1, <2>1, <2>3, PidRow
  <2>7. c \notin CaSlots
    BY <2>3 DEF SlotsDivided
  <2>8. Aside
    BY <2>1, <2>6, <2>7 DEF Aside, OthersQuiet, SlotsDivided, SlotKept
  <2>9. BrowserStands'
    BY <2>2 DEF BrowserStands, BrowserStarts, At, clientVars
  <2> QED BY <2>5, <2>8, <2>9 DEF BrowserPart, Moves
<1>15. CASE create_filter_associate
  <2>1. PICK err \in BOOLEAN :
           /\ CH6_Associate_Slot_Filter(call.ch, call.fl, err)
           /\ channelOf' = [channelOf EXCEPT ![call.fl] = CreatedOn(call.ch, err)]
    BY <1>15 DEF create_filter_associate, CreatedFilter
  <2>2. PICK c, f : c = call.ch /\ f = call.fl
    OBVIOUS
  <2>3. /\ At("associate") /\ channels' = channels /\ call'.at = "idle"
        /\ c \in channels /\ f \in Filters \ held /\ NotYetAssociated(f)
    <3>1. At("associate") /\ channels' = channels /\ call'.at = "idle"
      BY <1>2, <1>15 DEF create_filter_associate, Return
    <3>2. c \in channels
      BY <2>2, <3>1 DEF BrowserStands
    <3>3. f \in Filters \ held
      BY <2>2, <3>1 DEF ClientsIInv, FiltersDivided
    <3>4. NotYetAssociated(f)
      BY <1>1, <2>2, <3>1, <3>3 DEF EisInv
    <3> QED BY <3>1, <3>2, <3>3, <3>4
  <2>4. channelOf[f] = NoFilter
    <3> SUFFICES ASSUME channelOf[f] # NoFilter PROVE FALSE
      OBVIOUS
    <3>1. PICK d \in Slots : d = channelOf[f]
      BY <1>1, <2>3 DEF BrowserStands
    <3>2. SlotOf(f) = d /\ d # None
      BY <2>3, <3>1 DEF SlotOf, Slots, None
    <3>3. Linked(pti, SectionFilter[f].FilterHandle, SectionSlot[d].SlotHandle)
      BY <2>3, <3>2 DEF LinksMeant
    <3>4. /\ SectionFilter[f].SlotHandle = SectionSlot[d].SlotHandle
          /\ ~ SlotFree(d)
      BY <2>3, <3>3, LinkedIsAttached DEF Attached
    <3> QED BY <2>3, <3>4 DEF NotYetAssociated, DemuxInv, StatusMatchesHandle
  <2>5. call.at = "associate" /\ BrowserSlots' = BrowserSlots
    BY <2>3 DEF BrowserSlots, At
  <2>6. CASE err
    <3>1. channelOf' = channelOf
      BY <1>1, <2>1, <2>2, <2>3, <2>4, <2>6 DEF CreatedOn
    <3>2. SlotsQuiet /\ FreshKept
      <4>1. UNCHANGED demuxVars
        BY <2>1, <2>6 DEF CH6_Associate_Slot_Filter, Failed
      <4> QED BY <1>7, <4>1
    <3> QED BY <1>3, <2>3, <2>5, <3>1, <3>2, BrowserQuiet
  <2>7. CASE ~ err
    <3>1. CH6_Associate_Slot_Filter(c, f, FALSE)
      BY <2>1, <2>2, <2>7
    <3>2. channelOf' = [channelOf EXCEPT ![f] = c]
      BY <2>1, <2>2, <2>7 DEF CreatedOn
    <3>3. c \in Slots /\ ~ SlotFree(c) /\ RecountedAt(c, Succ8(Count8(c)))
      BY <1>1, <3>1, JoinedRow
    <3>4. SlotOf(f) = None
      BY <2>3, <2>4 DEF SlotOf, NoFilter, Slots, None
    <3>5. SlotOf(f)' = c
      BY <1>1, <2>3, <3>2, <3>3 DEF SlotOf, mgVars
    <3>6. Only(f)
      BY <1>1, <2>3, <3>2 DEF Only, SlotOf, mgVars
    <3>7. Joins(f, c)
      BY <1>4, <2>5, <3>1, <3>4, <3>5, <3>6 DEF Joins, OwnersKept
    <3>8. c \notin CaSlots
      BY <2>3 DEF SlotsDivided, BrowserSlots
    <3>9. Aside
      BY <3>3, <3>8 DEF Aside, RecountedAt, SlotsDivided, SlotKept
    <3>10. BrowserStands'
      BY <1>1, <2>3, <3>2 DEF BrowserStands, BrowserStarts, At
    <3> QED BY <3>7, <3>9, <3>10 DEF BrowserPart, Moves
  <2> QED BY <2>6, <2>7
<1>16. CASE destroy_filter
  <2>1. PICK f \in BrowserFilters :
           /\ CH6_Free_Section_Filter(f, FALSE)
           /\ channelOf' = [channelOf EXCEPT ![f] = NoFilter]
    BY <1>16 DEF destroy_filter
  <2>2. /\ f \in Filters \ held
        /\ call' = call /\ call.at = "idle" /\ channels' = channels
    BY <1>16, <2>1 DEF destroy_filter, At, BrowserFilters, ClientsIInv,
                       FiltersDivided
  <2>3. PICK c \in channels : c = channelOf[f]
    BY <2>1 DEF BrowserStands, BrowserFilters
  <2>4. SlotOf(f) = c /\ c \in Slots /\ c # None
    BY <1>1, <2>2, <2>3 DEF SlotOf, Slots, None
  <2>5. ~ SlotFree(c) /\ RecountedAt(c, Pred8(Count8(c)))
    <3>1. Linked(pti, SectionFilter[f].FilterHandle, SectionSlot[c].SlotHandle)
      BY <2>2, <2>4 DEF LinksMeant
    <3> QED BY <2>1, <2>2, <2>4, <3>1, LinkedIsAttached, LeftRow DEF Attached
  <2>6. SlotOf(f)' = None
    BY <1>1, <2>1, <2>2 DEF SlotOf, mgVars, NoFilter, Slots, None
  <2>7. Only(f)
    BY <1>1, <2>1, <2>2 DEF Only, SlotOf, mgVars
  <2>8. Leaves(f)
    <3>1. BrowserSlots' = BrowserSlots
      BY <2>2 DEF BrowserSlots, At
    <3> QED BY <1>4, <2>1, <2>2, <2>4, <2>6, <2>7, <3>1 DEF Leaves, OwnersKept
  <2>9. c \notin CaSlots
    BY <2>3 DEF SlotsDivided, BrowserSlots
  <2>10. Aside
    BY <2>5, <2>9 DEF Aside, RecountedAt, SlotsDivided, SlotKept
  <2>11. BrowserStands'
    BY <1>1, <2>1, <2>2 DEF BrowserStands, BrowserStarts, At
  <2> QED BY <2>8, <2>10, <2>11 DEF BrowserPart, Moves
<1>17. CASE destroy_channel_stop
  <2>1. PICK c \in channels :
           /\ \A f \in Filters : channelOf[f] # c
           /\ \E err \in BOOLEAN : CH6_Stop_Slot(c, err)
           /\ call' = CallAt("free", c, None)
           /\ channels' = channels \ {c}
    BY <1>1, <1>17 DEF destroy_channel_stop
  <2>2. /\ SlotsQuiet /\ FreshKept /\ channelOf' = channelOf /\ call.at = "idle"
        /\ call'.at = "free" /\ call'.ch = c
    BY <1>2, <1>6, <1>17, <2>1 DEF destroy_channel_stop, At
  <2>3. BrowserSlots' = BrowserSlots
    BY <2>1, <2>2 DEF BrowserSlots, At
  <2>4. SparesAll
    <3>1. ~ destroy_filter /\ ~ destroy_channel_free
      <4>1. ~ destroy_filter
        BY <1>1, <2>2 DEF destroy_filter, BrowserFilters
      <4> QED BY <2>2, <4>1 DEF destroy_channel_free, At
    <3> QED BY <1>1, <3>1, BrowserSpares DEF SparesAll
  <2>5. Stays
    BY <2>2 DEF Stays, SlotOf, mgVars
  <2>6. Aside
    BY <2>2 DEF Aside, SlotsQuiet, SlotsDivided, SlotKept
  <2>7. BrowserStands'
    BY <1>1, <2>1, <2>2 DEF BrowserStands, BrowserStarts, At
  <2> QED BY <1>4, <2>2, <2>3, <2>4, <2>5, <2>6, <2>7
          DEF BrowserPart, Moves, Quietly, OwnersKept
<1>18. CASE destroy_channel_free
  <2>1. PICK c : c = call.ch
    OBVIOUS
  <2>2. /\ call.at = "free" /\ c \in Slots \ channels /\ channels' = channels
        /\ call'.at = "idle"
    BY <1>2, <1>18, <2>1 DEF destroy_channel_free, Return, At, BrowserStands
  <2>3. c \in BrowserSlots /\ ~ SlotFree(c) /\ c \notin CaSlots
    BY <2>1, <2>2 DEF BrowserSlots, At, SlotsDivided
  <2>4. PICK err \in BOOLEAN : CH6_Free_Section_Slot(c, err)
    BY <1>18, <2>1 DEF destroy_channel_free, SlotToFree
  <2>5. /\ err = FALSE /\ OthersQuiet(c) /\ PidAt(c)' = NoPid
    BY <1>1, <2>2, <2>3, <2>4, GoneRow
  <2>6. channelOf' = channelOf
    <3>1. \A f \in Filters : channelOf[f] # c
      BY <2>2 DEF BrowserStands, NoFilter, Slots
    <3> QED BY <1>1, <1>18, <2>1, <3>1 DEF destroy_channel_free
  <2>7. On(c) = {}
    <3> SUFFICES ASSUME NEW f \in Filters, SlotOf(f) = c PROVE FALSE
      BY DEF On
    <3>1. channelOf[f] # c /\ c # None
      BY <2>2 DEF BrowserStands, NoFilter, Slots, None
    <3>2. f \in held /\ FDmxFlterInfo[f].SlotId = c
      BY <3>1 DEF SlotOf
    <3> QED BY <2>3, <3>1, <3>2 DEF CaSlots
  <2>8. Stays
    BY <2>6 DEF Stays, SlotOf, mgVars
  <2>9. BrowserSlots' = BrowserSlots \ {c}
    BY <2>1, <2>2 DEF BrowserSlots, At
  <2>10. Destroys(c)
    BY <1>4, <2>3, <2>4, <2>5, <2>7, <2>8, <2>9 DEF Destroys
  <2>11. Aside
    BY <2>3, <2>5 DEF Aside, OthersQuiet, SlotsDivided, SlotKept
  <2>12. BrowserStands'
    BY <2>2, <2>6 DEF BrowserStands, BrowserStarts, At
  <2> QED BY <2>10, <2>11, <2>12 DEF BrowserPart, Moves
<1> QED
  BY <1>8, <1>9, <1>10, <1>11, <1>12, <1>13, <1>14, <1>15, <1>16, <1>17, <1>18
     DEF Browser

-----------------------------------------------------------------------------
(* What the browser leaves aside, the kernel still knows.                   *)
LEMMA KernelFacts ==
    ASSUME ClientsIInv, SlotsDivided, KernelStands
    PROVE  /\ FDmxFlterInfo \in [Filters -> InfoRow] /\ ddi \in Operation
           /\ held \subseteq Filters
           /\ ddi.at \notin {"idle", "free slot"} => ddi.fl \in held
           /\ \A f \in held : /\ ~ FilterFree(f) /\ channelOf[f] = NoFilter
                              /\ FDmxFlterInfo[f].SlotId \in Slots \cup {None}
                              /\ FDmxFlterInfo[f].SlotId # None =>
                                    FDmxFlterInfo[f].SlotId \in CaSlots
           /\ Doing("free slot") => Slot \in CaSlots
           /\ ddi.at \in {"set pid", "set", "associate", "start", "stop",
                          "stop slot", "free"} => Slot \in CaSlots
           /\ \A s \in CaSlots : s \in Slots /\ ~ SlotFree(s) /\ s \notin channels
           /\ None \notin Slots /\ NoFilter \notin Slots
<1>1. /\ FDmxFlterInfo \in [Filters -> InfoRow] /\ ddi \in Operation
      /\ held \subseteq Filters
      /\ ddi.at \notin {"idle", "free slot"} => ddi.fl \in held
      /\ \A f \in held \cup BrowserFilters : ~ FilterFree(f)
      /\ held \cap BrowserFilters = {}
  BY DEF ClientsIInv, ClientsInv, FiltersDivided, MgTypeOK, Doing
<1>2. \A f \in held : /\ FDmxFlterInfo[f].SlotId \in Slots \cup {None}
                      /\ channelOf[f] = NoFilter
  BY <1>1 DEF InfoRow, SlotArg, BrowserFilters
<1>3. None \notin Slots /\ NoFilter \notin Slots
  BY DEF None, NoFilter, Slots
<1>4. \A f \in held : FDmxFlterInfo[f].SlotId # None
                        => FDmxFlterInfo[f].SlotId \in CaSlots
  BY DEF CaSlots
<1>5. Doing("free slot") => Slot \in CaSlots
  BY DEF CaSlots, KernelStands, Slot, Info
<1>6. ddi.at \in {"set pid", "set", "associate", "start", "stop", "stop slot",
                  "free"} => Slot \in CaSlots
  BY <1>1, <1>4 DEF KernelStands, Slot, Info, Setting
<1>7. \A s \in CaSlots : s \in Slots /\ ~ SlotFree(s) /\ s \notin channels
  BY DEF SlotsDivided, BrowserSlots
<1> QED BY <1>1, <1>2, <1>3, <1>4, <1>5, <1>6, <1>7

LEMMA BrowserKeepsKernel ==
    ASSUME Apart, ClientsIInv, SlotsDivided, KernelStands, KernelKnows, Aside,
           UNCHANGED mgVars
    PROVE  KernelStands' /\ KernelKnows'
<1>1. FDmxFlterInfo' = FDmxFlterInfo /\ ddi' = ddi /\ held' = held
  BY DEF mgVars
<1>2. /\ \A f \in held : FDmxFlterInfo[f].SlotId # None =>
            FDmxFlterInfo[f].SlotId \in CaSlots
      /\ ddi.at \in {"set pid", "stop", "free"} => Slot \in CaSlots
  BY KernelFacts
<1>3. \A s \in CaSlots : PidAt(s)' = PidAt(s) /\ Count8(s)' = Count8(s)
  BY DEF Aside, SlotKept, CountKept
<1>4. KernelStands'
  BY <1>1 DEF KernelStands, Setting, Doing, Info, Slot
<1>5. \A f \in held :
         FDmxFlterInfo[f].SlotId # None /\ ~ (Doing("set pid") /\ f = ddi.fl) =>
            /\ PidAt(FDmxFlterInfo[f].SlotId)' = FDmxFlterInfo[f].FilterPID
            /\ FDmxFlterInfo[f].FilterPID \in CaPid
  BY <1>1, <1>2, <1>3 DEF KernelKnows, PidAt
<1>6. Doing("set pid") => PidAt(Slot)' = NoPid
  <2>1. Slot' = Slot
    BY <1>1 DEF Slot, Info
  <2> QED BY <1>2, <1>3, <2>1 DEF KernelKnows, Doing, PidAt
<1>7. ddi.at \in {"allocate", "set pid"} =>
         \A s \in Slots : PidAt(s)' # Info.FilterPID
  BY PidsApart DEF ClientsIInv, DdiPlaced, KernelKnows, Aside
<1>8. ddi.at \in {"stop", "free"} => ddi.count = SectionSlot'[Slot].FilterCount
  BY <1>2, <1>3 DEF KernelKnows, Count8
<1> QED BY <1>1, <1>4, <1>5, <1>6, <1>7, <1>8 DEF KernelKnows, Doing, Info, Slot, PidAt

-----------------------------------------------------------------------------
(* Each operation of the kernel moves the ledger and knows where it stands. *)
KernelPart == Moves /\ KernelStands' /\ KernelKnows'

(* What a filter of the kernel's keeps: a slot while in use, with its PID.  *)
SlotInUse(f) == FDmxFlterInfo[f].SlotId # None <=> FDmxFlterInfo[f].defined
PidKnown(f)  == FDmxFlterInfo[f].SlotId # None =>
                  /\ PidAt(FDmxFlterInfo[f].SlotId) = FDmxFlterInfo[f].FilterPID
                  /\ FDmxFlterInfo[f].FilterPID \in CaPid

LEMMA EndsIdle ==
    ASSUME ddi'.at = "idle", \A f \in held' : SlotInUse(f)' /\ PidKnown(f)'
    PROVE  KernelStands' /\ KernelKnows'
BY DEF KernelStands, KernelKnows, Setting, Doing, SlotInUse, PidKnown

LEMMA EndsInUse ==
    ASSUME \A f \in held' : SlotInUse(f)' /\ PidKnown(f)',
           ddi'.at \in {"start", "stop", "free"}, Info'.defined,
           ddi'.at \in {"stop", "free"} =>
               ddi'.count = SectionSlot'[Slot'].FilterCount
    PROVE  KernelStands' /\ KernelKnows'
BY DEF KernelStands, KernelKnows, Setting, Doing, SlotInUse, PidKnown

LEMMA KernelSpares ==
    ASSUME ClientsIInv, SlotsDivided, KernelStands, CaClient, NEW f, NEW c,
           free_filter => ddi.fl # f, free_slot => Slot # c
    PROVE  Spares(f, c)
<1>1. CASE MGDDISrcAllocDmxFltr \/ set_allocate
  BY <1>1 DEF MGDDISrcAllocDmxFltr, set_allocate, Spares
<1>2. CASE set_pid
  <2>1. Doing("set pid") /\ CH6_Set_Slot_Pid(Slot, Info.FilterPID, FALSE)
    BY <1>2 DEF set_pid
  <2>2. Slot \in Slots /\ Info.FilterPID \in Pid
    BY <2>1, KernelFacts, MgDmxFilterAssumption DEF Doing, ClientsIInv, DdiPlaced
  <2> QED BY <2>1, <2>2 DEF Spares
<1>3. CASE set_filter \/ start_filter \/ stop_filter
  BY <1>3 DEF set_filter, start_filter, stop_filter, Spares
<1>4. CASE set_associate
  BY <1>4 DEF set_associate, Spares
<1>5. CASE stop_slot \/ \E g \in Filters : start_slot(g)
  BY <1>5 DEF stop_slot, start_slot, Spares
<1>6. CASE free_filter
  BY <1>6 DEF free_filter, Spares
<1>7. CASE free_slot
  BY <1>7 DEF free_slot, Spares
<1>8. CASE \/ \E g \in Filters, v \in CaPid : set_find(g, v)
           \/ \E g \in Filters : stop_count(g) \/ free_count(g)
  BY <1>8 DEF set_find, stop_count, free_count, Spares
<1>9. CASE BaseWorks
  BY <1>9, KernelFacts, BaseFacts DEF Spares
<1> QED BY <1>1, <1>2, <1>3, <1>4, <1>5, <1>6, <1>7, <1>8, <1>9
        DEF CaClient, BaseWorks

LEMMA KernelQuiet ==
    ASSUME ClientsIInv, SlotsDivided, KernelStands, CaClient,
           UNCHANGED clientVars, SlotsQuiet, FreshKept,
           ~ Doing("free"), ~ Doing("free slot"),
           \A f \in Filters : SlotOf(f)' = SlotOf(f),
           CaSlots' = CaSlots
    PROVE  Moves
<1>1. ~ free_filter /\ ~ free_slot
  BY DEF free_filter, free_slot
<1>2. SparesAll
  BY <1>1, KernelSpares DEF SparesAll
<1>3. BrowserSlots' = BrowserSlots
  BY DEF BrowserSlots, At, clientVars
<1> QED BY <1>2, <1>3 DEF Moves, Quietly, Stays, OwnersKept

(* An operation that rewrites one row of the table, its slot and use kept.  *)
SameUse == \A f \in held : /\ FDmxFlterInfo'[f].SlotId = FDmxFlterInfo[f].SlotId
                           /\ FDmxFlterInfo'[f].defined = FDmxFlterInfo[f].defined
                           /\ FDmxFlterInfo'[f].FilterPID = FDmxFlterInfo[f].FilterPID

LEMMA SameUseQuiet ==
    ASSUME ClientsIInv, SlotsDivided, KernelStands, UNCHANGED clientVars,
           held' = held, SameUse,
           ~ Doing("free slot"), ddi'.at # "free slot"
    PROVE  /\ \A f \in Filters : SlotOf(f)' = SlotOf(f)
           /\ CaSlots' = CaSlots
BY DEF SameUse, SlotOf, CaSlots, Doing, clientVars

LEMMA SameUseKnown ==
    ASSUME ClientsIInv, SlotsDivided, KernelStands, SameUse, NEW f \in held,
           \A s \in CaSlots : SlotKept(s),
           SlotInUse(f), PidKnown(f)
    PROVE  SlotInUse(f)' /\ PidKnown(f)'
<1>1. FDmxFlterInfo[f].SlotId # None => FDmxFlterInfo[f].SlotId \in CaSlots
  BY KernelFacts
<1> QED BY <1>1 DEF SameUse, SlotInUse, PidKnown, SlotKept, PidAt

(* What holds when the kernel makes a call.                                 *)
KernelReady ==
    /\ Apart /\ ClientsIInv /\ DemuxInv
    /\ SlotsDivided /\ LinksMeant /\ CountsMeant /\ PidsDivided
    /\ BrowserStands /\ KernelStands /\ KernelKnows

LEMMA ReadyFacts ==
    ASSUME KernelReady
    PROVE  /\ Orderly /\ ~ AssociationFails /\ DemuxTypeOK
           /\ FDmxFlterInfo \in [Filters -> InfoRow] /\ ddi \in Operation
           /\ held \subseteq Filters
           /\ ddi.at \notin {"idle", "free slot"} => ddi.fl \in held
           /\ \A f \in Filters : FilterFree(f) => f \notin held /\ channelOf[f] = NoFilter
           /\ \A f \in held :
                 /\ ~ FilterFree(f) /\ channelOf[f] = NoFilter
                 /\ FDmxFlterInfo[f].SlotId \in Slots \cup {None}
                 /\ FDmxFlterInfo[f].SlotId # None => FDmxFlterInfo[f].SlotId \in CaSlots
                 /\ ~ (Setting /\ f = ddi.fl) => SlotInUse(f) /\ PidKnown(f)
           /\ \A s \in CaSlots : s \in Slots /\ ~ SlotFree(s) /\ s \notin channels
           /\ None \notin Slots /\ NoFilter \notin Slots
<1>1. /\ ClientsIInv /\ SlotsDivided /\ KernelStands /\ KernelKnows
      /\ Orderly /\ ~ AssociationFails /\ DemuxTypeOK
  BY DEF KernelReady, Apart, DemuxInv
<1>2. \A f \in Filters : FilterFree(f) => f \notin held /\ channelOf[f] = NoFilter
  BY <1>1 DEF ClientsIInv, FiltersDivided, BrowserFilters
<1>3. \A f \in held : ~ (Setting /\ f = ddi.fl) => SlotInUse(f) /\ PidKnown(f)
  <2> SUFFICES ASSUME NEW f \in held, ~ (Setting /\ f = ddi.fl)
               PROVE  SlotInUse(f) /\ PidKnown(f)
    OBVIOUS
  <2>1. SlotInUse(f)
    BY <1>1 DEF KernelStands, SlotInUse
  <2>2. PidKnown(f)
    BY <1>1 DEF KernelKnows, PidKnown, Setting, Doing
  <2> QED BY <2>1, <2>2
<1> QED BY <1>1, <1>2, <1>3, KernelFacts

LEMMA AllocLedger ==
    ASSUME KernelReady, UNCHANGED clientVars, MGDDISrcAllocDmxFltr
    PROVE  KernelPart
<1>1. /\ ClientsIInv /\ SlotsDivided /\ KernelStands /\ CaClient
      /\ channelOf' = channelOf /\ DemuxTypeOK
  BY ReadyFacts DEF KernelReady, CaClient, clientVars
<1>2. PICK f \in FilterArg :
         /\ CH6_Allocate_Section_Filter(f)
         /\ IF f = None
            THEN UNCHANGED <<FDmxFlterInfo, held>>
            ELSE /\ FDmxFlterInfo' = [FDmxFlterInfo EXCEPT ![f] = FreshInfo]
                 /\ held' = held \cup {f}
  BY DEF MGDDISrcAllocDmxFltr
<1>3. ddi' = ddi /\ ddi.at = "idle" /\ ~ Setting
  BY DEF MGDDISrcAllocDmxFltr, Doing, Setting
<1>4. SlotsQuiet /\ FreshKept
  <2>1. FreshKept
    BY <1>1, <1>2, AllocatedRow
       DEF FreshKept, RowsKept, OthersKept, RowKept, NotYetAssociated
  <2> QED BY <1>2, <2>1, QuietOps
<1>5. /\ \A g \in held : FDmxFlterInfo'[g] = FDmxFlterInfo[g]
      /\ \A g \in held' \ held : /\ FDmxFlterInfo'[g] = FreshInfo
                                 /\ channelOf[g] = NoFilter
      /\ held \subseteq held' /\ held' \subseteq Filters
  <2>1. CASE f = None
    BY <1>2, <2>1, ReadyFacts
  <2>2. CASE f # None
    <3>1. f \in Filters /\ FilterFree(f) /\ f \notin held /\ channelOf[f] = NoFilter
      BY <1>1, <1>2, <2>2, AllocatedRow, ReadyFacts
    <3> QED BY <1>2, <2>2, <3>1, ReadyFacts
  <2> QED BY <2>1, <2>2
<1>6. FreshInfo.SlotId = None /\ FreshInfo.defined = FALSE
  BY DEF FreshInfo
<1>7. \A g \in Filters : SlotOf(g)' = SlotOf(g)
  BY <1>1, <1>5, <1>6 DEF SlotOf, NoFilter, Slots
<1>8. CaSlots' = CaSlots
  BY <1>3, <1>5, <1>6 DEF CaSlots, Doing
<1>9. \A g \in held' : SlotInUse(g)' /\ PidKnown(g)'
  <2> SUFFICES ASSUME NEW g \in held' PROVE SlotInUse(g)' /\ PidKnown(g)'
    OBVIOUS
  <2>1. CASE g \in held
    <3>1. SlotInUse(g) /\ PidKnown(g) /\ FDmxFlterInfo[g].SlotId \in Slots \cup {None}
      BY <1>3, <2>1, ReadyFacts
    <3> QED BY <1>4, <1>5, <2>1, <3>1 DEF SlotInUse, PidKnown, SlotsQuiet, SlotKept, PidAt
  <2>2. CASE g \notin held
    BY <1>5, <1>6, <2>2 DEF SlotInUse, PidKnown
  <2> QED BY <2>1, <2>2
<1>10. Moves
  BY <1>1, <1>3, <1>4, <1>7, <1>8, KernelQuiet DEF Doing
<1> QED BY <1>3, <1>9, <1>10, EndsIdle DEF KernelPart

(* An operation that writes neither a slot's row nor a filter's slot.       *)
LEMMA QuietLedger ==
    ASSUME KernelReady, UNCHANGED clientVars, CaClient, SlotsQuiet, FreshKept,
           held' = held, SameUse, ~ Setting, ~ Doing("free"), ~ Doing("free slot"),
           ddi'.at # "free slot"
    PROVE  Moves /\ \A g \in held' : SlotInUse(g)' /\ PidKnown(g)'
<1>1. ClientsIInv /\ SlotsDivided /\ KernelStands
  BY DEF KernelReady
<1>2. Moves
  BY <1>1, SameUseQuiet, KernelQuiet
<1>3. ASSUME NEW g \in held' PROVE SlotInUse(g)' /\ PidKnown(g)'
  <2>1. \A s \in CaSlots : SlotKept(s)
    BY ReadyFacts DEF SlotsQuiet
  <2>2. SlotInUse(g) /\ PidKnown(g) /\ g \in held
    BY ReadyFacts
  <2> QED BY <1>1, <2>1, <2>2, SameUseKnown
<1> QED BY <1>2, <1>3

LEMMA SameInfoUse == FDmxFlterInfo' = FDmxFlterInfo => SameUse
BY DEF SameUse

LEMMA StartSlotLedger ==
    ASSUME KernelReady, UNCHANGED clientVars, NEW f \in Filters, start_slot(f)
    PROVE  KernelPart
<1>1. /\ CaClient /\ FDmxFlterInfo' = FDmxFlterInfo /\ held' = held
      /\ f \in held /\ ddi.at = "idle" /\ FDmxFlterInfo[f].SlotId # None
      /\ ddi'.at = "start" /\ ddi'.fl = f
  BY DEF CaClient, start_slot, Named, Doing, Begin
<1>2. SlotsQuiet /\ FreshKept
  BY QuietOps, SlotOpsKeepRows, RowsFresh DEF start_slot
<1>3. Moves /\ \A g \in held' : SlotInUse(g)' /\ PidKnown(g)'
  BY <1>1, <1>2, QuietLedger, SameInfoUse DEF Setting, Doing
<1>4. Info'.defined
  BY <1>1, <1>3 DEF SlotInUse, Info
<1> QED BY <1>1, <1>3, <1>4, EndsInUse DEF KernelPart

LEMMA CountLedger ==
    ASSUME KernelReady, UNCHANGED clientVars, NEW f \in Filters,
           stop_count(f) \/ free_count(f)
    PROVE  KernelPart
<1>1. /\ CaClient /\ FDmxFlterInfo' = FDmxFlterInfo /\ held' = held
      /\ f \in held /\ ddi.at = "idle" /\ FDmxFlterInfo[f].SlotId # None
      /\ ddi'.at \in {"stop", "free"} /\ ddi'.fl = f /\ ddi'.count = Count(f)
      /\ UNCHANGED demuxVars
  BY DEF CaClient, stop_count, free_count, Named, Doing, Begin
<1>2. SlotsQuiet /\ FreshKept
  BY <1>1, SameSlots, UnchangedRows, RowsFresh DEF demuxVars
<1>3. Moves /\ \A g \in held' : SlotInUse(g)' /\ PidKnown(g)'
  BY <1>1, <1>2, QuietLedger, SameInfoUse DEF Setting, Doing
<1>4. Info'.defined
  BY <1>1, <1>3 DEF SlotInUse, Info
<1>5. ddi'.count = SectionSlot'[Slot'].FilterCount
  BY <1>1 DEF Count, CH6_Get_SlotAssociateFilter_Count, Slot, Info, demuxVars
<1> QED BY <1>1, <1>3, <1>4, <1>5, EndsInUse DEF KernelPart

LEMMA StartFilterLedger ==
    ASSUME KernelReady, UNCHANGED clientVars, start_filter
    PROVE  KernelPart
<1>1. PICK err \in BOOLEAN :
         /\ CH6_Start_Filter(ddi.fl, err)
         /\ SetInfo([Info EXCEPT !.bdmxactived = @ \/ ~ err])
  BY DEF start_filter
<1>2. /\ CaClient /\ held' = held /\ ddi.at = "start" /\ ddi'.at = "idle"
      /\ DemuxTypeOK
  BY ReadyFacts DEF CaClient, start_filter, Doing, Done, NoOperation
<1>3. SlotsQuiet /\ FreshKept
  BY <1>1, <1>2, QuietOps, ArmingKeepsRows, RowsFresh
<1>4. SameUse
  BY <1>1, <1>2, ReadyFacts DEF SameUse, SetInfo, Info, InfoRow
<1>5. Moves /\ \A g \in held' : SlotInUse(g)' /\ PidKnown(g)'
  BY <1>2, <1>3, <1>4, QuietLedger DEF Setting, Doing
<1> QED BY <1>2, <1>5, EndsIdle DEF KernelPart

LEMMA StopSlotLedger ==
    ASSUME KernelReady, UNCHANGED clientVars, stop_slot
    PROVE  KernelPart
<1>1. /\ CaClient /\ FDmxFlterInfo' = FDmxFlterInfo /\ held' = held
      /\ ddi.at = "stop slot" /\ ddi'.at = "idle"
  BY DEF CaClient, stop_slot, Doing, Done, NoOperation
<1>2. SlotsQuiet /\ FreshKept
  BY QuietOps, SlotOpsKeepRows, RowsFresh DEF stop_slot
<1>3. Moves /\ \A g \in held' : SlotInUse(g)' /\ PidKnown(g)'
  BY <1>1, <1>2, QuietLedger, SameInfoUse DEF Setting, Doing
<1> QED BY <1>1, <1>3, EndsIdle DEF KernelPart

(* A count of one is the filter itself: the slot is nobody else's.          *)
LEMMA LastOne ==
    ASSUME KernelReady, ddi.at \in {"stop", "free"}, ~ SharedSlot(ddi.count)
    PROVE  /\ Slot \in Slots /\ SlotOf(ddi.fl) = Slot /\ On(Slot) = {ddi.fl}
           /\ \A g \in held \ {ddi.fl} : FDmxFlterInfo[g].SlotId # Slot
<1>1. PICK f, s : f = ddi.fl /\ s = Slot
  OBVIOUS
<1>2. /\ f \in held /\ f \in Filters /\ FDmxFlterInfo[f].SlotId = s
      /\ FDmxFlterInfo[f].defined
      /\ ddi.count = Count8(s)
  BY <1>1, ReadyFacts DEF KernelReady, KernelStands, KernelKnows, Slot, Info, Count8
<1>3. s # None /\ s \in Slots /\ s \in CaSlots /\ ~ SlotFree(s) /\ ~ Setting
  BY <1>2, ReadyFacts DEF SlotInUse, Setting
<1>4. SlotOf(f) = s /\ f \in On(s)
  BY <1>2 DEF SlotOf, On
<1>5. Count8(s) = Cardinality(On(s))
  BY <1>3 DEF KernelReady, CountsMeant, Count8
<1>6. ~ Cardinality(On(s)) > 1
  BY <1>2, <1>5 DEF SharedSlot
<1>7. /\ IsFiniteSet(On(s) \ {f}) /\ Cardinality(On(s)) \in Nat
      /\ Cardinality(On(s) \ {f}) = Cardinality(On(s)) - 1
      /\ Cardinality(On(s) \ {f}) \in Nat
  <2>1. IsFiniteSet(On(s)) /\ Cardinality(On(s)) \in 0 .. MaxFilter
    BY OnFinite
  <2>2. MaxFilter \in Nat
    BY ChDemuxAssumption
  <2>3. IsFiniteSet(On(s) \ {f}) /\ Cardinality(On(s) \ {f}) = Cardinality(On(s)) - 1
    BY <1>4, <2>1, FS_RemoveElement
  <2>4. Cardinality(On(s) \ {f}) \in Nat
    BY <2>3, FS_CardinalityType
  <2> QED BY <2>1, <2>2, <2>3, <2>4
<1>8. Cardinality(On(s) \ {f}) = 0
  BY <1>6, <1>7
<1>9. On(s) = {f}
  <2>1. On(s) \ {f} = {}
    BY <1>7, <1>8, FS_EmptySet
  <2> QED BY <1>4, <2>1
<1>10. \A g \in held \ {f} : FDmxFlterInfo[g].SlotId # s
  <2> SUFFICES ASSUME NEW g \in held, FDmxFlterInfo[g].SlotId = s PROVE g = f
    OBVIOUS
  <2>1. FDmxFlterInfo[g].defined /\ g \in Filters
    BY <1>3, ReadyFacts DEF SlotInUse
  <2>2. g \in On(s)
    BY <2>1 DEF On, SlotOf
  <2> QED BY <1>9, <2>2
<1> QED BY <1>1, <1>3, <1>4, <1>9, <1>10

LEMMA EndsStopSlot ==
    ASSUME \A f \in held' : SlotInUse(f)' /\ PidKnown(f)',
           ddi'.at = "stop slot", Info'.defined,
           \A g \in held' \ {ddi'.fl} : FDmxFlterInfo'[g].SlotId # Slot'
    PROVE  KernelStands' /\ KernelKnows'
BY DEF KernelStands, KernelKnows, Setting, Doing, SlotInUse, PidKnown

LEMMA StopFilterLedger ==
    ASSUME KernelReady, UNCHANGED clientVars, stop_filter
    PROVE  KernelPart
<1>1. PICK err \in BOOLEAN :
         /\ CH6_Stop_Filter(ddi.fl, err)
         /\ SetInfo([Info EXCEPT !.bdmxactived = @ /\ err])
         /\ IF ~ err /\ LastFilter(ddi.count) THEN Proceed("stop slot") ELSE Done
  BY DEF stop_filter
<1>2. PICK f : f = ddi.fl
  OBVIOUS
<1>3. /\ CaClient /\ held' = held /\ ddi.at = "stop" /\ DemuxTypeOK
      /\ f \in held /\ f \in Filters
  BY <1>2, ReadyFacts DEF CaClient, stop_filter, Doing
<1>4. SlotsQuiet /\ FreshKept
  BY <1>1, <1>3, QuietOps, ArmingKeepsRows, RowsFresh
<1>5. SameUse
  BY <1>1, <1>3, ReadyFacts DEF SameUse, SetInfo, Info, InfoRow
<1>6. \/ ddi'.at = "idle"
      \/ ddi'.at = "stop slot" /\ ddi'.fl = f /\ LastFilter(ddi.count)
  BY <1>1, <1>2, ReadyFacts, DoneTyped, ProceedTyped
<1>7. Moves /\ \A g \in held' : SlotInUse(g)' /\ PidKnown(g)'
  BY <1>3, <1>4, <1>5, <1>6, QuietLedger DEF Setting, Doing
<1>8. CASE ddi'.at = "idle"
  BY <1>7, <1>8, EndsIdle DEF KernelPart
<1>9. CASE ddi'.at = "stop slot" /\ ddi'.fl = f /\ LastFilter(ddi.count)
  <2>1. ~ SharedSlot(ddi.count)
    <3>1. ddi.count = 1
      BY <1>9 DEF LastFilter
    <3>2. ~ SharedSlot(1)
      BY DEF SharedSlot
    <3> QED BY <3>1, <3>2
  <2>2. /\ FDmxFlterInfo[f].defined
        /\ \A g \in held \ {f} : FDmxFlterInfo[g].SlotId # FDmxFlterInfo[f].SlotId
    BY <1>2, <1>3, <2>1, LastOne DEF KernelReady, KernelStands, Info, Slot
  <2>3. /\ Info'.defined
        /\ \A g \in held' \ {f} : FDmxFlterInfo'[g].SlotId # Slot'
    BY <1>3, <1>5, <1>9, <2>2 DEF SameUse, Info, Slot
  <2> QED BY <1>7, <1>9, <2>3, EndsStopSlot DEF KernelPart
<1> QED BY <1>6, <1>8, <1>9

(* A filter being set has its slot before it is in use.                     *)
LEMMA EndsSetting ==
    ASSUME ddi'.at \in {"set", "associate"},
           \A g \in held' : PidKnown(g)',
           \A g \in held' \ {ddi'.fl} : SlotInUse(g)',
           ddi'.fl \in held', Slot' # None
    PROVE  KernelStands' /\ KernelKnows'
BY DEF KernelStands, KernelKnows, Setting, Doing, SlotInUse, PidKnown, Slot, Info

LEMMA SetFilterLedger ==
    ASSUME KernelReady, UNCHANGED clientVars, set_filter
    PROVE  KernelPart
<1>1. PICK err \in BOOLEAN :
         /\ CH6_Set_Filter(ddi.fl, err)
         /\ IF err THEN Done ELSE Proceed("associate")
  BY DEF set_filter
<1>2. PICK f : f = ddi.fl
  OBVIOUS
<1>3. /\ CaClient /\ held' = held /\ FDmxFlterInfo' = FDmxFlterInfo
      /\ ddi.at = "set" /\ DemuxTypeOK
      /\ f \in held /\ f \in Filters
  BY <1>2, ReadyFacts DEF CaClient, set_filter, Doing
<1>4. ~ err
  <2>1. ~ FilterFree(f)
    BY <1>3, ReadyFacts
  <2>2. FilterUsable(f)
    BY <1>3, <2>1 DEF KernelReady, DemuxInv, StatusMatchesHandle, FilterUsable, FilterTaken
  <2> QED BY <1>1, <1>2, <2>2 DEF CH6_Set_Filter
<1>5. ddi'.at = "associate" /\ ddi'.fl = f
  BY <1>1, <1>2, <1>4, ReadyFacts, ProceedTyped
<1>6. SlotsQuiet /\ FreshKept
  BY <1>1, <1>3, QuietOps, ArmingKeepsRows, RowsFresh
<1>7. SameUse
  BY <1>3, SameInfoUse
<1>8. /\ \A s \in CaSlots : SlotKept(s)
      /\ \A g \in held : PidKnown(g) /\ FDmxFlterInfo[g].SlotId \in Slots \cup {None}
      /\ \A g \in held \ {f} : SlotInUse(g)
      /\ FDmxFlterInfo[f].SlotId # None
  <2>1. \A g \in held : PidKnown(g)
    BY <1>3 DEF KernelReady, KernelKnows, PidKnown, Doing
  <2>2. FDmxFlterInfo[f].SlotId # None
    BY <1>2, <1>3 DEF KernelReady, KernelStands, Setting
  <2> QED BY <1>2, <1>6, <2>1, <2>2, ReadyFacts DEF SlotsQuiet
<1>9. /\ \A g \in held' : PidKnown(g)'
      /\ \A g \in held' \ {f} : SlotInUse(g)'
      /\ Slot' # None
  <2>1. \A g \in held : PidKnown(g)'
    BY <1>3, <1>6, <1>8 DEF PidKnown, PidAt, SlotsQuiet, SlotKept
  <2>2. \A g \in held \ {f} : SlotInUse(g)'
    BY <1>3, <1>8 DEF SlotInUse
  <2> QED BY <1>3, <1>5, <1>8, <2>1, <2>2 DEF Slot, Info
<1>10. Moves
  <2>1. ClientsIInv /\ SlotsDivided /\ KernelStands
    BY DEF KernelReady
  <2> QED BY <1>3, <1>5, <1>6, <1>7, <2>1, SameUseQuiet, KernelQuiet DEF Doing
<1> QED BY <1>3, <1>5, <1>9, <1>10, EndsSetting DEF KernelPart

(* Set finds a row with the PID: the kernel's own, or none.                 *)
LEMMA EndsAllocate ==
    ASSUME ddi'.at = "allocate", \A g \in held' : SlotInUse(g)' /\ PidKnown(g)',
           \A s \in Slots : PidAt(s)' # Info'.FilterPID
    PROVE  KernelStands' /\ KernelKnows'
BY DEF KernelStands, KernelKnows, Setting, Doing, SlotInUse, PidKnown, PidAt

LEMMA SetFindLedger ==
    ASSUME KernelReady, UNCHANGED clientVars,
           NEW f \in Filters, NEW v \in CaPid, set_find(f, v)
    PROVE  KernelPart
<1>1. PICK s \in SlotArg :
         /\ CH6_FindSlotByPID(v, s)
         /\ FDmxFlterInfo' =
               [FDmxFlterInfo EXCEPT ![f].FilterPID = v,
                                     ![f].SlotId = IF s = None THEN @ ELSE s]
         /\ Begin(IF s = None THEN "allocate" ELSE "set", f, 0)
  BY DEF set_find
<1>2. /\ CaClient /\ held' = held /\ ddi.at = "idle" /\ f \in held
      /\ ~ FDmxFlterInfo[f].defined /\ UNCHANGED demuxVars
      /\ ClientsIInv /\ SlotsDivided /\ KernelStands
      /\ channelOf' = channelOf
  BY DEF CaClient, set_find, Named, Doing, Settable, Dropped, ClientsIInv,
         KernelReady, clientVars
<1>3. /\ FDmxFlterInfo[f] \in InfoRow /\ FDmxFlterInfo[f].SlotId = None
      /\ \A g \in held : SlotInUse(g) /\ PidKnown(g)
      /\ channelOf[f] = NoFilter /\ None \notin Slots /\ NoFilter \notin Slots
      /\ held \subseteq Filters
  BY <1>2, ReadyFacts DEF Setting, SlotInUse
<1> DEFINE slot == IF s = None THEN None ELSE s
           row  == [FDmxFlterInfo[f] EXCEPT !.FilterPID = v, !.SlotId = slot]
<1>4. /\ row.SlotId = s /\ row.FilterPID = v /\ ~ row.defined /\ row \in InfoRow
  BY <1>2, <1>3 DEF InfoRow
<1>5. /\ FDmxFlterInfo'[f] = row
      /\ \A g \in Filters \ {f} : FDmxFlterInfo'[g] = FDmxFlterInfo[g]
  <2>1. FDmxFlterInfo' = [FDmxFlterInfo EXCEPT ![f] = row]
    BY <1>1, <1>3, ReadyFacts DEF InfoRow
  <2> HIDE DEF row
  <2> QED BY <1>4, <2>1, InfoSet, ReadyFacts
<1> HIDE DEF row
<1>6. SlotsQuiet /\ FreshKept
  BY <1>2, SameSlots, UnchangedRows, RowsFresh DEF demuxVars
<1>7. \A g \in Filters : SlotOf(g)' = SlotOf(g)
  BY <1>2, <1>3, <1>4, <1>5 DEF SlotOf
<1>8. \A t \in Slots : PidAt(t)' = PidAt(t)
  BY <1>6 DEF SlotsQuiet, SlotKept
<1>9. ddi'.at = (IF s = None THEN "allocate" ELSE "set") /\ ddi'.fl = f
  BY <1>1 DEF Begin
<1>10. CASE s = None
  <2>1. CaSlots' = CaSlots
    BY <1>2, <1>3, <1>4, <1>5, <1>9, <1>10 DEF CaSlots, Doing
  <2>2. Moves
    BY <1>2, <1>6, <1>7, <2>1, KernelQuiet DEF Doing
  <2>3. \A g \in held' : SlotInUse(g)' /\ PidKnown(g)'
    <3>1. \A g \in held \ {f} : SlotInUse(g)' /\ PidKnown(g)'
      <4> SUFFICES ASSUME NEW g \in held \ {f} PROVE SlotInUse(g)' /\ PidKnown(g)'
        OBVIOUS
      <4>1. FDmxFlterInfo[g].SlotId \in Slots \cup {None}
        BY ReadyFacts
      <4> QED BY <1>3, <1>5, <1>8, <4>1 DEF SlotInUse, PidKnown
    <3>2. SlotInUse(f)' /\ PidKnown(f)'
      BY <1>4, <1>5, <1>10 DEF SlotInUse, PidKnown
    <3> QED BY <1>2, <3>1, <3>2
  <2>4. \A t \in Slots : PidAt(t)' # Info'.FilterPID
    <3>1. \A t \in Slots : PidAt(t) # v
      BY <1>1, <1>10, ReadyFacts DEF CH6_FindSlotByPID, IsFirst, SlotsWithPid, PidAt
    <3> QED BY <1>4, <1>5, <1>8, <1>9, <3>1 DEF Info
  <2> QED BY <1>9, <1>10, <2>2, <2>3, <2>4, EndsAllocate DEF KernelPart
<1>11. CASE s # None
  <2>1. s \in Slots /\ PidAt(s) = v
    BY <1>1, <1>11 DEF CH6_FindSlotByPID, IsFirst, SlotsWithPid, PidAt
  <2>2. s \in CaSlots
    <3>1. v # NoPid /\ v \notin BrowserPid
      BY PidsApart DEF KernelReady
    <3>2. ~ SlotFree(s) /\ s \notin BrowserSlots
      BY <2>1, <3>1 DEF KernelReady, PidsDivided
    <3> QED BY <1>2, <2>1, <3>2 DEF SlotsDivided
  <2>3. CaSlots' = CaSlots
    <3>1. CaSlots = {FDmxFlterInfo[g].SlotId : g \in held} \ {None}
      BY <1>2 DEF CaSlots, Doing
    <3>2. CaSlots' = {FDmxFlterInfo'[g].SlotId : g \in held} \ {None}
      BY <1>2, <1>9 DEF CaSlots, Doing
    <3> QED BY <1>2, <1>3, <1>4, <1>5, <2>2, <3>1, <3>2
  <2>4. Moves
    BY <1>2, <1>6, <1>7, <2>3, KernelQuiet DEF Doing
  <2>5. \A g \in held \ {f} : SlotInUse(g)' /\ PidKnown(g)'
    <3> SUFFICES ASSUME NEW g \in held \ {f} PROVE SlotInUse(g)' /\ PidKnown(g)'
      OBVIOUS
    <3>1. FDmxFlterInfo[g].SlotId \in Slots \cup {None}
      BY ReadyFacts
    <3> QED BY <1>3, <1>5, <1>8, <3>1 DEF SlotInUse, PidKnown
  <2>6. PidKnown(f)'
    BY <1>4, <1>5, <1>8, <2>1 DEF PidKnown
  <2>7. Slot' = s
    BY <1>4, <1>5, <1>9 DEF Slot, Info
  <2>8. ddi'.at = "set"
    BY <1>9, <1>11
  <2> QED BY <1>2, <1>9, <1>11, <2>4, <2>5, <2>6, <2>7, <2>8, EndsSetting DEF KernelPart
<1> QED BY <1>10, <1>11

LEMMA EndsSetPid ==
    ASSUME ddi'.at = "set pid", ddi'.fl \in held', Slot' # None,
           \A g \in held' \ {ddi'.fl} : SlotInUse(g)' /\ PidKnown(g)',
           PidAt(Slot)' = NoPid,
           \A s \in Slots : PidAt(s)' # Info'.FilterPID
    PROVE  KernelStands' /\ KernelKnows'
BY DEF KernelStands, KernelKnows, Setting, Doing, SlotInUse, PidKnown, PidAt, Slot, Info

LEMMA SetAllocateLedger ==
    ASSUME KernelReady, UNCHANGED clientVars, set_allocate
    PROVE  KernelPart
<1>1. PICK s \in SlotArg :
         /\ CH6_Allocate_Section_Slot(s)
         /\ IF s = None
            THEN Done /\ UNCHANGED FDmxFlterInfo
            ELSE SetInfo([Info EXCEPT !.SlotId = s]) /\ Proceed("set pid")
  BY DEF set_allocate
<1>2. PICK f : f = ddi.fl
  OBVIOUS
<1>3. /\ CaClient /\ held' = held /\ ddi.at = "allocate"
      /\ f \in held /\ f \in Filters /\ DemuxTypeOK
      /\ ClientsIInv /\ SlotsDivided /\ KernelStands /\ Apart
      /\ channelOf' = channelOf
  BY <1>2, ReadyFacts DEF CaClient, set_allocate, Doing, KernelReady, clientVars
<1>4. /\ FDmxFlterInfo[f] \in InfoRow
      /\ ~ FDmxFlterInfo[f].defined /\ FDmxFlterInfo[f].SlotId = None
      /\ FDmxFlterInfo[f].FilterPID \in CaPid
      /\ \A t \in Slots : PidAt(t) # FDmxFlterInfo[f].FilterPID
      /\ \A g \in held : SlotInUse(g) /\ PidKnown(g)
  <2>1. \A g \in held : SlotInUse(g) /\ PidKnown(g)
    BY <1>3, ReadyFacts DEF Setting
  <2>2. ~ FDmxFlterInfo[f].defined /\ FDmxFlterInfo[f].FilterPID \in CaPid
    BY <1>2, <1>3 DEF ClientsIInv, DdiPlaced, Info
  <2>3. \A t \in Slots : PidAt(t) # FDmxFlterInfo[f].FilterPID
    BY <1>2, <1>3 DEF KernelReady, KernelKnows, Info
  <2> QED BY <1>3, <2>1, <2>2, <2>3, ReadyFacts DEF SlotInUse
<1>5. FreshKept
  BY <1>1, SlotOpsKeepRows, RowsFresh
<1>6. CASE s = None
  <2>1. SlotsQuiet /\ FDmxFlterInfo' = FDmxFlterInfo /\ ddi'.at = "idle"
    BY <1>1, <1>6, QuietOps, DoneTyped
  <2>2. Moves /\ \A g \in held' : SlotInUse(g)' /\ PidKnown(g)'
    BY <1>3, <1>5, <2>1, QuietLedger, SameInfoUse DEF Setting, Doing
  <2> QED BY <2>1, <2>2, EndsIdle DEF KernelPart
<1>7. CASE s # None
  <2> DEFINE row == [FDmxFlterInfo[f] EXCEPT !.SlotId = s]
  <2>1. /\ row.SlotId = s /\ row.FilterPID = FDmxFlterInfo[f].FilterPID
        /\ ~ row.defined /\ row \in InfoRow
    BY <1>4 DEF InfoRow
  <2>2. FDmxFlterInfo' = [FDmxFlterInfo EXCEPT ![f] = row]
    BY <1>1, <1>2, <1>7 DEF SetInfo, Info
  <2> HIDE DEF row
  <2>3. /\ FDmxFlterInfo'[f] = row
        /\ \A g \in Filters \ {f} : FDmxFlterInfo'[g] = FDmxFlterInfo[g]
    BY <1>3, <2>1, <2>2, InfoSet, ReadyFacts
  <2>4. ddi'.at = "set pid" /\ ddi'.fl = f
    BY <1>1, <1>2, <1>7, ReadyFacts, ProceedTyped
  <2>5. /\ s \in Slots /\ SlotFree(s) /\ OthersQuiet(s) /\ PidAt(s)' = NoPid
        /\ CH6_Allocate_Section_Slot(s)
    BY <1>1, <1>3, <1>7, NewSlotRow DEF SlotArg
  <2>6. \A g \in Filters : SlotOf(g)' = SlotOf(g)
    BY <1>3, <1>4, <2>1, <2>3 DEF SlotOf
  <2>7. CaSlots' = CaSlots \cup {s}
    <3>1. CaSlots = {FDmxFlterInfo[g].SlotId : g \in held} \ {None}
      BY <1>3 DEF CaSlots, Doing
    <3>2. CaSlots' = {FDmxFlterInfo'[g].SlotId : g \in held} \ {None}
      BY <1>3, <2>4 DEF CaSlots, Doing
    <3>3. held \subseteq Filters
      BY ReadyFacts
    <3> QED BY <1>3, <1>4, <1>7, <2>1, <2>3, <3>1, <3>2, <3>3
  <2>8. Moves
    <3>1. BrowserSlots' = BrowserSlots
      BY DEF BrowserSlots, At, clientVars
    <3> QED BY <2>5, <2>6, <2>7, <3>1 DEF Moves, Creates, Stays
  <2>9. \A g \in held' \ {f} : SlotInUse(g)' /\ PidKnown(g)'
    <3> SUFFICES ASSUME NEW g \in held \ {f} PROVE SlotInUse(g)' /\ PidKnown(g)'
      BY <1>3
    <3>1. /\ SlotInUse(g) /\ PidKnown(g) /\ g \in Filters
          /\ FDmxFlterInfo[g].SlotId \in Slots \cup {None}
          /\ FDmxFlterInfo[g].SlotId # s
      BY <1>4, <1>7, <2>5, ReadyFacts
    <3> QED BY <2>3, <2>5, <3>1 DEF SlotInUse, PidKnown, OthersQuiet, SlotKept
  <2>10. Slot' = s /\ PidAt(Slot)' = NoPid
    BY <2>1, <2>3, <2>4, <2>5 DEF Slot, Info, PidAt
  <2>11. \A t \in Slots : PidAt(t)' # Info'.FilterPID
    BY <1>3, <1>4, <2>1, <2>3, <2>4, <2>5, PidsApart DEF Info, OthersQuiet, SlotKept
  <2> QED BY <1>3, <1>7, <2>4, <2>8, <2>9, <2>10, <2>11, EndsSetPid DEF KernelPart
<1> QED BY <1>6, <1>7

LEMMA SetPidLedger ==
    ASSUME KernelReady, UNCHANGED clientVars, set_pid
    PROVE  KernelPart
<1>1. PICK f, s, v : f = ddi.fl /\ s = Slot /\ v = Info.FilterPID
  OBVIOUS
<1>2. /\ CaClient /\ held' = held /\ FDmxFlterInfo' = FDmxFlterInfo
      /\ ddi.at = "set pid" /\ DemuxTypeOK /\ f \in held /\ f \in Filters
      /\ CH6_Set_Slot_Pid(s, v, FALSE) /\ channelOf' = channelOf
  BY <1>1, ReadyFacts DEF CaClient, set_pid, Doing, clientVars
<1>3. ddi'.at = "set" /\ ddi'.fl = f
  BY <1>1, ReadyFacts, ProceedTyped DEF set_pid
<1>4. /\ s \in CaSlots /\ s \in Slots /\ s # None
      /\ FDmxFlterInfo[f].SlotId = s /\ FDmxFlterInfo[f].FilterPID = v
      /\ PidAt(s) = NoPid /\ v \in CaPid
      /\ \A t \in Slots : PidAt(t) # v
  <2>1. FDmxFlterInfo[f].SlotId = s /\ FDmxFlterInfo[f].FilterPID = v
    BY <1>1 DEF Slot, Info
  <2>2. s # None
    BY <1>1, <1>2, <2>1 DEF KernelReady, KernelStands, Setting
  <2>3. v \in CaPid
    BY <1>1, <1>2 DEF KernelReady, ClientsIInv, DdiPlaced
  <2>4. PidAt(s) = NoPid /\ \A t \in Slots : PidAt(t) # v
    BY <1>1, <1>2 DEF KernelReady, KernelKnows, Doing
  <2> QED BY <1>2, <2>1, <2>2, <2>3, <2>4, ReadyFacts
<1>5. PidAt(s)' = v /\ OthersQuiet(s)
  BY <1>2, <1>4, PidRow
<1>6. Moves
  <2>1. OwnersKept
    BY <1>2, <1>3 DEF OwnersKept, BrowserSlots, CaSlots, At, Doing, clientVars
  <2>2. Stays
    BY <1>2 DEF Stays, SlotOf
  <2> QED BY <1>2, <1>4, <2>1, <2>2 DEF Moves, Marks
<1>7. \A g \in held' \ {f} : SlotInUse(g)' /\ PidKnown(g)'
  <2> SUFFICES ASSUME NEW g \in held \ {f} PROVE SlotInUse(g)' /\ PidKnown(g)'
    BY <1>2
  <2>1. /\ SlotInUse(g) /\ PidKnown(g)
        /\ FDmxFlterInfo[g].SlotId \in Slots \cup {None}
    BY <1>1, ReadyFacts
  <2>2. FDmxFlterInfo[g].SlotId # s
    BY <1>4, <2>1, PidsApart DEF PidKnown, KernelReady
  <2> QED BY <1>2, <1>5, <2>1, <2>2 DEF SlotInUse, PidKnown, OthersQuiet, SlotKept
<1>8. PidKnown(f)' /\ Slot' = s
  <2>1. PidKnown(f)'
    BY <1>2, <1>4, <1>5 DEF PidKnown
  <2>2. Slot' = s
    BY <1>2, <1>3, <1>4 DEF Slot, Info
  <2> QED BY <2>1, <2>2
<1> QED BY <1>2, <1>3, <1>4, <1>6, <1>7, <1>8, EndsSetting DEF KernelPart

LEMMA SetAssociateLedger ==
    ASSUME KernelReady, UNCHANGED clientVars, set_associate
    PROVE  KernelPart
<1>1. PICK err \in BOOLEAN :
         /\ err => AssociationFails \/ ~ BothUsable(Slot, ddi.fl)
         /\ CH6_Associate_Slot_Filter(Slot, ddi.fl, err)
         /\ SetInfo([Info EXCEPT !.InUsed = ~ err, !.defined = @ \/ ~ err])
  BY DEF set_associate
<1>2. PICK f, s : f = ddi.fl /\ s = Slot
  OBVIOUS
<1>3. /\ CaClient /\ held' = held /\ ddi.at = "associate" /\ ddi'.at = "idle"
      /\ f \in held /\ f \in Filters /\ DemuxTypeOK /\ channelOf' = channelOf
  BY <1>2, ReadyFacts, DoneTyped DEF CaClient, set_associate, Doing, clientVars
<1>4. /\ FDmxFlterInfo[f] \in InfoRow /\ FDmxFlterInfo[f].SlotId = s
      /\ ~ FDmxFlterInfo[f].defined /\ channelOf[f] = NoFilter
      /\ s # None /\ s \in CaSlots /\ s \in Slots /\ ~ SlotFree(s)
      /\ NoFilter \notin Slots
  <2>1. FDmxFlterInfo[f].SlotId = s
    BY <1>2 DEF Slot, Info
  <2>2. s # None
    BY <1>2, <1>3, <2>1 DEF KernelReady, KernelStands, Setting
  <2>3. ~ FDmxFlterInfo[f].defined
    BY <1>2, <1>3 DEF KernelReady, ClientsIInv, DdiPlaced, Info
  <2> QED BY <1>3, <2>1, <2>2, <2>3, ReadyFacts
<1>5. BothUsable(s, f)
  <2>1. ~ FilterFree(f)
    BY <1>3, ReadyFacts
  <2> QED BY <1>3, <1>4, <2>1
          DEF KernelReady, DemuxInv, StatusMatchesHandle, BothUsable, FilterUsable,
              FilterTaken, SlotTaken
<1>6. ~ err /\ CH6_Associate_Slot_Filter(s, f, FALSE)
  BY <1>1, <1>2, <1>5, ReadyFacts
<1> DEFINE row == [FDmxFlterInfo[f] EXCEPT !.InUsed = TRUE, !.defined = TRUE]
<1>7. /\ row.SlotId = s /\ row.FilterPID = FDmxFlterInfo[f].FilterPID
      /\ row.defined /\ row \in InfoRow
  BY <1>4 DEF InfoRow
<1>8. /\ FDmxFlterInfo'[f] = row
      /\ \A g \in Filters \ {f} : FDmxFlterInfo'[g] = FDmxFlterInfo[g]
  <2>1. FDmxFlterInfo' = [FDmxFlterInfo EXCEPT ![f] = row]
    BY <1>1, <1>2, <1>6 DEF SetInfo, Info
  <2> HIDE DEF row
  <2> QED BY <1>3, <1>7, <2>1, InfoSet, ReadyFacts
<1> HIDE DEF row
<1>9. \A t \in Slots : SlotKept(t)
  BY <1>3, <1>6, JoinedRow DEF RecountedAt
<1>10. Moves
  <2>1. SlotOf(f) = None /\ SlotOf(f)' = s
    BY <1>3, <1>4, <1>7, <1>8 DEF SlotOf
  <2>2. Only(f)
    BY <1>3, <1>8 DEF Only, SlotOf
  <2>3. CaSlots' = CaSlots
    <3>1. CaSlots = {FDmxFlterInfo[g].SlotId : g \in held} \ {None}
      BY <1>3 DEF CaSlots, Doing
    <3>2. CaSlots' = {FDmxFlterInfo'[g].SlotId : g \in held} \ {None}
      BY <1>3 DEF CaSlots, Doing
    <3>3. \A g \in held : FDmxFlterInfo'[g].SlotId = FDmxFlterInfo[g].SlotId
      BY <1>4, <1>7, <1>8, ReadyFacts
    <3> QED BY <3>1, <3>2, <3>3
  <2>4. BrowserSlots' = BrowserSlots
    BY DEF BrowserSlots, At, clientVars
  <2> QED BY <1>6, <2>1, <2>2, <2>3, <2>4 DEF Moves, Joins, OwnersKept
<1>11. ASSUME NEW g \in held'
       PROVE  SlotInUse(g)' /\ PidKnown(g)'
  <2>1. PidKnown(g) /\ FDmxFlterInfo[g].SlotId \in Slots \cup {None} /\ g \in Filters
    BY <1>3, ReadyFacts DEF KernelReady, KernelKnows, PidKnown, Doing
  <2>2. CASE g = f
    BY <1>4, <1>7, <1>8, <1>9, <2>1, <2>2 DEF SlotInUse, PidKnown, SlotKept
  <2>3. CASE g # f
    <3>1. SlotInUse(g)
      BY <1>2, <1>3, <2>3, ReadyFacts
    <3> QED BY <1>8, <1>9, <2>1, <2>3, <3>1 DEF SlotInUse, PidKnown, SlotKept
  <2> QED BY <2>2, <2>3
<1> QED BY <1>3, <1>10, <1>11, EndsIdle DEF KernelPart

(* Whoever else is on a slot of the kernel's is a filter of the kernel's.   *)
LEMMA OnCaSlot ==
    ASSUME KernelReady, NEW s \in CaSlots, NEW g \in Filters, SlotOf(g) = s
    PROVE  g \in held /\ FDmxFlterInfo[g].defined /\ FDmxFlterInfo[g].SlotId = s
<1>1. s \notin channels /\ s # None /\ s \in Slots /\ NoFilter \notin Slots
  BY ReadyFacts
<1>2. channelOf[g] \in channels \cup {NoFilter}
  BY DEF KernelReady, BrowserStands
<1> QED BY <1>1, <1>2 DEF SlotOf

LEMMA EndsFreeSlot ==
    ASSUME ddi'.at = "free slot", \A g \in held' : SlotInUse(g)' /\ PidKnown(g)',
           ddi'.fl \notin held', Slot' # None,
           \A g \in held' : FDmxFlterInfo'[g].SlotId # Slot'
    PROVE  KernelStands' /\ KernelKnows'
BY DEF KernelStands, KernelKnows, Setting, Doing, SlotInUse, PidKnown, Slot, Info

LEMMA FreeFilterLedger ==
    ASSUME KernelReady, UNCHANGED clientVars, free_filter
    PROVE  KernelPart
<1>1. PICK err \in BOOLEAN :
         /\ CH6_Free_Section_Filter(ddi.fl, err)
         /\ IF err
            THEN Done /\ UNCHANGED <<FDmxFlterInfo, held>>
            ELSE /\ SetInfo([Info EXCEPT !.InUsed = FALSE,
                                         !.defined = FALSE,
                                         !.bdmxactived = FALSE])
                 /\ held' = held \ {ddi.fl}
                 /\ IF SharedSlot(ddi.count) THEN Done ELSE Proceed("free slot")
  BY DEF free_filter
<1>2. PICK f, s : f = ddi.fl /\ s = Slot
  OBVIOUS
<1>3. /\ ddi.at = "free" /\ f \in held /\ f \in Filters /\ ~ FilterFree(f)
      /\ channelOf' = channelOf /\ channelOf[f] = NoFilter
      /\ held \subseteq Filters /\ ~ Setting
      /\ FDmxFlterInfo[f] \in InfoRow /\ FDmxFlterInfo[f].SlotId = s
      /\ FDmxFlterInfo[f].defined
  BY <1>2, ReadyFacts
     DEF free_filter, Doing, clientVars, KernelReady, KernelStands, Info, Slot, Setting
<1>4. s # None /\ s \in Slots /\ s \in CaSlots /\ ~ SlotFree(s)
      /\ NoFilter \notin Slots /\ None \notin Slots
  BY <1>3, ReadyFacts DEF SlotInUse
<1>5. SlotOf(f) = s
  BY <1>3 DEF SlotOf
<1>6. ~ err /\ CH6_Free_Section_Filter(f, FALSE)
  BY <1>1, <1>2, <1>3 DEF CH6_Free_Section_Filter, FilterTaken
<1>7. /\ held' = held \ {f}
      /\ \A g \in Filters \ {f} : FDmxFlterInfo'[g] = FDmxFlterInfo[g]
      /\ FDmxFlterInfo'[f].SlotId = s
  <2> DEFINE row == [FDmxFlterInfo[f] EXCEPT !.InUsed = FALSE, !.defined = FALSE,
                                             !.bdmxactived = FALSE]
  <2>1. row \in InfoRow /\ row.SlotId = s
    BY <1>3 DEF InfoRow
  <2>2. FDmxFlterInfo' = [FDmxFlterInfo EXCEPT ![f] = row] /\ held' = held \ {f}
    BY <1>1, <1>2, <1>6 DEF SetInfo, Info
  <2> HIDE DEF row
  <2> QED BY <1>3, <2>1, <2>2, InfoSet, ReadyFacts
<1>8. \/ SharedSlot(ddi.count) /\ ddi'.at = "idle"
      \/ ~ SharedSlot(ddi.count) /\ ddi'.at = "free slot" /\ ddi'.fl = f
  <2>1. SharedSlot(ddi.count) => ddi'.at = "idle"
    BY <1>1, <1>6, DoneTyped
  <2>2. ~ SharedSlot(ddi.count) => ddi'.at = "free slot" /\ ddi'.fl = f
    BY <1>1, <1>2, <1>6, ReadyFacts, ProceedTyped
  <2> QED BY <2>1, <2>2
<1>9. \A t \in Slots : SlotKept(t)
  <2>1. Linked(pti, SectionFilter[f].FilterHandle, SectionSlot[s].SlotHandle)
    BY <1>3, <1>4, <1>5 DEF KernelReady, LinksMeant
  <2>2. /\ SectionFilter[f].SlotHandle = SectionSlot[s].SlotHandle
        /\ DemuxInv
    BY <1>3, <1>4, <2>1, LinkedIsAttached DEF KernelReady
  <2> QED BY <1>3, <1>4, <1>6, <2>2, LeftRow DEF RecountedAt
<1>10. \A g \in held' : SlotInUse(g)' /\ PidKnown(g)'
  <2> SUFFICES ASSUME NEW g \in held \ {f} PROVE SlotInUse(g)' /\ PidKnown(g)'
    BY <1>7
  <2>1. /\ SlotInUse(g) /\ PidKnown(g) /\ g \in Filters
        /\ FDmxFlterInfo[g].SlotId \in Slots \cup {None}
    BY <1>3, ReadyFacts
  <2> QED BY <1>7, <1>9, <2>1 DEF SlotInUse, PidKnown, SlotKept
<1>11. ASSUME CaSlots' = CaSlots
       PROVE  Moves
  <2>1. SlotOf(f)' = None
    BY <1>3, <1>4, <1>7 DEF SlotOf
  <2>2. Only(f)
    BY <1>3, <1>7 DEF Only, SlotOf
  <2>3. BrowserSlots' = BrowserSlots
    BY DEF BrowserSlots, At, clientVars
  <2> QED BY <1>3, <1>4, <1>5, <1>6, <1>11, <2>1, <2>2, <2>3
          DEF Moves, Leaves, OwnersKept
<1>12. CaSlots = {FDmxFlterInfo[g].SlotId : g \in held} \ {None}
  BY <1>3 DEF CaSlots, Doing
<1>13. CASE ~ SharedSlot(ddi.count) /\ ddi'.at = "free slot" /\ ddi'.fl = f
  <2>1. CaSlots' = {FDmxFlterInfo'[g].SlotId : g \in held} \ {None}
    <3>1. held' \cup {f} = held
      BY <1>3, <1>7
    <3> QED BY <1>13, <3>1 DEF CaSlots, Doing
  <2>2. \A g \in held : FDmxFlterInfo'[g].SlotId = FDmxFlterInfo[g].SlotId
    BY <1>3, <1>7
  <2>3. Moves
    BY <1>11, <1>12, <2>1, <2>2
  <2>4. \A g \in held \ {f} : FDmxFlterInfo[g].SlotId # s
    BY <1>2, <1>3, <1>13, LastOne
  <2>5. Slot' = s
    BY <1>7, <1>13 DEF Slot, Info
  <2>6. \A g \in held' : FDmxFlterInfo'[g].SlotId # Slot'
    BY <1>3, <1>7, <2>4, <2>5
  <2> QED BY <1>4, <1>7, <1>10, <1>13, <2>3, <2>5, <2>6, EndsFreeSlot DEF KernelPart
<1>14. CASE SharedSlot(ddi.count) /\ ddi'.at = "idle"
  <2>1. PICK g \in held \ {f} : FDmxFlterInfo[g].SlotId = s
    <3>1. PICK g \in Filters \ {f} : SlotOf(g) = s
      <4> SUFFICES ASSUME \A g \in Filters \ {f} : SlotOf(g) # s PROVE FALSE
        OBVIOUS
      <4>1. On(s) = {f}
        BY <1>3, <1>5 DEF On
      <4>2. Cardinality(On(s)) = 1
        BY <4>1, FS_Singleton
      <4>3. ddi.count = Cardinality(On(s))
        BY <1>2, <1>3, <1>4 DEF KernelReady, KernelKnows, CountsMeant
      <4> QED BY <1>14, <4>2, <4>3 DEF SharedSlot
    <3> QED BY <1>4, <3>1, OnCaSlot
  <2>2. CaSlots' = {FDmxFlterInfo'[h].SlotId : h \in held \ {f}} \ {None}
    BY <1>7, <1>14 DEF CaSlots, Doing
  <2>3. \A h \in held : FDmxFlterInfo'[h].SlotId = FDmxFlterInfo[h].SlotId
    BY <1>3, <1>7
  <2>4. CaSlots' = CaSlots
    BY <1>3, <1>12, <2>1, <2>2, <2>3
  <2> QED BY <1>10, <1>11, <1>14, <2>4, EndsIdle DEF KernelPart
<1> QED BY <1>8, <1>13, <1>14

LEMMA FreeSlotLedger ==
    ASSUME KernelReady, UNCHANGED clientVars, free_slot
    PROVE  KernelPart
<1>1. PICK err \in BOOLEAN :
         /\ CH6_Free_Section_Slot(Slot, err)
         /\ SetInfo(IF err THEN Info
                    ELSE [Info EXCEPT !.SlotId = None, !.FilterPID = NoPid])
  BY DEF free_slot
<1>2. PICK f, s : f = ddi.fl /\ s = Slot
  OBVIOUS
<1>3. /\ ddi.at = "free slot" /\ ddi'.at = "idle" /\ held' = held
      /\ f \in Filters \ held /\ channelOf' = channelOf /\ ~ Setting
      /\ held \subseteq Filters /\ DemuxTypeOK
      /\ \A g \in held : FDmxFlterInfo[g].SlotId # s
      /\ s # None
  <2>1. /\ ddi.at = "free slot" /\ ddi'.at = "idle" /\ held' = held
        /\ channelOf' = channelOf /\ ~ Setting
    BY DoneTyped DEF free_slot, Doing, clientVars, Setting
  <2>2. f \in Filters
    BY <1>2, <2>1 DEF KernelReady, ClientsIInv, DdiPlaced, Doing
  <2>3. f \notin held /\ s # None
    BY <1>2, <2>1 DEF KernelReady, KernelStands, Doing
  <2>4. \A g \in held : FDmxFlterInfo[g].SlotId # s
    BY <1>2, <2>1, <2>3 DEF KernelReady, KernelStands
  <2> QED BY <2>1, <2>2, <2>3, <2>4, ReadyFacts
<1>4. CaSlots = {FDmxFlterInfo[g].SlotId : g \in held \cup {f}} \ {None}
  BY <1>2, <1>3 DEF CaSlots, Doing
<1>5. s \in CaSlots /\ s \in Slots /\ ~ SlotFree(s)
  <2>1. s \in CaSlots
    BY <1>2, <1>3, <1>4 DEF Slot, Info
  <2> QED BY <2>1, ReadyFacts
<1>6. ~ err /\ CH6_Free_Section_Slot(s, FALSE) /\ OthersQuiet(s)
  BY <1>1, <1>2, <1>3, <1>5, GoneRow
<1>7. \A g \in held : FDmxFlterInfo'[g] = FDmxFlterInfo[g]
  BY <1>1, <1>2, <1>3, ReadyFacts DEF SetInfo
<1>8. CaSlots' = CaSlots \ {s}
  <2>1. CaSlots' = {FDmxFlterInfo'[g].SlotId : g \in held} \ {None}
    BY <1>3 DEF CaSlots, Doing
  <2>2. FDmxFlterInfo[f].SlotId = s
    BY <1>2 DEF Slot, Info
  <2> QED BY <1>3, <1>4, <1>7, <2>1, <2>2
<1>9. Moves
  <2>1. On(s) = {}
    BY <1>3, <1>5, OnCaSlot DEF On
  <2>2. Stays
    BY <1>3, <1>7 DEF Stays, SlotOf
  <2>3. BrowserSlots' = BrowserSlots
    BY DEF BrowserSlots, At, clientVars
  <2>4. s \notin BrowserSlots
    BY <1>5 DEF KernelReady, SlotsDivided
  <2>5. Destroys(s)
    BY <1>5, <1>6, <1>8, <2>1, <2>2, <2>3, <2>4 DEF Destroys
  <2> QED BY <2>5 DEF Moves
<1>10. ASSUME NEW g \in held'
       PROVE  SlotInUse(g)' /\ PidKnown(g)'
  <2>1. /\ SlotInUse(g) /\ PidKnown(g) /\ g \in held
        /\ FDmxFlterInfo[g].SlotId \in Slots \cup {None}
        /\ FDmxFlterInfo[g].SlotId # s
    BY <1>3, ReadyFacts
  <2> QED BY <1>6, <1>7, <2>1 DEF SlotInUse, PidKnown, OthersQuiet, SlotKept
<1> QED BY <1>3, <1>9, <1>10, EndsIdle DEF KernelPart

LEMMA BaseLedger ==
    ASSUME KernelReady, UNCHANGED clientVars, BaseWorks
    PROVE  KernelPart
<1>1. /\ CaClient /\ DemuxTypeOK
      /\ FDmxFlterInfo \in [Filters -> InfoRow] /\ held \subseteq Filters
  BY ReadyFacts DEF CaClient, BaseWorks
<1>2. /\ ddi' = ddi /\ ddi.at = "idle" /\ held' = held
      /\ \A f \in Filters :
            /\ FDmxFlterInfo'[f].SlotId = FDmxFlterInfo[f].SlotId
            /\ FDmxFlterInfo'[f].FilterPID = FDmxFlterInfo[f].FilterPID
            /\ FDmxFlterInfo'[f].defined = FDmxFlterInfo[f].defined
      /\ \/ UNCHANGED demuxVars
         \/ \E f \in held, err \in BOOLEAN : CH6_Set_Filter(f, err)
  BY <1>1, BaseFacts
<1>3. SlotsQuiet /\ FreshKept
  BY <1>1, <1>2, QuietOps, UnchangedRows, ArmingKeepsRows, RowsFresh DEF demuxVars
<1>4. SameUse
  BY <1>1, <1>2 DEF SameUse
<1>5. Moves /\ \A g \in held' : SlotInUse(g)' /\ PidKnown(g)'
  BY <1>1, <1>2, <1>3, <1>4, QuietLedger DEF Setting, Doing
<1> QED BY <1>2, <1>5, EndsIdle DEF KernelPart

LEMMA KernelLedger ==
    ASSUME KernelReady, UNCHANGED clientVars, CaClient
    PROVE  KernelPart
BY AllocLedger, SetFindLedger, SetAllocateLedger, SetPidLedger, SetFilterLedger,
   SetAssociateLedger, StartSlotLedger, StartFilterLedger, CountLedger,
   StopFilterLedger, StopSlotLedger, FreeFilterLedger, FreeSlotLedger, BaseLedger
   DEF CaClient, BaseWorks

-----------------------------------------------------------------------------
LEMMA LedgerInit == ClientsInit => Ledger
<1> SUFFICES ASSUME ClientsInit PROVE Ledger
  OBVIOUS
<1>1. /\ SectionSlot = [s \in Slots |-> FreeSlotRow]
      /\ SectionFilter = [f \in Filters |-> FreeFilterRow]
      /\ call = Idle /\ channels = {} /\ channelOf = [f \in Filters |-> NoFilter]
      /\ held = {} /\ ddi = NoOperation
  BY DEF ClientsInit, EisInit, DemuxInit, MgInit
<1>2. call.at = "idle" /\ ddi.at = "idle"
  BY <1>1 DEF Idle, CallAt, NoOperation
<1>3. BrowserSlots = {} /\ CaSlots = {}
  BY <1>1, <1>2 DEF BrowserSlots, CaSlots, At, Doing
<1>4. \A s \in Slots : SlotFree(s) /\ PidAt(s) = NoPid
  BY <1>1 DEF SlotFree, PidAt, FreeSlotRow
<1>5. \A f \in Filters : SlotOf(f) = None /\ NotYetAssociated(f)
  BY <1>1 DEF SlotOf, NotYetAssociated, FreeFilterRow, NoFilter, Slots
<1>6. SlotsDivided /\ CountsMeant
  BY <1>3, <1>4 DEF SlotsDivided, CountsMeant
<1>7. LinksMeant
  BY <1>5 DEF LinksMeant
<1>8. PidsDivided
  BY <1>3, <1>4, MgDmxFilterAssumption, PtiAssumption DEF PidsDivided
<1>9. BrowserStands
  BY <1>1, <1>2 DEF BrowserStands, BrowserStarts, At
<1>10. KernelStands /\ KernelKnows
  BY <1>1, <1>2 DEF KernelStands, KernelKnows, Setting, Doing
<1> QED BY <1>6, <1>7, <1>8, <1>9, <1>10 DEF Ledger

LEMMA LedgerStep ==
    ASSUME Apart, ClientsIInv, DemuxInv, Ledger, [ClientsNext]_clientsVars
    PROVE  Ledger'
<1> USE DEF Ledger
<1>1. DemuxTypeOK
  BY DEF DemuxInv
<1>2. ASSUME Moves
      PROVE  SlotsDivided' /\ PidsDivided' /\ LinksMeant' /\ CountsMeant'
  BY <1>1, <1>2, MovesDivide, MovesLink, MovesCount
<1>3. CASE Browser /\ UNCHANGED mgVars
  <2>1. BrowserPart
    BY <1>3, BrowserLedger
  <2>2. KernelStands' /\ KernelKnows'
    BY <1>3, <2>1, BrowserKeepsKernel DEF BrowserPart
  <2> QED BY <1>2, <2>1, <2>2 DEF BrowserPart
<1>4. CASE CaClient /\ UNCHANGED clientVars
  <2>1. KernelPart
    BY <1>4, KernelLedger DEF KernelReady
  <2>2. BrowserStands'
    BY <1>4 DEF BrowserStands, BrowserStarts, At, clientVars
  <2> QED BY <1>2, <2>1, <2>2 DEF KernelPart
<1>5. CASE UNCHANGED clientsVars
  <2>1. /\ UNCHANGED <<SectionSlot, SectionFilter, pti>>
        /\ UNCHANGED <<call, channels, channelOf>>
        /\ UNCHANGED <<FDmxFlterInfo, ddi, held>>
    BY <1>5 DEF clientsVars, eisVars, demuxVars, clientVars, mgVars
  <2>2. \A s : SlotFree(s)' <=> SlotFree(s)
    BY <2>1 DEF SlotFree
  <2>3. BrowserSlots' = BrowserSlots /\ CaSlots' = CaSlots
    BY <2>1 DEF BrowserSlots, CaSlots, At, Doing
  <2>4. \A f : SlotOf(f)' = SlotOf(f)
    BY <2>1 DEF SlotOf
  <2>5. \A s : PidAt(s)' = PidAt(s) /\ On(s)' = On(s)
    BY <2>1, <2>4 DEF PidAt, On
  <2>6. SlotsDivided' /\ PidsDivided' /\ CountsMeant'
    BY <2>1, <2>2, <2>3, <2>5 DEF SlotsDivided, PidsDivided, CountsMeant
  <2>7. LinksMeant'
    BY <2>1, <2>4 DEF LinksMeant, NotYetAssociated
  <2>8. BrowserStands' /\ KernelStands'
    BY <2>1 DEF BrowserStands, BrowserStarts, KernelStands, Setting, At, Doing, Info, Slot
  <2>9. KernelKnows'
    BY <2>1, <2>5 DEF KernelKnows, Doing, Info, Slot, PidAt
  <2> QED BY <2>6, <2>7, <2>8, <2>9
<1> QED BY <1>3, <1>4, <1>5 DEF ClientsNext

LEMMA CountsAssociations ==
    ASSUME DemuxInv, ClientsIInv, LinksMeant, CountsMeant
    PROVE  CountIsAssociations
<1> SUFFICES ASSUME NEW s \in Slots, ~ SlotFree(s)
             PROVE  Count8(s) = Cardinality({l \in pti.links :
                                    l[2] = SectionSlot[s].SlotHandle})
  BY DEF CountIsAssociations, Count8
<1> DEFINE sh == SectionSlot[s].SlotHandle
           L  == {l \in pti.links : l[2] = sh}
           link(g) == <<SectionFilter[g].FilterHandle, sh>>
           F  == [g \in On(s) |-> link(g)]
<1>1. s # None /\ pti.links \subseteq FilterObject \X SlotObject
  BY DEF None, Slots, DemuxInv, DemuxTypeOK, PtiState
<1>2. \A g \in On(s) : g \in Filters /\ ~ FilterFree(g) /\ link(g) \in L
  <2> SUFFICES ASSUME NEW g \in On(s)
               PROVE  g \in Filters /\ ~ FilterFree(g) /\ link(g) \in L
    OBVIOUS
  <2>1. g \in Filters /\ SlotOf(g) = s
    BY DEF On
  <2>2. Linked(pti, SectionFilter[g].FilterHandle, sh)
    BY <1>1, <2>1 DEF LinksMeant
  <2>3. link(g) \in pti.links /\ link(g)[2] = sh
    BY <2>2 DEF Linked
  <2> QED BY <2>1, <2>2, <2>3, LinkedIsAttached DEF Attached
<1>3. \A g, h \in On(s) : link(g) = link(h) => g = h
  BY <1>2, NamedObjects
<1>4. ASSUME NEW l \in L
      PROVE  \E g \in On(s) : link(g) = l
  <2>1. PICK g \in Filters : /\ SectionFilter[g].FilterHandle = l[1]
                             /\ SectionFilter[g].SlotHandle = l[2]
    BY DEF DemuxInv, LinksRecorded
  <2>2. l = <<l[1], l[2]>> /\ l[2] = sh /\ sh \in SlotObject
    BY <1>1
  <2>3. SlotOf(g) # None
    <3>1. ~ NotYetAssociated(g)
      BY <2>1, <2>2, PtiAssumption DEF NotYetAssociated
    <3> QED BY <3>1 DEF LinksMeant
  <2>4. g \in On(s)
    <3>1. PICK t : t = SlotOf(g)
      OBVIOUS
    <3>2. Linked(pti, SectionFilter[g].FilterHandle, sh)
      BY <2>1, <2>2 DEF Linked
    <3>3. Linked(pti, SectionFilter[g].FilterHandle, SectionSlot[t].SlotHandle)
      BY <2>3, <3>1 DEF LinksMeant
    <3>4. SectionFilter[g].SlotHandle = SectionSlot[t].SlotHandle /\ t \in Slots
      BY <2>3, <3>1, <3>3, SlotOfRange, LinkedIsAttached
    <3>5. t = s
      BY <2>1, <2>2, <3>4, NamedObjects
    <3> QED BY <3>1, <3>5 DEF On
  <2> QED BY <2>1, <2>2, <2>4
<1>5. F \in Bijection(On(s), L)
  <2> HIDE DEF L, link
  <2>1. F \in [On(s) -> L] /\ \A g \in On(s) : F[g] = link(g)
    BY <1>2
  <2> HIDE DEF F
  <2>2. F \in Injection(On(s), L)
    BY <1>3, <2>1 DEF Injection, IsInjective
  <2>3. F \in Surjection(On(s), L)
    BY <1>4, <2>1 DEF Surjection
  <2> QED BY <2>2, <2>3 DEF Bijection
<1>6. ExistsBijection(On(s), L)
  BY <1>5 DEF ExistsBijection
<1>7. Cardinality(L) = Cardinality(On(s))
  BY <1>6, OnFinite, FS_Bijection
<1> QED BY <1>7 DEF CountsMeant, Count8

-----------------------------------------------------------------------------
(* A call that disarms nothing of filter f's and stops nothing of slot s's. *)
Harmless(f, s) ==
    \/ UNCHANGED demuxVars
    \/ \E t \in SlotArg : CH6_Allocate_Section_Slot(t)
    \/ \E g \in FilterArg : CH6_Allocate_Section_Filter(g)
    \/ \E t \in Slots, v \in Pid : CH6_Set_Slot_Pid(t, v, FALSE)
    \/ \E t, err : CH6_Start_Slot(t, err)
    \/ \E t, err : t # s /\ CH6_Stop_Slot(t, err)
    \/ \E t, err : t # s /\ CH6_Free_Section_Slot(t, err)
    \/ \E g, err : CH6_Set_Filter(g, err) \/ CH6_Start_Filter(g, err)
    \/ \E g, err : g # f /\ CH6_Stop_Filter(g, err)
    \/ \E g, err : g # f /\ CH6_Free_Section_Filter(g, err)
    \/ \E t, g, err : g # f /\ CH6_Associate_Slot_Filter(t, g, err)

LEMMA HarmlessSpares ==
    ASSUME NEW f, NEW s, Harmless(f, s)
    PROVE  Spares(f, s)
BY DEF Harmless, Spares

(* It leaves the filter armed, and the slot collecting its row's PID.       *)
LEMMA HarmlessArms ==
    ASSUME DemuxInv, NEW f \in Filters, NEW s, ~ FilterFree(f), Harmless(f, s),
           Armed(f)
    PROVE  Armed(f)'
<1> USE DEF DemuxInv
<1> DEFINE fh == SectionFilter[f].FilterHandle
<1>1. /\ SectionFilter'[f].FilterHandle = fh
      /\ fh \in pti.filters /\ fh \in pti.enabled /\ pti \in PtiState
  BY HarmlessSpares, FilterStays, NamedObjects DEF Armed, DemuxTypeOK
<1> SUFFICES fh \in pti'.enabled
  BY <1>1 DEF Armed
<1>2. CASE UNCHANGED demuxVars
  BY <1>1, <1>2 DEF demuxVars
<1>3. CASE AllocateSlotFails \/ AllocateFilterFails
  BY <1>1, <1>3, FailedAllocation
<1>4. ASSUME NEW t, NEW g, AllocateSlotAt(t) \/ AllocateFilterAt(g)
      PROVE  fh \in pti'.enabled
  BY <1>1, <1>4
     DEF AllocateSlotAt, AllocateFilterAt, PtiState, BufferAllocate,
         SlotAllocate, FilterAllocate
<1>5. ASSUME NEW t, NEW v, NEW err,
             \/ CH6_Set_Slot_Pid(t, v, err)
             \/ CH6_Start_Slot(t, err) \/ CH6_Stop_Slot(t, err)
      PROVE  fh \in pti'.enabled
  <2>1. \/ pti' = pti
        \/ \E h, u : pti' = SlotSetPid(pti, h, u) \/ pti' = SlotClearPid(pti, h)
    BY <1>5
       DEF CH6_Set_Slot_Pid, CH6_Start_Slot, CH6_Stop_Slot, Failed, demuxVars
  <2>2. \A h, u : /\ SlotSetPid(pti, h, u).enabled = pti.enabled
                  /\ SlotClearPid(pti, h).enabled = pti.enabled
    BY <1>1 DEF PtiState, SlotSetPid, SlotClearPid
  <2> QED BY <1>1, <2>1, <2>2
<1>6. ASSUME NEW t, NEW err, CH6_Free_Section_Slot(t, err)
      PROVE  fh \in pti'.enabled
  <2> DEFINE h == SectionSlot[t].SlotHandle
             b == SectionSlot[t].BufferHandle
  <2>1. CASE UNCHANGED demuxVars
    BY <1>1, <2>1 DEF demuxVars
  <2>2. CASE SlotTaken(t) /\ pti' = SlotDeallocate(BufferDeallocate(pti, b), h)
    <3>1. h \in SlotObject /\ b \in BufferObject
      BY <2>2, TakenRows
    <3>2. pti'.enabled = pti.enabled
      <4> HIDE DEF h, b
      <4>1. NoPid \in Pid \cup {NoPid}
        OBVIOUS
      <4>2. SlotDeallocate(BufferDeallocate(pti, b), h).enabled = pti.enabled
        BY <1>1, <3>1, <4>1, SlotCalls
      <4> QED BY <2>2, <4>2
    <3> QED BY <1>1, <3>2
  <2> QED BY <1>6, <2>1, <2>2 DEF CH6_Free_Section_Slot, Failed
<1>7. ASSUME NEW g, NEW err, CH6_Set_Filter(g, err) \/ CH6_Start_Filter(g, err)
      PROVE  fh \in pti'.enabled
  BY <1>1, <1>7
     DEF CH6_Set_Filter, CH6_Start_Filter, Failed, demuxVars, PtiState,
         FilterEnable
<1>8. ASSUME NEW g \in Filters, g # f, ~ FilterFree(g)
      PROVE  SectionFilter[g].FilterHandle # fh
  BY <1>8, NamedObjects
<1>9. ASSUME NEW t, NEW g, NEW err, g # f,
             \/ CH6_Stop_Filter(g, err) \/ CH6_Associate_Slot_Filter(t, g, err)
      PROVE  fh \in pti'.enabled
  <2> DEFINE h == SectionFilter[g].FilterHandle
  <2>1. CASE UNCHANGED demuxVars
    BY <1>1, <2>1 DEF demuxVars
  <2>2. ASSUME NEW k, g \in Filters, ~ FilterFree(g),
               \/ pti' = FilterDisable(pti, h)
               \/ pti' = FilterDisable(FilterAssociate(pti, h, k), h)
        PROVE  fh \in pti'.enabled
    <3>1. h # fh
      BY <1>8, <1>9, <2>2
    <3>2. pti'.enabled = pti.enabled \ {h}
      BY <1>1, <2>2 DEF PtiState, FilterDisable, FilterAssociate
    <3> QED BY <1>1, <3>1, <3>2
  <2> QED BY <1>9, <2>1, <2>2
          DEF CH6_Stop_Filter, CH6_Associate_Slot_Filter, Failed, BothUsable,
              FilterUsable, FilterTaken
<1>10. ASSUME NEW g, NEW err, g # f, CH6_Free_Section_Filter(g, err)
       PROVE  fh \in pti'.enabled
  <2> DEFINE h == SectionFilter[g].FilterHandle
             k == SectionFilter[g].SlotHandle
  <2>1. CASE UNCHANGED demuxVars
    BY <1>1, <2>1 DEF demuxVars
  <2>2. CASE /\ FilterTaken(g)
             /\ pti' = FilterDeallocate(FilterDisassociate(pti, h, k), h)
    <3>1. h \in FilterObject /\ g \in Filters /\ ~ FilterFree(g)
      BY <2>2, TakenRows
    <3>2. h # fh
      BY <1>8, <1>10, <3>1
    <3>3. pti'.enabled = pti.enabled \ {h}
      BY <1>1, <2>2, <3>1, FilterCalls
    <3> QED BY <1>1, <3>2, <3>3
  <2> QED BY <1>10, <2>1, <2>2 DEF CH6_Free_Section_Filter, Failed
<1> QED BY <1>2, <1>3, <1>4, <1>5, <1>6, <1>7, <1>9, <1>10
        DEF Harmless, CH6_Allocate_Section_Slot, CH6_Allocate_Section_Filter

LEMMA HarmlessCollects ==
    ASSUME DemuxInv, NEW f, NEW s \in Slots, ~ SlotFree(s), Harmless(f, s),
           pti.pid[SectionSlot[s].SlotHandle] = PidAt(s)
    PROVE  pti'.pid[SectionSlot'[s].SlotHandle] = PidAt(s)
<1> USE DEF DemuxInv
<1> DEFINE sh == SectionSlot[s].SlotHandle
<1>1. /\ SectionSlot'[s].SlotHandle = sh
      /\ sh \in pti.slots /\ sh \in SlotObject /\ pti \in PtiState
  BY HarmlessSpares, SlotStays, NamedObjects DEF DemuxTypeOK, PtiState
<1> SUFFICES pti'.pid[sh] = pti.pid[sh]
  BY <1>1
<1>2. CASE UNCHANGED demuxVars
  BY <1>2 DEF demuxVars
<1>3. CASE AllocateSlotFails \/ AllocateFilterFails
  BY <1>1, <1>3, FailedAllocation
<1>4. ASSUME NEW t, NEW g, AllocateSlotAt(t) \/ AllocateFilterAt(g)
      PROVE  pti'.pid[sh] = pti.pid[sh]
  <2>1. pti'.pid = pti.pid
    BY <1>1, <1>4
       DEF AllocateSlotAt, AllocateFilterAt, PtiState, BufferAllocate,
           SlotAllocate, FilterAllocate
  <2> QED BY <2>1
<1>5. ASSUME NEW t, NEW v, CH6_Set_Slot_Pid(t, v, FALSE)
      PROVE  pti'.pid[sh] = pti.pid[sh]
  BY <1>5 DEF CH6_Set_Slot_Pid, Failed, demuxVars
<1>6. ASSUME NEW t, t # s, SlotTaken(t)
      PROVE  /\ SectionSlot[t].SlotHandle \in SlotObject \ {sh}
             /\ SectionSlot[t].BufferHandle \in BufferObject
             /\ SectionSlot[t].PidValue \in Pid \cup {NoPid}
  <2>1. /\ t \in Slots /\ SectionSlot[t] \in SlotRow
        /\ SectionSlot[t].SlotHandle \in SlotObject
        /\ SectionSlot[t].BufferHandle \in BufferObject
    BY <1>6, TakenRows
  <2>2. SectionSlot[t].SlotHandle # sh
    BY <1>6, <2>1, NamedObjects DEF SlotTaken
  <2> QED BY <2>1, <2>2 DEF SlotRow
<1>7. ASSUME NEW t, NEW err, CH6_Start_Slot(t, err)
      PROVE  pti'.pid[sh] = pti.pid[sh]
  <2> DEFINE h == SectionSlot[t].SlotHandle
             v == SectionSlot[t].PidValue
  <2>1. CASE UNCHANGED demuxVars
    BY <2>1 DEF demuxVars
  <2>2. CASE SlotTaken(t) /\ pti' = SlotSetPid(pti, h, v)
    <3>1. CASE t = s
      <4>1. SlotSetPid(pti, h, v) = pti
        BY <3>1 DEF SlotSetPid, PidAt
      <4> QED BY <2>2, <4>1
    <3>2. CASE t # s
      <4>1. h \in SlotObject /\ v \in Pid \cup {NoPid} /\ sh \in SlotObject \ {h}
        BY <1>1, <1>6, <2>2, <3>2
      <4>2. PICK b \in BufferObject : TRUE
        BY <1>6, <2>2, <3>2
      <4> HIDE DEF h, v
      <4>3. SlotSetPid(pti, h, v).pid[sh] = pti.pid[sh]
        BY <1>1, <4>1, <4>2, SlotCalls
      <4> QED BY <2>2, <4>3
    <3> QED BY <3>1, <3>2
  <2> QED BY <1>7, <2>1, <2>2 DEF CH6_Start_Slot, Failed, SlotUsable
<1>8. ASSUME NEW t, NEW err, t # s,
             CH6_Stop_Slot(t, err) \/ CH6_Free_Section_Slot(t, err)
      PROVE  pti'.pid[sh] = pti.pid[sh]
  <2> DEFINE h == SectionSlot[t].SlotHandle
             b == SectionSlot[t].BufferHandle
  <2>1. CASE UNCHANGED demuxVars
    BY <2>1 DEF demuxVars
  <2>2. CASE /\ SlotTaken(t)
             /\ \/ pti' = SlotClearPid(pti, h)
                \/ pti' = SlotDeallocate(BufferDeallocate(pti, b), h)
    <3>1. h \in SlotObject /\ b \in BufferObject /\ sh \in SlotObject \ {h}
      BY <1>1, <1>6, <1>8, <2>2
    <3> HIDE DEF h, b
    <3>2. NoPid \in Pid \cup {NoPid}
      OBVIOUS
    <3>3. /\ SlotClearPid(pti, h).pid[sh] = pti.pid[sh]
          /\ SlotDeallocate(BufferDeallocate(pti, b), h).pid[sh] = pti.pid[sh]
      BY <1>1, <3>1, <3>2, SlotCalls
    <3> QED BY <2>2, <3>3
  <2> QED BY <1>8, <2>1, <2>2
          DEF CH6_Stop_Slot, CH6_Free_Section_Slot, Failed, SlotUsable
<1>9. ASSUME NEW t, NEW g, NEW err,
             \/ CH6_Free_Section_Filter(g, err)
             \/ CH6_Associate_Slot_Filter(t, g, err) \/ CH6_Set_Filter(g, err)
             \/ CH6_Start_Filter(g, err) \/ CH6_Stop_Filter(g, err)
      PROVE  pti'.pid[sh] = pti.pid[sh]
  <2>1. pti'.pid = pti.pid
    BY <1>1, <1>9
       DEF CH6_Free_Section_Filter, CH6_Associate_Slot_Filter, CH6_Set_Filter,
           CH6_Start_Filter, CH6_Stop_Filter, Failed, demuxVars, PtiState,
           FilterDeallocate, FilterDisassociate, FilterDisable,
           FilterAssociate, FilterEnable
  <2> QED BY <2>1
<1> QED BY <1>2, <1>3, <1>4, <1>5, <1>7, <1>8, <1>9
        DEF Harmless, CH6_Allocate_Section_Slot, CH6_Allocate_Section_Filter

-----------------------------------------------------------------------------
LEMMA BrowserHarmless ==
    ASSUME KernelReady, BrowserAims, Browser, NEW f \in held, NEW s \in CaSlots
    PROVE  Harmless(f, s)
<1>1. /\ channels \subseteq Slots /\ BrowserFilters \subseteq Filters
      /\ call.at = "associate" => call.fl # f
      /\ f \notin BrowserFilters
  BY DEF KernelReady, ClientsIInv, ClientsInv, EisInv, EisTypeOK, BrowserFilters,
         FiltersDivided, At
<1>2. /\ \A c \in channels : c # s
      /\ At("free") => call.ch # s
  BY DEF KernelReady, SlotsDivided, BrowserSlots
<1>3. At("stop other") => call.other # s
  <2>1. PidAt(s) \in CaPid \cup {NoPid}
    BY DEF KernelReady, PidsDivided
  <2> QED BY <2>1, PidsApart DEF KernelReady, BrowserAims
<1>4. CASE create_channel \/ create_filter_allocate
  BY <1>4 DEF create_channel, create_filter_allocate, Harmless
<1>5. CASE set_channel_pid
  BY <1>1, <1>5, EisDemuxAssumption DEF set_channel_pid, Harmless
<1>6. CASE create_filter_associate
  BY <1>1, <1>6 DEF create_filter_associate, CreatedFilter, At, Harmless
<1>7. CASE set_filter_set \/ enable_filter
  BY <1>7 DEF set_filter_set, enable_filter, Harmless
<1>8. CASE disable_filter \/ destroy_filter
  BY <1>1, <1>8 DEF disable_filter, destroy_filter, Harmless
<1>9. CASE start_channel_start \/ start_channel_start_again
  BY <1>9 DEF start_channel_start, start_channel_start_again, Harmless
<1>10. CASE start_channel_stop_other
  BY <1>3, <1>10 DEF start_channel_stop_other, Harmless
<1>11. CASE destroy_channel_stop
  BY <1>2, <1>11 DEF destroy_channel_stop, Harmless
<1>12. CASE destroy_channel_free
  BY <1>2, <1>12 DEF destroy_channel_free, SlotToFree, Harmless
<1>13. CASE \/ set_filter_get_pid \/ start_channel
            \/ start_channel_find_other \/ start_channel_return
  BY <1>13 DEF set_filter_get_pid, start_channel, start_channel_find_other,
               start_channel_return, Harmless
<1> QED BY <1>4, <1>5, <1>6, <1>7, <1>8, <1>9, <1>10, <1>11, <1>12, <1>13
        DEF Browser

Active(f) == FDmxFlterInfo[f].bdmxactived
SlotFor(f) == FDmxFlterInfo[f].SlotId

(* An active filter of the kernel's has its slot, with its PID; it is not   *)
(* the one being set.                                                       *)
LEMMA ActiveFacts ==
    ASSUME KernelReady, ActiveFed, NEW f \in held, Active(f)
    PROVE  /\ FDmxFlterInfo[f].defined /\ Armed(f) /\ Runs(f)
           /\ SlotFor(f) \in CaSlots /\ PidAt(SlotFor(f)) = FDmxFlterInfo[f].FilterPID
           /\ ddi.at \in {"allocate", "set pid", "set", "associate"} => f # ddi.fl
           /\ Doing("stop slot") => f # ddi.fl
<1>1. FDmxFlterInfo[f].defined /\ Armed(f) /\ Runs(f)
  BY DEF ActiveFed, Active
<1>2. ddi.at \in {"allocate", "set pid", "set", "associate"} => f # ddi.fl
  BY <1>1 DEF KernelReady, ClientsIInv, DdiPlaced, Info
<1>3. Doing("stop slot") => f # ddi.fl
  BY DEF ActiveFed, Active, Info
<1>4. SlotInUse(f) /\ PidKnown(f)
  BY <1>2, ReadyFacts DEF Setting
<1>5. SlotFor(f) # None
  BY <1>1, <1>4 DEF SlotInUse, SlotFor
<1>6. PidAt(SlotFor(f)) = FDmxFlterInfo[f].FilterPID
  BY <1>4, <1>5 DEF PidKnown, SlotFor
<1>7. SlotFor(f) \in CaSlots
  BY <1>5, ReadyFacts DEF SlotFor
<1> QED BY <1>1, <1>2, <1>3, <1>6, <1>7

SameRow(f) == /\ SlotFor(f)' = SlotFor(f)
              /\ FDmxFlterInfo'[f].FilterPID = FDmxFlterInfo[f].FilterPID

LEMMA RunsKept ==
    ASSUME KernelReady, NEW f \in held, Runs(f), SlotFor(f) \in CaSlots,
           PidAt(SlotFor(f)) = FDmxFlterInfo[f].FilterPID, SameRow(f),
           Harmless(f, SlotFor(f))
    PROVE  Runs(f)'
<1>1. PICK s : s = SlotFor(f)
  OBVIOUS
<1>2. s \in Slots /\ ~ SlotFree(s) /\ DemuxInv
  BY <1>1, ReadyFacts DEF KernelReady
<1>3. pti.pid[SectionSlot[s].SlotHandle] = PidAt(s)
  BY <1>1 DEF Runs, SlotFor
<1>4. pti'.pid[SectionSlot'[s].SlotHandle] = PidAt(s)
  BY <1>1, <1>2, <1>3, HarmlessCollects
<1> QED BY <1>1, <1>4 DEF Runs, SameRow, SlotFor

LEMMA ArmedKept ==
    ASSUME KernelReady, NEW f \in held, Armed(f), NEW s, Harmless(f, s)
    PROVE  Armed(f)'
<1>1. f \in Filters /\ ~ FilterFree(f) /\ DemuxInv
  BY ReadyFacts DEF KernelReady
<1> QED BY <1>1, HarmlessArms

StillFed(f) == FDmxFlterInfo[f].defined /\ Armed(f) /\ Runs(f)

(* What is active stays fed when it was active already and the call is      *)
(* harmless to it.                                                          *)
LEMMA StaysFed ==
    ASSUME KernelReady, ActiveFed, NEW f \in held, Active(f), SameRow(f),
           FDmxFlterInfo'[f].defined = FDmxFlterInfo[f].defined,
           Harmless(f, SlotFor(f))
    PROVE  StillFed(f)'
BY ActiveFacts, RunsKept, ArmedKept DEF StillFed

LEMMA FedIf ==
    ASSUME \A f \in held' : Active(f)' => StillFed(f)',
           ddi'.at = "start" => Runs(ddi.fl)',
           ddi'.at = "stop slot" => ~ Active(ddi.fl)'
    PROVE  ActiveFed'
BY DEF ActiveFed, Active, StillFed, Doing, Info

(* The browser's steps.                                                     *)
LEMMA BrowserFeeds ==
    ASSUME KernelReady, BrowserAims, ActiveFed, Browser, UNCHANGED mgVars
    PROVE  ActiveFed'
<1>1. held' = held /\ ddi' = ddi /\ FDmxFlterInfo' = FDmxFlterInfo
  BY DEF mgVars
<1>2. \A f \in held : SameRow(f) /\ (Active(f)' <=> Active(f))
                      /\ FDmxFlterInfo'[f].defined = FDmxFlterInfo[f].defined
  BY <1>1 DEF SameRow, Active, SlotFor
<1>3. ASSUME NEW f \in held', Active(f)'
      PROVE  StillFed(f)'
  <2>1. f \in held /\ Active(f) /\ SlotFor(f) \in CaSlots
    BY <1>1, <1>2, <1>3, ActiveFacts
  <2> QED BY <1>2, <2>1, BrowserHarmless, StaysFed
<1>4. ASSUME ddi'.at = "start" PROVE Runs(ddi.fl)'
  <2>1. /\ ddi.fl \in held /\ Runs(ddi.fl) /\ Info.defined /\ ~ Setting
    BY <1>1, <1>4, ReadyFacts
       DEF ActiveFed, Doing, KernelReady, KernelStands, Setting
  <2>2. PICK f \in held : f = ddi.fl
    BY <2>1
  <2>3. SlotInUse(f) /\ PidKnown(f)
    BY <2>1, ReadyFacts
  <2>4. SlotFor(f) \in CaSlots /\ PidAt(SlotFor(f)) = FDmxFlterInfo[f].FilterPID
    <3>1. SlotFor(f) # None
      BY <2>1, <2>2, <2>3 DEF SlotInUse, SlotFor, Info
    <3> QED BY <2>3, <3>1, ReadyFacts DEF PidKnown, SlotFor
  <2>5. Runs(f)'
    BY <1>2, <2>1, <2>2, <2>4, BrowserHarmless, RunsKept
  <2> QED BY <1>1, <2>2, <2>5 DEF Runs
<1>5. ddi'.at = "stop slot" => ~ Active(ddi.fl)'
  BY <1>1 DEF ActiveFed, Doing, Active, Info
<1> QED BY <1>3, <1>4, <1>5, FedIf

-----------------------------------------------------------------------------
LEMMA KernelHarmless ==
    ASSUME KernelReady, ActiveFed, CaClient, NEW f \in held, Active(f),
           ddi.at \in {"stop", "free"} => ddi.fl # f
    PROVE  Harmless(f, SlotFor(f))
<1>1. /\ SlotFor(f) \in CaSlots
      /\ ddi.at \in {"allocate", "set pid", "set", "associate"} => f # ddi.fl
      /\ Doing("stop slot") => f # ddi.fl
  BY ActiveFacts
<1>2. ddi.at \in {"stop slot", "free slot"} => SlotFor(f) # Slot
  <2>1. Doing("free slot") => ddi.fl \notin held
    BY DEF KernelReady, KernelStands
  <2> QED BY <1>1, <2>1 DEF KernelReady, KernelStands, Doing, SlotFor
<1>3. CASE MGDDISrcAllocDmxFltr \/ set_allocate
  BY <1>3 DEF MGDDISrcAllocDmxFltr, set_allocate, Harmless
<1>4. CASE set_pid
  <2>1. Doing("set pid") /\ CH6_Set_Slot_Pid(Slot, Info.FilterPID, FALSE)
    BY <1>4 DEF set_pid
  <2>2. Slot \in Slots /\ Info.FilterPID \in Pid
    BY <2>1, KernelFacts, MgDmxFilterAssumption
       DEF Doing, KernelReady, ClientsIInv, DdiPlaced
  <2> QED BY <2>1, <2>2 DEF Harmless
<1>5. CASE set_filter \/ start_filter
  BY <1>5 DEF set_filter, start_filter, Harmless
<1>6. CASE set_associate
  BY <1>1, <1>6 DEF set_associate, Doing, Harmless
<1>7. ASSUME NEW g \in Filters, start_slot(g)
      PROVE  Harmless(f, SlotFor(f))
  BY <1>7 DEF start_slot, Harmless
<1>8. CASE stop_filter
  BY <1>8 DEF stop_filter, Doing, Harmless
<1>9. CASE free_filter
  BY <1>9 DEF free_filter, Doing, Harmless
<1>10. CASE stop_slot
  BY <1>2, <1>10 DEF stop_slot, Doing, Harmless
<1>11. CASE free_slot
  BY <1>2, <1>11 DEF free_slot, Doing, Harmless
<1>12. ASSUME NEW g \in Filters, NEW v,
              set_find(g, v) \/ stop_count(g) \/ free_count(g)
       PROVE  Harmless(f, SlotFor(f))
  BY <1>12 DEF set_find, stop_count, free_count, Harmless
<1>13. CASE BaseWorks
  BY <1>13, ReadyFacts, BaseFacts DEF Harmless
<1> QED
  BY <1>3, <1>4, <1>5, <1>6, <1>7, <1>8, <1>9, <1>10, <1>11, <1>12, <1>13
     DEF CaClient, BaseWorks

(* What was active and keeps its row, but for what is stopped or freed.     *)
StaysActive(f) ==
    /\ f \in held /\ Active(f) /\ SameRow(f)
    /\ FDmxFlterInfo'[f].defined = FDmxFlterInfo[f].defined
    /\ ddi.at \in {"stop", "free"} => ddi.fl # f

LEMMA KernelFeeds ==
    ASSUME KernelReady, ActiveFed, CaClient,
           \A f \in held' : Active(f)' => StaysActive(f),
           ddi'.at = "start" => Runs(ddi.fl)',
           ddi'.at = "stop slot" => ~ Active(ddi.fl)'
    PROVE  ActiveFed'
<1>1. ASSUME NEW f \in held', Active(f)'
      PROVE  StillFed(f)'
  <2>1. f \in held /\ Active(f) /\ StaysActive(f)
    BY <1>1 DEF StaysActive
  <2>2. Harmless(f, SlotFor(f))
    BY <2>1, KernelHarmless DEF StaysActive
  <2> QED BY <2>1, <2>2, StaysFed DEF StaysActive
<1> QED BY <1>1, FedIf

LEMMA SameInfoStays ==
    ASSUME held' = held, FDmxFlterInfo' = FDmxFlterInfo, NEW f \in held',
           Active(f)', ddi.at \in {"stop", "free"} => ddi.fl # f
    PROVE  StaysActive(f)
BY DEF StaysActive, Active, SameRow, SlotFor

(* Only the row of the filter the operation is for changes.                 *)
LEMMA OtherStays ==
    ASSUME FDmxFlterInfo \in [Filters -> InfoRow], NEW g \in Filters, NEW r,
           FDmxFlterInfo' = [FDmxFlterInfo EXCEPT ![g] = r],
           held \subseteq Filters,
           NEW f \in held, f # g, Active(f)',
           ddi.at \in {"stop", "free"} => ddi.fl # f
    PROVE  StaysActive(f)
<1>1. f \in Filters /\ FDmxFlterInfo'[f] = FDmxFlterInfo[f]
  OBVIOUS
<1> QED BY <1>1 DEF StaysActive, Active, SameRow, SlotFor

LEMMA NewRow ==
    ASSUME FDmxFlterInfo \in [Filters -> InfoRow], NEW g \in Filters, NEW r,
           FDmxFlterInfo' = [FDmxFlterInfo EXCEPT ![g] = r]
    PROVE  Active(g)' <=> r.bdmxactived
BY DEF Active

LEMMA AllocFeeds ==
    ASSUME KernelReady, ActiveFed, MGDDISrcAllocDmxFltr
    PROVE  ActiveFed'
<1>1. CaClient /\ ddi' = ddi /\ ddi.at = "idle"
  BY DEF MGDDISrcAllocDmxFltr, CaClient, Doing
<1>2. PICK g \in FilterArg :
         IF g = None THEN UNCHANGED <<FDmxFlterInfo, held>>
         ELSE /\ FDmxFlterInfo' = [FDmxFlterInfo EXCEPT ![g] = FreshInfo]
              /\ held' = held \cup {g}
  BY DEF MGDDISrcAllocDmxFltr
<1>3. ASSUME NEW f \in held', Active(f)'
      PROVE  StaysActive(f)
  <2>1. CASE g = None
    BY <1>1, <1>2, <1>3, <2>1, SameInfoStays
  <2>2. CASE g # None
    <3>1. g \in Filters
      BY <2>2 DEF FilterArg
    <3>2. f # g
      <4>1. ~ FreshInfo.bdmxactived
        BY DEF FreshInfo
      <4> QED BY <1>2, <1>3, <2>2, <3>1, <4>1, ReadyFacts, NewRow
    <3>3. f \in held /\ held \subseteq Filters
      BY <1>2, <1>3, <2>2, <3>2, ReadyFacts
    <3>4. /\ FDmxFlterInfo' = [FDmxFlterInfo EXCEPT ![g] = FreshInfo]
          /\ FDmxFlterInfo \in [Filters -> InfoRow]
      BY <1>2, <2>2, ReadyFacts
    <3> QED BY <1>1, <1>3, <3>1, <3>2, <3>3, <3>4, OtherStays
  <2> QED BY <2>1, <2>2
<1> QED BY <1>1, <1>3, KernelFeeds

LEMMA CallFeeds ==
    ASSUME KernelReady, ActiveFed, CaClient,
           UNCHANGED <<FDmxFlterInfo, held>>, ddi.at \notin {"stop", "free"},
           ddi'.at \notin {"start", "stop slot"}
    PROVE  ActiveFed'
<1>1. \A f \in held' : Active(f)' => StaysActive(f)
  BY SameInfoStays
<1> QED BY <1>1, KernelFeeds

(* A setting changes the row of a filter that is not active.                *)
LEMMA SettingFeeds ==
    ASSUME KernelReady, ActiveFed, CaClient, NEW g \in held, NEW r,
           FDmxFlterInfo' = [FDmxFlterInfo EXCEPT ![g] = r], held' = held,
           ~ r.bdmxactived, ddi.at \notin {"stop", "free"},
           ddi'.at \notin {"start", "stop slot"}
    PROVE  ActiveFed'
<1>1. FDmxFlterInfo \in [Filters -> InfoRow] /\ g \in Filters /\ held \subseteq Filters
  BY ReadyFacts
<1>2. \A f \in held' : Active(f)' => StaysActive(f)
  <2> SUFFICES ASSUME NEW f \in held', Active(f)'
               PROVE  StaysActive(f)
    OBVIOUS
  <2>1. f # g
    BY <1>1, NewRow
  <2> QED BY <1>1, <2>1, OtherStays
<1> QED BY <1>2, KernelFeeds

LEMMA SetFeeds ==
    ASSUME KernelReady, ActiveFed,
           \/ \E f \in Filters, v \in CaPid : set_find(f, v)
           \/ set_allocate \/ set_pid \/ set_filter \/ set_associate
    PROVE  ActiveFed'
<1>1. CaClient
  BY DEF CaClient
<1>2. /\ FDmxFlterInfo \in [Filters -> InfoRow] /\ held \subseteq Filters
      /\ ddi \in Operation
      /\ ddi.at \in {"allocate", "set pid", "set", "associate"} =>
            ddi.fl \in held /\ ~ Active(ddi.fl)
  <2>1. ddi.at \in {"allocate", "set pid", "set", "associate"} => ddi.fl \in held
    BY ReadyFacts
  <2> QED BY <2>1, ReadyFacts, ActiveFacts
<1>3. ASSUME NEW f \in Filters, NEW v \in CaPid, set_find(f, v)
      PROVE  ActiveFed'
  <2>1. PICK s \in SlotArg :
           /\ FDmxFlterInfo' =
                 [FDmxFlterInfo EXCEPT ![f].FilterPID = v,
                                       ![f].SlotId = IF s = None THEN @ ELSE s]
           /\ Begin(IF s = None THEN "allocate" ELSE "set", f, 0)
    BY <1>3 DEF set_find
  <2>2. /\ f \in held /\ ~ Active(f) /\ held' = held /\ ddi.at = "idle"
    BY <1>3 DEF set_find, Named, Settable, Doing, Active
  <2>3. ddi'.at \in {"allocate", "set"}
    BY <2>1 DEF Begin
  <2> DEFINE r == [[FDmxFlterInfo[f] EXCEPT !.FilterPID = v]
                     EXCEPT !.SlotId = IF s = None THEN @ ELSE s]
  <2>4. FDmxFlterInfo' = [FDmxFlterInfo EXCEPT ![f] = r]
    BY <1>2, <2>1
  <2>5. ~ r.bdmxactived
    BY <1>2, <2>2 DEF Active, InfoRow
  <2> HIDE DEF r
  <2> QED BY <1>1, <2>2, <2>3, <2>4, <2>5, SettingFeeds
<1>4. CASE set_pid \/ set_filter
  <2>1. /\ ddi.at \in {"set pid", "set"} /\ UNCHANGED <<FDmxFlterInfo, held>>
        /\ Done \/ Proceed("set") \/ Proceed("associate")
    BY <1>4 DEF set_pid, set_filter, Doing
  <2>2. ddi'.at \in {"idle", "set", "associate"}
    BY <1>2, <2>1, DoneTyped, ProceedTyped
  <2> QED BY <1>1, <2>1, <2>2, CallFeeds
<1>5. CASE set_allocate
  <2>1. PICK s \in SlotArg :
           IF s = None THEN Done /\ UNCHANGED FDmxFlterInfo
           ELSE SetInfo([Info EXCEPT !.SlotId = s]) /\ Proceed("set pid")
    BY <1>5 DEF set_allocate
  <2>2. ddi.at = "allocate" /\ held' = held
    BY <1>5 DEF set_allocate, Doing
  <2>3. CASE s = None
    BY <1>1, <2>1, <2>2, <2>3, DoneTyped, CallFeeds
  <2>4. CASE s # None
    <3> DEFINE r == [Info EXCEPT !.SlotId = s]
    <3>1. FDmxFlterInfo' = [FDmxFlterInfo EXCEPT ![ddi.fl] = r]
      BY <2>1, <2>4 DEF SetInfo
    <3>2. ~ r.bdmxactived /\ ddi.fl \in held
      BY <1>2, <2>2 DEF Active, Info, InfoRow
    <3>3. ddi'.at = "set pid"
      BY <1>2, <2>1, <2>4, ProceedTyped
    <3> HIDE DEF r
    <3> QED BY <1>1, <2>2, <3>1, <3>2, <3>3, SettingFeeds
  <2> QED BY <2>3, <2>4
<1>6. CASE set_associate
  <2>1. PICK err \in BOOLEAN :
           SetInfo([Info EXCEPT !.InUsed = ~ err, !.defined = @ \/ ~ err])
    BY <1>6 DEF set_associate
  <2>2. ddi.at = "associate" /\ held' = held /\ ddi'.at = "idle"
    BY <1>6, DoneTyped DEF set_associate, Doing
  <2> DEFINE r == [Info EXCEPT !.InUsed = ~ err, !.defined = @ \/ ~ err]
  <2>3. FDmxFlterInfo' = [FDmxFlterInfo EXCEPT ![ddi.fl] = r]
    BY <2>1 DEF SetInfo
  <2>4. ~ r.bdmxactived /\ ddi.fl \in held
    BY <1>2, <2>2 DEF Active, Info, InfoRow
  <2> HIDE DEF r
  <2> QED BY <1>1, <2>2, <2>3, <2>4, SettingFeeds
<1> QED BY <1>3, <1>4, <1>5, <1>6

-----------------------------------------------------------------------------
(* The kernel's start is never refused: only its own slot collects the PID. *)
LEMMA StartRuns ==
    ASSUME DemuxInv, PidsDivided, Collected, NEW s \in Slots, ~ SlotFree(s),
           PidAt(s) \in CaPid, NEW err, CH6_Start_Slot(s, err)
    PROVE  pti'.pid[SectionSlot'[s].SlotHandle] = PidAt(s)
<1> DEFINE sh == SectionSlot[s].SlotHandle
           v  == PidAt(s)
<1>1. SlotTaken(s) /\ sh \in SlotObject /\ SectionSlot[s].BufferHandle \in BufferObject
  BY TakenRows DEF DemuxInv, SlotTaken
<1>2. SlotUsable(s)
  BY <1>1, PtiAssumption DEF SlotUsable
<1>3. pti' = SlotSetPid(pti, sh, v) /\ SectionSlot' = SectionSlot
  BY <1>2 DEF CH6_Start_Slot, PidAt
<1>4. v # NoPid /\ v \in CaPid
  BY PtiAssumption, MgDmxFilterAssumption
<1>5. ~ CollectedElsewhere(pti, sh, v)
  <2> SUFFICES ASSUME NEW g \in SlotObject \ {sh}, pti.pid[g] = v
               PROVE  FALSE
    BY DEF CollectedElsewhere
  <2>1. PICK t \in Slots : SectionSlot[t].SlotHandle = g /\ PidAt(t) = v
    BY <1>4 DEF Collected
  <2>2. t = s
    BY <1>4, <2>1 DEF PidsDivided
  <2> QED BY <2>1, <2>2
<1>6. pti \in PtiState
  BY DEF DemuxInv, DemuxTypeOK
<1> HIDE DEF sh, v
<1>7. CASE pti.pid[sh] = v
  BY <1>3, <1>7 DEF SlotSetPid, sh, v
<1>8. CASE pti.pid[sh] # v
  <2>1. SlotSetPid(pti, sh, v).pid[sh] = v
    BY <1>1, <1>4, <1>5, <1>6, <1>8 DEF SlotSetPid, PtiState
  <2> QED BY <1>3, <2>1 DEF sh, v
<1> QED BY <1>7, <1>8 DEF v

LEMMA StartSlotFeeds ==
    ASSUME KernelReady, Collected, ActiveFed, NEW f \in Filters, start_slot(f)
    PROVE  ActiveFed'
<1>1. /\ CaClient /\ f \in held /\ ddi.at = "idle" /\ SlotFor(f) # None
      /\ FDmxFlterInfo' = FDmxFlterInfo /\ held' = held
  BY DEF start_slot, CaClient, Named, Doing, SlotFor
<1>2. ddi'.at = "start" /\ ddi'.fl = f
  BY DEF start_slot, Begin
<1>3. PidKnown(f) /\ SlotFor(f) \in CaSlots
  BY <1>1, ReadyFacts DEF Setting, SlotFor
<1>4. PICK s : s = SlotFor(f)
  OBVIOUS
<1>5. /\ s \in Slots /\ ~ SlotFree(s)
      /\ PidAt(s) = FDmxFlterInfo[f].FilterPID /\ PidAt(s) \in CaPid
  BY <1>1, <1>3, <1>4, ReadyFacts DEF PidKnown, SlotFor
<1>6. pti'.pid[SectionSlot'[s].SlotHandle] = PidAt(s)
  <2>1. PICK err \in BOOLEAN : CH6_Start_Slot(s, err)
    BY <1>4 DEF start_slot, SlotFor
  <2> QED BY <1>5, <2>1, StartRuns DEF KernelReady
<1>7. Runs(ddi.fl)'
  BY <1>1, <1>2, <1>4, <1>5, <1>6 DEF Runs, SlotFor
<1>8. \A g \in held' : Active(g)' => StaysActive(g)
  BY <1>1, SameInfoStays
<1> QED BY <1>1, <1>2, <1>7, <1>8, KernelFeeds

LEMMA CountFeeds ==
    ASSUME KernelReady, ActiveFed, NEW f \in Filters, stop_count(f) \/ free_count(f)
    PROVE  ActiveFed'
<1>1. /\ CaClient /\ ddi.at = "idle"
      /\ FDmxFlterInfo' = FDmxFlterInfo /\ held' = held
  BY DEF stop_count, free_count, CaClient, Named, Doing
<1>2. ddi'.at \in {"stop", "free"}
  BY DEF stop_count, free_count, Begin
<1> QED BY <1>1, <1>2, CallFeeds

LEMMA StartFilterFeeds ==
    ASSUME KernelReady, ActiveFed, start_filter
    PROVE  ActiveFed'
<1>1. /\ CaClient /\ held' = held /\ ddi.at = "start" /\ ddi'.at = "idle"
  BY DoneTyped DEF start_filter, CaClient, Doing
<1>2. PICK f \in held : f = ddi.fl
  BY <1>1, ReadyFacts
<1>3. /\ FDmxFlterInfo \in [Filters -> InfoRow] /\ f \in Filters
      /\ held \subseteq Filters /\ ~ FilterFree(f) /\ DemuxInv
  BY ReadyFacts DEF KernelReady
<1>4. PICK err \in BOOLEAN :
         /\ CH6_Start_Filter(f, err)
         /\ FDmxFlterInfo' = [FDmxFlterInfo EXCEPT ![f] =
               [FDmxFlterInfo[f] EXCEPT !.bdmxactived = @ \/ ~ err]]
  BY <1>2 DEF start_filter, SetInfo, Info
<1>5. FDmxFlterInfo[f].defined /\ Runs(f) /\ SlotInUse(f) /\ PidKnown(f)
  BY <1>1, <1>2, ReadyFacts
     DEF ActiveFed, Doing, KernelReady, KernelStands, Info, Setting
<1>6. SlotFor(f) # None /\ SlotFor(f) \in CaSlots
      /\ PidAt(SlotFor(f)) = FDmxFlterInfo[f].FilterPID
  BY <1>5, ReadyFacts DEF SlotInUse, PidKnown, SlotFor
<1>7. SameRow(f) /\ FDmxFlterInfo'[f].defined = FDmxFlterInfo[f].defined
  <2> DEFINE r == [FDmxFlterInfo[f] EXCEPT !.bdmxactived = @ \/ ~ err]
  <2>1. /\ r.SlotId = FDmxFlterInfo[f].SlotId
        /\ r.FilterPID = FDmxFlterInfo[f].FilterPID
        /\ r.defined = FDmxFlterInfo[f].defined
    BY <1>3 DEF InfoRow
  <2>2. FDmxFlterInfo'[f] = r
    BY <1>3, <1>4
  <2> HIDE DEF r
  <2> QED BY <2>1, <2>2 DEF SameRow, SlotFor
<1>8. Armed(f)'
  <2>1. FilterUsable(f) /\ SectionFilter[f].FilterHandle \in FilterObject
    <3>1. SectionFilter[f].FilterHandle \in FilterObject
      BY <1>3, TakenRows DEF FilterTaken, DemuxInv
    <3> QED BY <1>3, <3>1, PtiAssumption DEF FilterUsable, FilterTaken
  <2>2. /\ pti' = FilterEnable(pti, SectionFilter[f].FilterHandle)
        /\ SectionFilter' = [SectionFilter EXCEPT ![f].FilterStatus = "IN_USE"]
    BY <1>4, <2>1 DEF CH6_Start_Filter
  <2>3. SectionFilter'[f].FilterHandle = SectionFilter[f].FilterHandle
    BY <1>3, <2>2 DEF DemuxInv, DemuxTypeOK, FilterRow
  <2>4. pti'.enabled = pti.enabled \cup {SectionFilter[f].FilterHandle}
    BY <1>3, <2>2 DEF FilterEnable, DemuxInv, DemuxTypeOK, PtiState
  <2> QED BY <2>3, <2>4 DEF Armed
<1>9. Runs(f)'
  <2>1. Harmless(f, SlotFor(f))
    BY <1>4 DEF Harmless
  <2> QED BY <1>5, <1>6, <1>7, <2>1, RunsKept
<1>10. ASSUME NEW g \in held', Active(g)'
       PROVE  StillFed(g)'
  <2>1. CASE g = f
    BY <1>5, <1>7, <1>8, <1>9, <2>1 DEF StillFed
  <2>2. CASE g # f
    <3> DEFINE r == [FDmxFlterInfo[f] EXCEPT !.bdmxactived = @ \/ ~ err]
    <3>1. FDmxFlterInfo' = [FDmxFlterInfo EXCEPT ![f] = r] /\ g \in held
      BY <1>1, <1>4
    <3> HIDE DEF r
    <3>2. StaysActive(g)
      BY <1>1, <1>3, <1>10, <2>2, <3>1, OtherStays
    <3>3. Harmless(g, SlotFor(g))
      BY <1>1, <3>1, <3>2, KernelHarmless DEF StaysActive
    <3> QED BY <3>1, <3>2, <3>3, StaysFed DEF StaysActive
  <2> QED BY <2>1, <2>2
<1> QED BY <1>1, <1>10, FedIf

(* A filter of the kernel's is stopped and freed without an error.          *)
LEMMA HeldUsable ==
    ASSUME KernelReady, NEW f \in held
    PROVE  FilterUsable(f)
<1>1. f \in Filters /\ ~ FilterFree(f) /\ SectionFilter[f].FilterHandle \in FilterObject
  BY ReadyFacts, TakenRows DEF FilterTaken, KernelReady, DemuxInv
<1> QED BY <1>1, PtiAssumption DEF FilterUsable, FilterTaken

LEMMA StopFilterFeeds ==
    ASSUME KernelReady, ActiveFed, stop_filter
    PROVE  ActiveFed'
<1>1. CaClient /\ held' = held /\ ddi.at = "stop"
  BY DEF stop_filter, CaClient, Doing
<1>2. PICK f \in held : f = ddi.fl
  BY <1>1, ReadyFacts
<1>3. /\ FDmxFlterInfo \in [Filters -> InfoRow] /\ f \in Filters
      /\ held \subseteq Filters /\ ddi \in Operation
  BY ReadyFacts
<1> DEFINE r == [FDmxFlterInfo[f] EXCEPT !.bdmxactived = FALSE]
<1>4. FDmxFlterInfo' = [FDmxFlterInfo EXCEPT ![f] = r]
  <2>1. PICK err \in BOOLEAN :
           /\ CH6_Stop_Filter(f, err)
           /\ FDmxFlterInfo' = [FDmxFlterInfo EXCEPT ![f] =
                 [FDmxFlterInfo[f] EXCEPT !.bdmxactived = @ /\ err]]
    BY <1>2 DEF stop_filter, SetInfo, Info
  <2>2. err = FALSE
    BY <2>1, HeldUsable DEF CH6_Stop_Filter
  <2> QED BY <2>1, <2>2
<1>5. ~ r.bdmxactived
  BY <1>3 DEF InfoRow
<1> HIDE DEF r
<1>6. \A g \in held' : Active(g)' => StaysActive(g)
  <2> SUFFICES ASSUME NEW g \in held', Active(g)'
               PROVE  StaysActive(g)
    OBVIOUS
  <2>1. g # f
    BY <1>3, <1>4, <1>5, NewRow
  <2> QED BY <1>1, <1>2, <1>3, <1>4, <2>1, OtherStays
<1>7. ~ Active(f)'
  BY <1>3, <1>4, <1>5, NewRow
<1>8. ddi'.at \in {"idle", "stop slot"} /\ (ddi'.at = "stop slot" => ddi'.fl = f)
  <2>1. Proceed("stop slot") \/ Done
    BY DEF stop_filter
  <2> QED BY <1>2, <1>3, <2>1, DoneTyped, ProceedTyped
<1>9. ddi'.at = "stop slot" => ~ Active(ddi.fl)'
  BY <1>7, <1>8 DEF Active
<1> QED BY <1>1, <1>6, <1>8, <1>9, KernelFeeds

LEMMA StopSlotFeeds ==
    ASSUME KernelReady, ActiveFed, stop_slot
    PROVE  ActiveFed'
<1>1. /\ CaClient /\ UNCHANGED <<FDmxFlterInfo, held>>
      /\ ddi.at = "stop slot" /\ ddi'.at = "idle"
  BY DoneTyped DEF stop_slot, CaClient, Doing
<1> QED BY <1>1, CallFeeds

LEMMA FreeFilterFeeds ==
    ASSUME KernelReady, ActiveFed, free_filter
    PROVE  ActiveFed'
<1>1. CaClient /\ ddi.at = "free"
  BY DEF free_filter, CaClient, Doing
<1>2. PICK f \in held : f = ddi.fl
  BY <1>1, ReadyFacts
<1>3. /\ FDmxFlterInfo \in [Filters -> InfoRow] /\ f \in Filters
      /\ held \subseteq Filters /\ ddi \in Operation
  BY ReadyFacts
<1> DEFINE r == [FDmxFlterInfo[f] EXCEPT !.InUsed = FALSE, !.defined = FALSE,
                                         !.bdmxactived = FALSE]
<1>4. /\ FDmxFlterInfo' = [FDmxFlterInfo EXCEPT ![f] = r]
      /\ held' = held \ {f}
      /\ Done \/ Proceed("free slot")
  <2>1. PICK err \in BOOLEAN :
           /\ CH6_Free_Section_Filter(f, err)
           /\ IF err
              THEN Done /\ UNCHANGED <<FDmxFlterInfo, held>>
              ELSE /\ SetInfo([Info EXCEPT !.InUsed = FALSE,
                                           !.defined = FALSE,
                                           !.bdmxactived = FALSE])
                   /\ held' = held \ {f}
                   /\ Done \/ Proceed("free slot")
    BY <1>2 DEF free_filter
  <2>2. err = FALSE
    BY <2>1, HeldUsable DEF CH6_Free_Section_Filter, FilterUsable
  <2> QED BY <1>2, <2>1, <2>2 DEF SetInfo, Info
<1>5. ddi'.at \in {"idle", "free slot"}
  BY <1>3, <1>4, DoneTyped, ProceedTyped
<1> HIDE DEF r
<1>6. \A g \in held' : Active(g)' => StaysActive(g)
  <2> SUFFICES ASSUME NEW g \in held', Active(g)'
               PROVE  StaysActive(g)
    OBVIOUS
  <2>1. g # f /\ g \in held
    BY <1>4
  <2>2. FDmxFlterInfo' = [FDmxFlterInfo EXCEPT ![f] = r]
    BY <1>4
  <2> QED BY <1>1, <1>2, <1>3, <2>1, <2>2, OtherStays
<1> QED BY <1>1, <1>5, <1>6, KernelFeeds

LEMMA FreeSlotFeeds ==
    ASSUME KernelReady, ActiveFed, free_slot
    PROVE  ActiveFed'
<1>1. CaClient /\ ddi.at = "free slot" /\ ddi'.at = "idle" /\ held' = held
  BY DoneTyped DEF free_slot, CaClient, Doing
<1>2. ddi.fl \in Filters /\ ddi.fl \notin held
  BY <1>1 DEF KernelReady, ClientsIInv, DdiPlaced, KernelStands, Doing
<1>3. PICK r : FDmxFlterInfo' = [FDmxFlterInfo EXCEPT ![ddi.fl] = r]
  BY DEF free_slot, SetInfo
<1>4. \A g \in held' : Active(g)' => StaysActive(g)
  <2> SUFFICES ASSUME NEW g \in held', Active(g)'
               PROVE  StaysActive(g)
    OBVIOUS
  <2>1. g # ddi.fl /\ g \in held
    BY <1>1, <1>2
  <2> QED BY <1>1, <1>2, <1>3, <2>1, ReadyFacts, OtherStays
<1> QED BY <1>1, <1>4, KernelFeeds

LEMMA BaseFeeds ==
    ASSUME KernelReady, ActiveFed, BaseWorks
    PROVE  ActiveFed'
<1>1. /\ CaClient /\ held \subseteq Filters
      /\ FDmxFlterInfo \in [Filters -> InfoRow]
  BY ReadyFacts DEF CaClient, BaseWorks
<1>2. /\ ddi'.at = "idle" /\ ddi.at = "idle" /\ held' = held
      /\ \A f \in held :
            /\ FDmxFlterInfo'[f].SlotId = FDmxFlterInfo[f].SlotId
            /\ FDmxFlterInfo'[f].FilterPID = FDmxFlterInfo[f].FilterPID
            /\ FDmxFlterInfo'[f].defined = FDmxFlterInfo[f].defined
            /\ FDmxFlterInfo'[f].bdmxactived => FDmxFlterInfo[f].bdmxactived
  BY <1>1, BaseFacts
<1>3. \A f \in held' : Active(f)' => StaysActive(f)
  BY <1>2 DEF Active, StaysActive, SameRow, SlotFor
<1> QED BY <1>1, <1>2, <1>3, KernelFeeds

LEMMA CaClientFeeds ==
    ASSUME KernelReady, Collected, ActiveFed, CaClient
    PROVE  ActiveFed'
BY AllocFeeds, SetFeeds, StartSlotFeeds, CountFeeds, StartFilterFeeds,
   StopFilterFeeds, StopSlotFeeds, FreeFilterFeeds, FreeSlotFeeds, BaseFeeds
   DEF CaClient, BaseWorks

-----------------------------------------------------------------------------
(* Only a start makes a slot collect, and what it collects is its row's.    *)
LEMMA CallsCollect ==
    ASSUME DemuxInv, NEW f, NEW c, Spares(f, c)
    PROVE  \A x \in SlotObject :
              \/ pti'.pid[x] \in {pti.pid[x], NoPid}
              \/ /\ SectionSlot' = SectionSlot
                 /\ \E s \in Slots : SectionSlot[s].SlotHandle = x
                                     /\ PidAt(s) = pti'.pid[x]
<1>1. ASSUME NEW s, NEW err, CH6_Start_Slot(s, err)
      PROVE  \A x \in SlotObject :
                \/ pti'.pid[x] \in {pti.pid[x], NoPid}
                \/ /\ SectionSlot' = SectionSlot
                   /\ \E t \in Slots : SectionSlot[t].SlotHandle = x
                                       /\ PidAt(t) = pti'.pid[x]
  <2> DEFINE h == SectionSlot[s].SlotHandle
             v == SectionSlot[s].PidValue
  <2>1. CASE UNCHANGED demuxVars
    BY <2>1 DEF demuxVars
  <2>2. CASE SlotTaken(s) /\ pti' = SlotSetPid(pti, h, v) /\ SectionSlot' = SectionSlot
    <3>1. h \in SlotObject /\ s \in Slots /\ v = PidAt(s)
      BY <2>2, TakenRows DEF DemuxInv, PidAt
    <3>2. pti \in PtiState
      BY DEF DemuxInv, DemuxTypeOK
    <3> SUFFICES ASSUME NEW x \in SlotObject
                 PROVE  pti'.pid[x] \in {pti.pid[x], NoPid} \/ (x = h /\ pti'.pid[x] = v)
      BY <2>2, <3>1
    <3> HIDE DEF h, v
    <3>3. SlotSetPid(pti, h, v).pid[x] \in {pti.pid[x], NoPid}
          \/ (x = h /\ SlotSetPid(pti, h, v).pid[x] = v)
      BY <3>1, <3>2 DEF SlotSetPid, PtiState
    <3> QED BY <2>2, <3>3
  <2> QED BY <1>1, <2>1, <2>2 DEF CH6_Start_Slot, Failed, SlotUsable
<1> QED BY <1>1, OnlyStartCollects DEF Spares

LEMMA FreedSlotCollectsNothing ==
    ASSUME DemuxInv, NEW s \in Slots, ~ SlotFree(s), CH6_Free_Section_Slot(s, FALSE)
    PROVE  pti'.pid[SectionSlot[s].SlotHandle] = NoPid
<1> DEFINE h == SectionSlot[s].SlotHandle
           b == SectionSlot[s].BufferHandle
<1>1. SlotTaken(s) /\ h \in SlotObject /\ b \in BufferObject /\ pti \in PtiState
  BY TakenRows DEF DemuxInv, DemuxTypeOK, SlotTaken
<1>2. pti' = SlotDeallocate(BufferDeallocate(pti, b), h)
  BY <1>1 DEF CH6_Free_Section_Slot
<1> HIDE DEF h, b
<1>3. NoPid \in Pid \cup {NoPid}
  OBVIOUS
<1>4. SlotDeallocate(BufferDeallocate(pti, b), h).pid[h] = NoPid
  BY <1>1, <1>3, SlotCalls
<1> QED BY <1>2, <1>4 DEF h

(* What becomes of a row in use.                                            *)
LEMMA MovesRows ==
    ASSUME DemuxTypeOK, SlotsDivided, Moves, NEW s \in Slots, ~ SlotFree(s)
    PROVE  SlotKept(s) \/ Destroys(s) \/ \E v : Marks(s, v)
<1>1. CASE Quietly
  BY <1>1 DEF Quietly, SlotsQuiet
<1>2. ASSUME NEW t, Creates(t) \/ Destroys(t) \/ \E v : Marks(t, v), t # s
      PROVE  SlotKept(s)
  <2>1. CASE Creates(t)
    <3>1. t \in Slots
      BY <2>1 DEF Creates
    <3> QED BY <1>2, <2>1, <3>1, NewSlotRow DEF Creates, OthersQuiet
  <2>2. CASE Destroys(t)
    <3>1. t \in Slots /\ ~ SlotFree(t)
      BY <2>2 DEF Destroys, SlotsDivided
    <3> QED BY <1>2, <2>2, <3>1, GoneRow DEF Destroys, OthersQuiet
  <2>3. ASSUME NEW v, Marks(t, v)
        PROVE  SlotKept(s)
    <3>1. t \in Slots
      BY <2>3 DEF Marks
    <3> QED BY <1>2, <2>3, <3>1, PidRow DEF Marks, OthersQuiet
  <2> QED BY <1>2, <2>1, <2>2, <2>3
<1>3. ~ Creates(s)
  BY NewSlotRow DEF Creates
<1>4. ASSUME NEW f, Leaves(f)
      PROVE  SlotKept(s)
  BY <1>4, LeavingKeepsSlots DEF Leaves
<1>5. ASSUME NEW f, NEW t, Joins(f, t)
      PROVE  SlotKept(s)
  BY <1>5, JoinedRow DEF Joins, RecountedAt
<1> QED BY <1>1, <1>2, <1>3, <1>4, <1>5 DEF Moves

LEMMA MovesSpare ==
    ASSUME Moves
    PROVE  \E f, c : Spares(f, c)
<1>1. CASE Quietly
  BY <1>1 DEF Quietly, SparesAll
<1>2. ASSUME NEW s, Creates(s)
      PROVE  \E f, c : Spares(f, c)
  <2>1. s \in SlotArg
    BY <1>2 DEF Creates, SlotArg
  <2> QED BY <1>2, <2>1 DEF Creates, Spares
<1>3. ASSUME NEW s, Destroys(s)
      PROVE  \E f, c : Spares(f, c)
  <2>1. PICK c \in {0, 1} : c # s
    OBVIOUS
  <2> QED BY <1>3, <2>1 DEF Destroys, Spares
<1>4. ASSUME NEW s, NEW v, Marks(s, v)
      PROVE  \E f, c : Spares(f, c)
  <2>1. s \in Slots /\ v \in Pid
    BY <1>4, EisDemuxAssumption, MgDmxFilterAssumption DEF Marks
  <2> QED BY <1>4, <2>1 DEF Marks, Spares
<1>5. ASSUME NEW f, Leaves(f)
      PROVE  \E g, c : Spares(g, c)
  <2>1. PICK g \in {0, 1} : g # f
    OBVIOUS
  <2> QED BY <1>5, <2>1 DEF Leaves, Spares
<1>6. ASSUME NEW f, NEW s, Joins(f, s)
      PROVE  \E g, c : Spares(g, c)
  BY <1>6 DEF Joins, Spares
<1> QED BY <1>1, <1>2, <1>3, <1>4, <1>5, <1>6 DEF Moves

LEMMA MovesCollect ==
    ASSUME DemuxInv, Apart, SlotsDivided, PidsDivided, Collected, Moves
    PROVE  Collected'
<1> SUFFICES ASSUME NEW x \in SlotObject, pti'.pid[x] \in CaPid
             PROVE  \E s \in Slots : SectionSlot'[s].SlotHandle = x
                                     /\ PidAt(s)' = pti'.pid[x]
  BY DEF Collected
<1>1. NoPid \notin CaPid /\ \A v \in BrowserPid : v \notin CaPid
  BY PidsApart
<1>2. \/ pti'.pid[x] = pti.pid[x]
      \/ /\ SectionSlot' = SectionSlot
         /\ \E s \in Slots : SectionSlot[s].SlotHandle = x
                             /\ PidAt(s) = pti'.pid[x]
  BY <1>1, MovesSpare, CallsCollect
<1>3. CASE /\ SectionSlot' = SectionSlot
           /\ \E s \in Slots : SectionSlot[s].SlotHandle = x
                               /\ PidAt(s) = pti'.pid[x]
  BY <1>3 DEF PidAt
<1>4. CASE pti'.pid[x] = pti.pid[x]
  <2>1. PICK s \in Slots : SectionSlot[s].SlotHandle = x /\ PidAt(s) = pti.pid[x]
    BY <1>4 DEF Collected
  <2>2. ~ SlotFree(s)
    BY <1>1, <1>4, <2>1 DEF PidsDivided
  <2>3. ~ Destroys(s)
    BY <1>1, <2>1, <2>2, FreedSlotCollectsNothing DEF Destroys
  <2>4. ASSUME NEW v, Marks(s, v) PROVE FALSE
    <3>1. s \notin BrowserSlots
      BY <1>1, <1>4, <2>1 DEF PidsDivided
    <3> QED BY <1>1, <1>4, <2>1, <2>4, <3>1 DEF Marks
  <2>5. SlotKept(s)
    BY <2>2, <2>3, <2>4, MovesRows DEF DemuxInv
  <2> QED BY <1>4, <2>1, <2>5 DEF SlotKept
<1> QED BY <1>2, <1>3, <1>4

-----------------------------------------------------------------------------
(* The browser's own slots keep a PID of the browser's.                     *)
LEMMA BrowserAimKept ==
    ASSUME DemuxTypeOK, Apart, SlotsDivided, PidsDivided, Moves,
           NEW s \in BrowserSlots, s \in BrowserSlots', PidAt(s) \in BrowserPid
    PROVE  PidAt(s)' \in BrowserPid
<1>1. s \in Slots /\ ~ SlotFree(s) /\ s \notin CaSlots
  BY DEF SlotsDivided
<1>2. ~ Destroys(s)
  BY DEF Destroys
<1>3. ASSUME NEW v, Marks(s, v)
      PROVE  PidAt(s)' \in BrowserPid
  BY <1>1, <1>3, PidRow DEF Marks
<1> QED BY <1>1, <1>2, <1>3, MovesRows DEF SlotKept

LEMMA KernelKeepsAims ==
    ASSUME KernelReady, BrowserAims, Moves, UNCHANGED clientVars
    PROVE  BrowserAims'
<1>1. /\ call' = call /\ channels' = channels /\ BrowserSlots' = BrowserSlots
      /\ DemuxTypeOK
  BY ReadyFacts DEF clientVars, BrowserSlots, At
<1>2. BrowserStarts => call.ch \in BrowserSlots
  BY DEF KernelReady, BrowserStands, BrowserSlots
<1>3. At("stop other") => call.other \in BrowserSlots
  <2> SUFFICES ASSUME At("stop other")
               PROVE  call.other \in BrowserSlots
    OBVIOUS
  <2>1. call.other \in Slots /\ PidAt(call.other) \in BrowserPid
    BY DEF BrowserAims
  <2>2. ~ SlotFree(call.other) /\ call.other \notin CaSlots
    BY <2>1, PidsApart DEF KernelReady, PidsDivided
  <2> QED BY <2>1, <2>2 DEF KernelReady, SlotsDivided
<1>4. \A s \in BrowserSlots : PidAt(s) \in BrowserPid => PidAt(s)' \in BrowserPid
  BY <1>1, BrowserAimKept DEF KernelReady
<1> QED BY <1>1, <1>2, <1>3, <1>4 DEF BrowserAims, BrowserStarts, At, PidAt

LEMMA BrowserTakesAim ==
    ASSUME KernelReady, BrowserAims, Browser
    PROVE  BrowserAims'
<1>1. /\ channels \subseteq BrowserSlots /\ Orderly /\ call \in Call
      /\ \A s \in BrowserSlots : PidAt(s) \in BrowserPid \cup {NoPid}
  BY DEF KernelReady, BrowserSlots, PidsDivided, ClientsIInv, ClientsInv, EisInv,
         EisTypeOK, Apart
<1>2. ASSUME ~ BrowserStarts' PROVE BrowserAims'
  BY <1>2 DEF BrowserAims, BrowserStarts, At
<1>3. /\ Idle.at = "idle"
      /\ \A a, c, f : CallAt(a, c, f).at = a /\ CallAt(a, c, f).ch = c
  BY DEF Idle, CallAt
<1>4. CASE \/ create_channel \/ set_channel_pid \/ create_filter_allocate
           \/ create_filter_associate \/ set_filter_get_pid \/ set_filter_set
           \/ enable_filter \/ disable_filter \/ destroy_filter
           \/ start_channel_return \/ start_channel_start_again
           \/ destroy_channel_stop \/ destroy_channel_free
  <2>1. \/ Return
        \/ \E a \in {"associate", "set", "started", "free"} : \E c, f :
              call' = CallAt(a, c, f)
        \/ call' = call /\ At("idle")
    <3>1. CASE \/ create_channel \/ set_channel_pid \/ enable_filter
               \/ disable_filter \/ destroy_filter
      BY <3>1 DEF create_channel, set_channel_pid, enable_filter, disable_filter,
                  destroy_filter, clientVars
    <3>2. CASE create_filter_allocate
      BY <3>2 DEF create_filter_allocate, Return
    <3>3. CASE \/ create_filter_associate \/ set_filter_set
               \/ start_channel_return \/ destroy_channel_free
      BY <3>3 DEF create_filter_associate, set_filter_set, start_channel_return,
                  destroy_channel_free
    <3>4. CASE \/ set_filter_get_pid \/ start_channel_start_again
               \/ destroy_channel_stop
      BY <3>4 DEF set_filter_get_pid, start_channel_start_again,
                  destroy_channel_stop, StartOk
    <3> QED BY <1>4, <3>1, <3>2, <3>3, <3>4
  <2>2. call'.at \in {"idle", "associate", "set", "started", "free"}
    BY <2>1 DEF Return, Idle, CallAt, At
  <2> QED BY <1>2, <2>2 DEF BrowserStarts
<1>5. CASE start_channel
  <2>1. PICK c \in channels :
           /\ PidAt(c) # NoPid
           /\ call' = CallAt("started", c, None) \/ call' = CallAt("start", c, None)
    BY <1>1, <1>5 DEF start_channel, StartOk, PidAt
  <2>2. PidAt(c) \in BrowserPid /\ PidAt(c)' = PidAt(c)
    BY <1>1, <1>5, <2>1 DEF start_channel, demuxVars, PidAt
  <2>3. call'.ch = c /\ call'.at \in {"started", "start"}
    BY <1>3, <2>1
  <2> QED BY <2>2, <2>3 DEF BrowserAims, BrowserStarts, At, PidAt
<1>6. CASE start_channel_start
  <2>1. SectionSlot' = SectionSlot /\ At("start")
    BY <1>6 DEF start_channel_start, CH6_Start_Slot, Failed, demuxVars
  <2>2. \/ call'.at = "started"
        \/ call'.at = "find other" /\ call'.ch = call.ch
    <3>1. StartOk(call.ch) \/ Goto("find other")
      BY <1>6 DEF start_channel_start
    <3>2. StartOk(call.ch) => call'.at = "started"
      BY DEF StartOk, CallAt
    <3>3. Goto("find other") => call'.at = "find other" /\ call'.ch = call.ch
      BY <1>1, CallMoves DEF Goto
    <3> QED BY <3>1, <3>2, <3>3
  <2> QED BY <2>1, <2>2 DEF BrowserAims, BrowserStarts, At, PidAt
<1>7. CASE start_channel_find_other
  <2>1. PICK o \in SlotArg :
           /\ CH6_FindOtherSlotByPID(call.ch, PidAt(call.ch), o)
           /\ IF o = None THEN StartOk(call.ch)
              ELSE call' = [call EXCEPT !.at = "stop other", !.other = o]
    BY <1>7 DEF start_channel_find_other, PidAt
  <2>2. SectionSlot' = SectionSlot /\ At("find other") /\ PidAt(call.ch) \in BrowserPid
    BY <1>7 DEF start_channel_find_other, demuxVars, BrowserAims, BrowserStarts, At
  <2>3. CASE o = None
    <3>1. call'.at = "started"
      BY <2>1, <2>3 DEF StartOk, CallAt
    <3>2. ~ BrowserStarts'
      BY <3>1 DEF BrowserStarts
    <3> QED BY <1>2, <3>2
  <2>4. CASE o # None
    <3>1. o \in Slots /\ PidAt(o) = PidAt(call.ch)
      <4>1. IsFirst(o, SlotsWithPid(PidAt(call.ch)) \ {call.ch})
        BY <2>1, <2>4 DEF CH6_FindOtherSlotByPID
      <4> QED BY <4>1 DEF IsFirst, SlotsWithPid, PidAt
    <3>2. call'.ch = call.ch /\ call'.other = o
      BY <1>1, <2>1, <2>4 DEF Call
    <3> QED BY <2>2, <3>1, <3>2 DEF BrowserAims, PidAt
  <2> QED BY <2>3, <2>4
<1>8. CASE start_channel_stop_other
  <2>1. SectionSlot' = SectionSlot /\ At("stop other")
    BY <1>8 DEF start_channel_stop_other, CH6_Stop_Slot, Failed, demuxVars
  <2>2. call'.at = "start again" /\ call'.ch = call.ch
    BY <1>1, <1>8, CallMoves DEF start_channel_stop_other, Goto
  <2> QED BY <2>1, <2>2 DEF BrowserAims, BrowserStarts, At, PidAt
<1> QED BY <1>4, <1>5, <1>6, <1>7, <1>8 DEF Browser

-----------------------------------------------------------------------------
LEMMA AccountsInit == ClientsInit => Accounts
<1> SUFFICES ASSUME ClientsInit PROVE Collected /\ BrowserAims /\ ActiveFed
  BY LedgerInit DEF Accounts
<1>1. /\ pti = PtiInit /\ call = Idle /\ held = {} /\ ddi = NoOperation
  BY DEF ClientsInit, EisInit, DemuxInit, MgInit
<1>2. call.at = "idle" /\ ddi.at = "idle"
  BY <1>1 DEF Idle, CallAt, NoOperation
<1>3. Collected
  BY <1>1, PtiAssumption, MgDmxFilterAssumption DEF Collected, PtiInit
<1>4. BrowserAims /\ ActiveFed
  BY <1>1, <1>2 DEF BrowserAims, BrowserStarts, ActiveFed, At, Doing
<1> QED BY <1>3, <1>4

LEMMA AccountsStep ==
    ASSUME Apart, ClientsIInv, DemuxInv, Accounts, [ClientsNext]_clientsVars
    PROVE  Accounts'
<1>1. Ledger /\ Collected /\ BrowserAims /\ ActiveFed
  BY DEF Accounts
<1>2. KernelReady
  BY <1>1 DEF KernelReady, Ledger
<1>3. Ledger'
  BY <1>1, LedgerStep
<1>4. Moves => Collected'
  BY <1>1, <1>2, MovesCollect DEF KernelReady
<1>5. CASE Browser /\ UNCHANGED mgVars
  <2>1. Moves
    BY <1>2, <1>5, BrowserLedger DEF BrowserPart, KernelReady
  <2>2. BrowserAims'
    BY <1>1, <1>2, <1>5, BrowserTakesAim
  <2>3. ActiveFed'
    BY <1>1, <1>2, <1>5, BrowserFeeds
  <2> QED BY <1>3, <1>4, <2>1, <2>2, <2>3 DEF Accounts
<1>6. CASE CaClient /\ UNCHANGED clientVars
  <2>1. Moves
    BY <1>2, <1>6, KernelLedger DEF KernelPart
  <2>2. BrowserAims'
    BY <1>1, <1>2, <1>6, <2>1, KernelKeepsAims
  <2>3. ActiveFed'
    BY <1>1, <1>2, <1>6, CaClientFeeds
  <2> QED BY <1>3, <1>4, <2>1, <2>2, <2>3 DEF Accounts
<1>7. CASE UNCHANGED clientsVars
  <2>1. /\ UNCHANGED <<SectionSlot, SectionFilter, pti>>
        /\ UNCHANGED <<call, channels, channelOf>>
        /\ UNCHANGED <<FDmxFlterInfo, ddi, held>>
    BY <1>7 DEF clientsVars, eisVars, demuxVars, clientVars, mgVars
  <2>2. \A s : PidAt(s)' = PidAt(s)
    BY <2>1 DEF PidAt
  <2>3. Collected' /\ BrowserAims'
    BY <1>1, <2>1, <2>2 DEF Collected, BrowserAims, BrowserStarts, At
  <2>4. \A f : (Runs(f)' <=> Runs(f)) /\ (Armed(f)' <=> Armed(f))
    BY <2>1 DEF Runs, Armed
  <2>5. ActiveFed'
    BY <1>1, <2>1, <2>4 DEF ActiveFed, Doing, Info
  <2> QED BY <1>3, <2>3, <2>5 DEF Accounts
<1> QED BY <1>5, <1>6, <1>7 DEF ClientsNext

LEMMA AccountsFeed ==
    ASSUME ClientsIInv, DemuxInv, Accounts
    PROVE  RunningIsFed
<1> SUFFICES ASSUME NEW f \in held, FDmxFlterInfo[f].bdmxactived
             PROVE  /\ Linked(pti, SectionFilter[f].FilterHandle,
                                   SectionSlot[FDmxFlterInfo[f].SlotId].SlotHandle)
                    /\ SectionFilter[f].FilterHandle \in pti.enabled
                    /\ pti.pid[SectionSlot[FDmxFlterInfo[f].SlotId].SlotHandle]
                         = FDmxFlterInfo[f].FilterPID
  BY DEF RunningIsFed
<1>1. FDmxFlterInfo[f].defined /\ Armed(f) /\ Runs(f)
  BY DEF Accounts, ActiveFed
<1>2. f \in Filters /\ SlotOf(f) = FDmxFlterInfo[f].SlotId
  BY <1>1 DEF ClientsIInv, ClientsInv, MgTypeOK, SlotOf
<1>3. FDmxFlterInfo[f].SlotId # None
  BY <1>1 DEF Accounts, Ledger, KernelStands
<1>4. Linked(pti, SectionFilter[f].FilterHandle,
                  SectionSlot[FDmxFlterInfo[f].SlotId].SlotHandle)
  BY <1>2, <1>3 DEF Accounts, Ledger, LinksMeant
<1> QED BY <1>1, <1>4 DEF Armed, Runs

(* Both clients' books agree with the tables and the driver, at every step   *)
(* of every operation, if the browser destroys a channel's filters before    *)
(* the channel, the driver refuses the kernel no association, the clients    *)
(* use PIDs of their own, and a count cannot wrap.                          *)
THEOREM AccountsInvariant ==
    Apart => (ClientsSpec => [](Accounts /\ ClientsIInv /\ DemuxInv))
<1> SUFFICES ASSUME Apart
             PROVE  ClientsSpec => [](Accounts /\ ClientsIInv /\ DemuxInv)
  OBVIOUS
<1>1. ClientsInit => Accounts /\ ClientsIInv /\ DemuxInv
  BY AccountsInit, ClientsInitInv DEF Apart
<1>2. Accounts /\ ClientsIInv /\ DemuxInv /\ [ClientsNext]_clientsVars
      => (Accounts /\ ClientsIInv /\ DemuxInv)'
  BY AccountsStep, ClientsStep
<1> QED BY <1>1, <1>2, PTL DEF ClientsSpec

(* No slot of one client's is freed or taken over by the other.             *)
THEOREM SlotsStayDivided == Apart => (ClientsSpec => []SlotsDivided)
<1> SUFFICES ASSUME Apart
             PROVE  ClientsSpec => []SlotsDivided
  OBVIOUS
<1>1. Accounts => SlotsDivided
  BY DEF Accounts, Ledger
<1>2. ClientsSpec => [](Accounts /\ ClientsIInv /\ DemuxInv)
  BY AccountsInvariant
<1> QED BY <1>1, <1>2, PTL

(* A slot's FilterCount is the number of associations the driver has for it, *)
(* so it is zero exactly when the last filter was freed.                     *)
THEOREM CountsStayRight == Apart => (ClientsSpec => []CountIsAssociations)
<1> SUFFICES ASSUME Apart
             PROVE  ClientsSpec => []CountIsAssociations
  OBVIOUS
<1>1. Accounts /\ ClientsIInv /\ DemuxInv => CountIsAssociations
  BY CountsAssociations DEF Accounts, Ledger
<1>2. ClientsSpec => [](Accounts /\ ClientsIInv /\ DemuxInv)
  BY AccountsInvariant
<1> QED BY <1>1, <1>2, PTL

(* A filter the kernel started goes on matching on a slot that collects its  *)
(* PID, until the kernel itself stops it.                                    *)
THEOREM RunningStaysFed == Apart => (ClientsSpec => []RunningIsFed)
<1> SUFFICES ASSUME Apart
             PROVE  ClientsSpec => []RunningIsFed
  OBVIOUS
<1>1. Accounts /\ ClientsIInv /\ DemuxInv => RunningIsFed
  BY AccountsFeed
<1>2. ClientsSpec => [](Accounts /\ ClientsIInv /\ DemuxInv)
  BY AccountsInvariant
<1> QED BY <1>1, <1>2, PTL
=============================================================================
