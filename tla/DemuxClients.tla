---------------------------- MODULE DemuxClients ----------------------------
(***************************************************************************)
(* The two clients of the section tables together: the browser's thread     *)
(* (EisDemux) and the conditional-access kernel (MgDmxFilter).  They share  *)
(* the tables and the driver, and no lock above the tables': any CH6_ call  *)
(* of one may come between two of the other's.                              *)
(***************************************************************************)
EXTENDS EisDemux, MgDmxFilter

clientsVars == <<eisVars, mgVars>>

ClientsInit == EisInit /\ MgInit

ClientsNext == \/ Browser /\ UNCHANGED mgVars
               \/ CaClient /\ UNCHANGED clientVars

ClientsSpec == ClientsInit /\ [][ClientsNext]_clientsVars

-----------------------------------------------------------------------------
(* What a client is about to associate carries no slot of an earlier use,   *)
(* unless the kernel sets again what StopAllEcmFilter took out of use.      *)
ClientsInv ==
    /\ EisInv
    /\ MgTypeOK
    /\ \A f \in held : ~ FDmxFlterInfo[f].defined => NotYetAssociated(f)

(* A filter in use is not both clients', and no client still uses one that  *)
(* was freed, wherever their operations stand: the index is all that        *)
(* either of them keeps.                                                   *)
FiltersDivided ==
    /\ \A f \in held \cup BrowserFilters : ~ FilterFree(f)
    /\ held \cap BrowserFilters = {}
    /\ At("associate") => /\ call.fl \in Filters \ held
                          /\ ~ FilterFree(call.fl)
    /\ ~ Doing("idle") /\ ~ Doing("free slot") => ddi.fl \in held

(* Together, too, the clients associate a filter once after its allocation, *)
(* so that the tables' invariants hold for the system of both; not if the   *)
(* kernel sets a dropped filter again.                                      *)
ClientsImplementDemux == DemuxSpec

(* A slot in use belongs to one client: neither loses a slot, and neither   *)
(* frees or takes over the other's, although MGDDISrcSetDmxFltr takes any   *)
(* row with its PID and MGDDISrcFreeDmxFltr frees by a count.               *)
BrowserSlots == channels \cup IF At("free") THEN {call.ch} ELSE {}

SlotsDivided ==
    /\ {s \in Slots : ~ SlotFree(s)} = BrowserSlots \cup CaSlots
    /\ BrowserSlots \cap CaSlots = {}

(* What the kernel was told is running does run: a started filter of its    *)
(* is armed and linked to a slot that collects its PID, whatever the        *)
(* browser and the kernel's other filters on that slot were doing since,    *)
(* those that StopAllEcmFilter has taken out of use among them.             *)
(* eis_api_demux.c:296 and :339 say the browser leaves the CAT's slot alone *)
(* to avoid a conflict with the conditional access.                         *)
RunningIsFed ==
    \A f \in held : FDmxFlterInfo[f].bdmxactived =>
        LET fh == SectionFilter[f].FilterHandle
            s  == FDmxFlterInfo[f].SlotId
        IN  /\ Linked(pti, fh, SectionSlot[s].SlotHandle)
            /\ fh \in pti.enabled
            /\ pti.pid[SectionSlot[s].SlotHandle] = FDmxFlterInfo[f].FilterPID

(* Who owns what, in full, and why SlotsDivided, CountIsAssociations and     *)
(* RunningIsFed hold.  SlotOf is the slot a client means its filter to be   *)
(* on; the driver's links and the rows' counts are exactly these.           *)
SlotOf(f) ==
    IF f \in held /\ FDmxFlterInfo[f].defined THEN FDmxFlterInfo[f].SlotId
    ELSE IF channelOf[f] \in Slots THEN channelOf[f] ELSE None

On(s) == {f \in Filters : SlotOf(f) = s}

PidAt(s) == SectionSlot[s].PidValue

LinksMeant ==
    \A f \in Filters :
        IF SlotOf(f) = None THEN NotYetAssociated(f)
        ELSE Linked(pti, SectionFilter[f].FilterHandle,
                         SectionSlot[SlotOf(f)].SlotHandle)

CountsMeant ==
    \A s \in Slots : ~ SlotFree(s) =>
        SectionSlot[s].FilterCount = Cardinality(On(s))

(* The kernel finds a row by its PID and never one of the browser's, and    *)
(* two rows never have the same PID of the kernel's.                       *)
PidsDivided ==
    /\ \A s \in Slots : SlotFree(s) => PidAt(s) = NoPid
    /\ \A s \in BrowserSlots : PidAt(s) \in BrowserPid \cup {NoPid}
    /\ \A s \in CaSlots : PidAt(s) \in CaPid \cup {NoPid}
    /\ \A s, t \in Slots : PidAt(s) = PidAt(t) /\ PidAt(s) \in CaPid => s = t

(* Where the browser's call stands, in its own state alone.                 *)
BrowserStarts == call.at \in {"start", "find other", "stop other", "start again"}

BrowserStands ==
    /\ At("free") => call.ch \in Slots \ channels
    /\ At("associate") \/ BrowserStarts => call.ch \in channels
    /\ \A f \in Filters : channelOf[f] \in channels \cup {NoFilter}

(* Where the kernel's operation stands: a filter has a slot while it is     *)
(* associated or being set, a slot is stopped or freed only for its last    *)
(* filter.                                                                 *)
Setting == ddi.at \in {"set pid", "set", "associate"}

KernelStands ==
    /\ \A f \in held : FDmxFlterInfo[f].SlotId # None <=>
                          FDmxFlterInfo[f].defined \/ (Setting /\ f = ddi.fl)
    /\ ddi.at \in {"start", "stop", "stop slot", "free"} => Info.defined
    /\ Doing("free slot") => ddi.fl \notin held /\ Slot # None
    /\ ddi.at \in {"stop slot", "free slot"} =>
          \A g \in held \ {ddi.fl} : FDmxFlterInfo[g].SlotId # Slot

(* What it read of the tables still holds.                                  *)
KernelKnows ==
    /\ \A f \in held :
          FDmxFlterInfo[f].SlotId # None /\ ~ (Doing("set pid") /\ f = ddi.fl) =>
            /\ PidAt(FDmxFlterInfo[f].SlotId) = FDmxFlterInfo[f].FilterPID
            /\ FDmxFlterInfo[f].FilterPID \in CaPid
    /\ Doing("set pid") => PidAt(Slot) = NoPid
    /\ ddi.at \in {"allocate", "set pid"} =>
          \A s \in Slots : PidAt(s) # Info.FilterPID
    /\ ddi.at \in {"stop", "free"} => ddi.count = SectionSlot[Slot].FilterCount

Ledger == /\ SlotsDivided /\ LinksMeant /\ CountsMeant /\ PidsDivided
          /\ BrowserStands /\ KernelStands /\ KernelKnows

(* A slot object that collects a PID of the kernel's is the one whose row   *)
(* has that PID, so the driver never refuses the kernel's start.            *)
Collected ==
    \A h \in SlotObject : pti.pid[h] \in CaPid =>
        \E s \in Slots : SectionSlot[s].SlotHandle = h /\ PidAt(s) = pti.pid[h]

(* What start_channel starts, and stops to make room, is the browser's.     *)
BrowserAims ==
    /\ BrowserStarts => PidAt(call.ch) \in BrowserPid
    /\ At("stop other") => call.other \in Slots /\ PidAt(call.other) \in BrowserPid

Runs(f)  == pti.pid[SectionSlot[FDmxFlterInfo[f].SlotId].SlotHandle] =
              FDmxFlterInfo[f].FilterPID

Armed(f) == SectionFilter[f].FilterHandle \in pti.enabled

ActiveFed ==
    /\ \A f \in held : FDmxFlterInfo[f].bdmxactived =>
          FDmxFlterInfo[f].defined /\ Armed(f) /\ Runs(f)
    /\ Doing("start") => Runs(ddi.fl)
    /\ Doing("stop slot") => ~ Info.bdmxactived

(* At every point of both clients' operations, rows, links, counts, PIDs    *)
(* and what the driver collects are what the two clients, taken together,   *)
(* mean them to be: the invariant from which the three above follow.        *)
Accounts == Ledger /\ Collected /\ BrowserAims /\ ActiveFed

(* What Accounts needs: the browser's legal order of calls, a driver that   *)
(* never refuses the kernel's association, a kernel that frees what          *)
(* StopAllEcmFilter took out of use before it sets it again, no PID of both *)
(* clients, and more values of FilterCount (256) than there are filters     *)
(* (32).                                                                   *)
Apart == /\ Orderly /\ ~ AssociationFails /\ ~ SetsAgain
         /\ BrowserPid \cap CaPid = {}
         /\ CountMod > MaxFilter
=============================================================================
