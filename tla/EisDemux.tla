------------------------------ MODULE EisDemux ------------------------------
(***************************************************************************)
(* The browser's demultiplexer interface, src/chsrc/eis/eis_api_demux.c,    *)
(* over the tables of ChDemux.                                             *)
(*                                                                         *)
(* The browser thread calls ipanel_porting_demux_ functions; each is a      *)
(* sequence of CH6_ calls and the table lock is free between them, so each  *)
(* CH6_ call is an action and `call' says where the thread is.  EisMonitor  *)
(* adds the thread that delivers the sections.                             *)
(*                                                                         *)
(* A channel is handed out as its slot index plus one, a filter as its      *)
(* filter index plus one; the model keeps the indexes, and None stands for  *)
(* the 0 (IPANEL_NULL) they become.  The audio, video and PCR channel       *)
(* numbers are constants that touch no table and are left out.             *)
(***************************************************************************)
EXTENDS ChDemux

CONSTANTS CatPid,       \* PID 1, which the browser must leave to the CA
          BrowserPid,   \* the PIDs the browser sets its channels to
          EisSlotSum,   \* EIS_SLOT_SUM (32), the length of eis_slot_state
          Orderly       \* the browser sets a channel's PID before starting it
                        \* and destroys its filters before destroying it

ASSUME EisDemuxAssumption == /\ CatPid # NoPid
                             /\ BrowserPid \subseteq Pid
                             /\ EisSlotSum \in Nat \ {0}
                             /\ Orderly \in BOOLEAN

VARIABLES eis_slot_state,   \* the started flags
          call,             \* where the browser thread is
          channels,         \* the channels the browser was given
          channelOf         \* the channel each of its filters was created on

clientVars == <<eis_slot_state, call, channels, channelOf>>

eisVars == <<SectionSlot, SectionFilter, pti, eis_slot_state, call, channels,
             channelOf>>

(* channelOf of a filter that is not the browser's, and of one whose        *)
(* channel has been destroyed.                                             *)
NoFilter == -2
Orphan   == -3

CallAt(place, c, f) == [at |-> place, ch |-> c, fl |-> f, other |-> None]

Idle == CallAt("idle", None, None)

EisInit ==
    /\ DemuxInit
    /\ eis_slot_state = [s \in Slots |-> FALSE]
    /\ call = Idle
    /\ channels = {}
    /\ channelOf = [f \in Filters |-> NoFilter]

(* The array is shorter than the slot table.  A write past its end lands in *)
(* the filter flags, which nothing reads; a read yields anything.           *)
WriteState(c, v) ==
    eis_slot_state' = IF c < EisSlotSum
                      THEN [eis_slot_state EXCEPT ![c] = v]
                      ELSE eis_slot_state

ReadState(c, v) == c < EisSlotSum => v = eis_slot_state[c]

At(place)   == call.at = place
Goto(place) == call' = [call EXCEPT !.at = place]
Return      == call' = Idle

-----------------------------------------------------------------------------
(* The browser thread *)

create_channel ==
    /\ At("idle")
    /\ \E c \in SlotArg :
          /\ CH6_Allocate_Section_Slot(c)
          /\ IF c = None
             THEN UNCHANGED <<channels, eis_slot_state>>
             ELSE channels' = channels \cup {c} /\ WriteState(c, FALSE)
    /\ UNCHANGED <<call, channelOf>>

set_channel_pid ==
    /\ At("idle")
    /\ \E c \in channels, v \in BrowserPid : CH6_Set_Slot_Pid(c, v, FALSE)
    /\ UNCHANGED clientVars

(* create_filter allocates, then associates; when the association fails the *)
(* filter is not freed and the browser gets IPANEL_NULL.                    *)
create_filter_allocate ==
    /\ At("idle")
    /\ \E c \in channels, f \in FilterArg :
          /\ CH6_Allocate_Section_Filter(f)
          /\ call' = IF f = None THEN Idle
                     ELSE CallAt("associate", c, f)
    /\ UNCHANGED <<eis_slot_state, channels, channelOf>>

(* Mutants: the result is not tested; the filter index is not kept.         *)
UntestedOwner(c, err) == c
CreatedOn(c, err)     == IF err THEN NoFilter ELSE c

FirstFilter(f)   == 0
CreatedFilter(f) == f

create_filter_associate ==
    /\ At("associate")
    /\ \E err \in BOOLEAN :
          /\ CH6_Associate_Slot_Filter(call.ch, CreatedFilter(call.fl), err)
          /\ channelOf' = [channelOf EXCEPT ![call.fl] = CreatedOn(call.ch, err)]
    /\ Return
    /\ UNCHANGED <<eis_slot_state, channels>>

BrowserFilters == {f \in Filters : channelOf[f] # NoFilter}

(* set_filter leaves a filter on the CAT channel alone.  A filter whose     *)
(* channel is gone is set as long as the number passed for it is no CAT     *)
(* channel's.                                                              *)
set_filter_get_pid ==
    /\ At("idle")
    /\ \E c \in channels, f \in BrowserFilters :
          /\ SectionSlot[c].PidValue # CatPid
          /\ call' = CallAt("set", c, f)
    /\ UNCHANGED <<demuxVars, eis_slot_state, channels, channelOf>>

set_filter_set ==
    /\ At("set")
    /\ \E err \in BOOLEAN : CH6_Set_Filter(call.fl, err)
    /\ Return
    /\ UNCHANGED <<eis_slot_state, channels, channelOf>>

enable_filter ==
    /\ At("idle")
    /\ \E f \in BrowserFilters, err \in BOOLEAN : CH6_Start_Filter(f, err)
    /\ UNCHANGED clientVars

disable_filter ==
    /\ At("idle")
    /\ \E f \in BrowserFilters, err \in BOOLEAN : CH6_Stop_Filter(f, err)
    /\ UNCHANGED clientVars

destroy_filter ==
    /\ At("idle")
    /\ \E f \in BrowserFilters :
          /\ CH6_Free_Section_Filter(f, FALSE)
          /\ channelOf' = [channelOf EXCEPT ![f] = NoFilter]
    /\ UNCHANGED <<eis_slot_state, call, channels>>

(* start_channel returns at once when its flag is set, and only sets the    *)
(* flag for the CAT.  Every path ends with IPANEL_OK.  Mutant: the CAT      *)
(* channel is started like any other.                                      *)
NeverCat(v) == FALSE
IsCat(v)    == v = CatPid

StartOk(c) == call' = CallAt("started", c, None)

start_channel ==
    /\ At("idle")
    /\ \E c \in channels, started \in BOOLEAN :
          /\ Orderly => SectionSlot[c].PidValue # NoPid
          /\ ReadState(c, started)
          /\ \/ started /\ StartOk(c) /\ UNCHANGED eis_slot_state
             \/ /\ ~ started /\ IsCat(SectionSlot[c].PidValue)
                /\ WriteState(c, TRUE)
                /\ StartOk(c)
             \/ /\ ~ started /\ ~ IsCat(SectionSlot[c].PidValue)
                /\ call' = CallAt("start", c, None)
                /\ UNCHANGED eis_slot_state
    /\ UNCHANGED <<demuxVars, channels, channelOf>>

start_channel_start ==
    /\ At("start")
    /\ \E err \in BOOLEAN :
          /\ CH6_Start_Slot(call.ch, err)
          /\ IF err THEN Goto("find other") /\ UNCHANGED eis_slot_state
                    ELSE StartOk(call.ch) /\ WriteState(call.ch, TRUE)
    /\ UNCHANGED <<channels, channelOf>>

(* The PID is taken: the first other slot row with this PID is stopped and  *)
(* the start tried again.  Neither call's result is looked at and no flag   *)
(* is written.                                                             *)
start_channel_find_other ==
    /\ At("find other")
    /\ \E other \in SlotArg :
          /\ CH6_FindOtherSlotByPID(call.ch, SectionSlot[call.ch].PidValue, other)
          /\ IF other = None
             THEN StartOk(call.ch)
             ELSE call' = [call EXCEPT !.at = "stop other", !.other = other]
    /\ UNCHANGED <<demuxVars, eis_slot_state, channels, channelOf>>

start_channel_stop_other ==
    /\ At("stop other")
    /\ \E err \in BOOLEAN : CH6_Stop_Slot(call.other, err)
    /\ Goto("start again")
    /\ UNCHANGED <<eis_slot_state, channels, channelOf>>

start_channel_start_again ==
    /\ At("start again")
    /\ \E err \in BOOLEAN : CH6_Start_Slot(call.ch, err)
    /\ StartOk(call.ch)
    /\ UNCHANGED <<eis_slot_state, channels, channelOf>>

start_channel_return ==
    /\ At("started")
    /\ Return
    /\ UNCHANGED <<demuxVars, eis_slot_state, channels, channelOf>>

(* stop_channel returns IPANEL_OK and does nothing: no action.              *)

destroy_channel_stop ==
    /\ At("idle")
    /\ \E c \in channels :
          /\ Orderly => \A f \in Filters : channelOf[f] # c
          /\ \E err \in BOOLEAN : CH6_Stop_Slot(c, err)
          /\ call' = CallAt("free", c, None)
          /\ channels' = channels \ {c}
    /\ UNCHANGED <<eis_slot_state, channelOf>>

(* Mutant: the channel number itself for the slot index.                    *)
ChannelNumber(c) == c + 1
SlotToFree(c)    == c

destroy_channel_free ==
    /\ At("free")
    /\ \E err \in BOOLEAN : CH6_Free_Section_Slot(SlotToFree(call.ch), err)
    /\ channelOf' = [f \in Filters |-> IF channelOf[f] = call.ch THEN Orphan
                                       ELSE channelOf[f]]
    /\ Return
    /\ UNCHANGED <<eis_slot_state, channels>>

-----------------------------------------------------------------------------
Browser ==
    \/ create_channel \/ set_channel_pid
    \/ create_filter_allocate \/ create_filter_associate
    \/ set_filter_get_pid \/ set_filter_set
    \/ enable_filter \/ disable_filter \/ destroy_filter
    \/ start_channel \/ start_channel_start \/ start_channel_find_other
    \/ start_channel_stop_other \/ start_channel_start_again
    \/ start_channel_return
    \/ destroy_channel_stop \/ destroy_channel_free

EisSpec == EisInit /\ [][Browser]_eisVars

-----------------------------------------------------------------------------
Place == {"idle", "associate", "set", "start", "find other", "stop other",
          "start again", "started", "free"}

Call == [at : Place, ch : SlotArg, fl : FilterArg, other : SlotArg]

EisTypeOK ==
    /\ eis_slot_state \in [Slots -> BOOLEAN]
    /\ call \in Call
    /\ channels \in SUBSET Slots
    /\ channelOf \in [Filters -> Slots \cup {NoFilter, Orphan}]

(* A filter row the next association may take carries no slot of an earlier *)
(* use: FREE rows, and the row create_filter holds between its two calls.   *)
EisInv ==
    /\ EisTypeOK
    /\ \A f \in Filters :
          FilterFree(f) \/ (At("associate") /\ call.fl = f) => NotYetAssociated(f)

(* The browser client calls the tables only as ChDemux allows it to, so all *)
(* that holds of DemuxSpec holds here.                                     *)
EisImplementsDemux == DemuxSpec

(* Between calls, a slot row is in use exactly when the browser holds its   *)
(* channel: none is lost and none is pulled from under it.                  *)
ChannelsAreSlots ==
    {s \in Slots : ~ SlotFree(s)} =
        channels \cup IF At("free") THEN {call.ch} ELSE {}

(* A filter the browser was given stays attached, in the driver, to the     *)
(* channel it was created on until one of the two is destroyed, whatever    *)
(* else is created, destroyed and recreated meanwhile.                      *)
FiltersAttached ==
    \A f \in Filters : channelOf[f] \in Slots =>
        Linked(pti, SectionFilter[f].FilterHandle,
                    SectionSlot[channelOf[f]].SlotHandle)

(* The CAT is the conditional-access client's (comments at                  *)
(* eis_api_demux.c:296 and :339): the browser never makes the driver        *)
(* collect it, on no path of start_channel.                                 *)
CatLeftAlone == \A h \in SlotObject : pti.pid[h] # CatPid
=============================================================================
