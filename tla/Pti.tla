-------------------------------- MODULE Pti --------------------------------
(***************************************************************************)
(* The ST packet-transport-interface driver as the section code uses it    *)
(* (src/apilib/src/stpti4).  Every STPTI_ call runs under stpti_MemoryLock, *)
(* so a call is one atomic step; a CH6_ operation makes several calls under *)
(* its own lock, so a call is a function from driver state to driver state  *)
(* and an operation composes them.                                         *)
(*                                                                         *)
(* The driver state is a record:                                           *)
(*   slots, buffers, filters   the allocated objects                       *)
(*   pid      what each slot object collects (NoPid: nothing)              *)
(*   links    the <<filter, slot>> associations                            *)
(*   enabled  the filters whose match is active                            *)
(***************************************************************************)
CONSTANTS SlotObject, BufferObject, FilterObject, Pid, NoHandle, NoPid

ASSUME PtiAssumption ==
    /\ NoHandle \notin SlotObject \cup BufferObject \cup FilterObject
    /\ NoPid \notin Pid

PtiState == [slots   : SUBSET SlotObject,
             buffers : SUBSET BufferObject,
             filters : SUBSET FilterObject,
             pid     : [SlotObject -> Pid \cup {NoPid}],
             links   : SUBSET (FilterObject \X SlotObject),
             enabled : SUBSET FilterObject]

PtiInit == [slots   |-> {},
            buffers |-> {},
            filters |-> {},
            pid     |-> [h \in SlotObject |-> NoPid],
            links   |-> {},
            enabled |-> {}]

SlotAllocate(p, h)   == [p EXCEPT !.slots = @ \cup {h}]

BufferAllocate(p, b) == [p EXCEPT !.buffers = @ \cup {b}]

FilterAllocate(p, f) == [p EXCEPT !.filters = @ \cup {f}]

(* Deallocation is forced: whatever was still associated is dissociated.   *)
(* Mutant: the associations survive the slot.                              *)
SlotForgotten(p, h) ==
    [p EXCEPT !.slots = @ \ {h},
              !.pid   = [x \in SlotObject |-> IF x = h THEN NoPid ELSE @[x]]]

SlotDeallocate(p, h) ==
    [p EXCEPT !.slots = @ \ {h},
              !.pid   = [x \in SlotObject |-> IF x = h THEN NoPid ELSE @[x]],
              !.links = {l \in @ : l[2] # h}]

BufferDeallocate(p, b) == [p EXCEPT !.buffers = @ \ {b}]

FilterDeallocate(p, f) ==
    [p EXCEPT !.filters = @ \ {f},
              !.links   = {l \in @ : l[1] # f},
              !.enabled = @ \ {f}]

FilterAssociate(p, f, h)    == [p EXCEPT !.links = @ \cup {<<f, h>>}]

(* STPTI_FilterDisassociate fails, changing nothing, without the link.      *)
FilterDisassociate(p, f, h) == [p EXCEPT !.links = @ \ {<<f, h>>}]

Linked(p, f, h) == <<f, h>> \in p.links

(* STPTI_FilterSet arms the filter with InitialStateEnabled (always true in *)
(* this code); STPTI_ModifyGlobalFilterState arms or disarms it.            *)
FilterEnable(p, f)  == [p EXCEPT !.enabled = @ \cup {f}]

FilterDisable(p, f) == [p EXCEPT !.enabled = @ \ {f}]

SlotClearPid(p, h)  ==
    [p EXCEPT !.pid = [x \in SlotObject |-> IF x = h THEN NoPid ELSE @[x]]]

(* STPTI_SlotSetPid: refused for an invalid PID and for the PID the slot    *)
(* already collects.  Otherwise the old PID is dropped first, and the call  *)
(* still fails when another slot collects the new one.                      *)
CollectedElsewhere(p, h, v) == \E g \in SlotObject \ {h} : p.pid[g] = v

SetPidOk(p, h, v) ==
    v \in Pid /\ p.pid[h] # v /\ ~ CollectedElsewhere(p, h, v)

SlotSetPid(p, h, v) ==
    IF v = NoPid \/ p.pid[h] = v
    THEN p
    ELSE [p EXCEPT !.pid =
            [x \in SlotObject |->
               IF x # h THEN @[x]
               ELSE IF CollectedElsewhere(p, h, v) THEN NoPid ELSE v]]
=============================================================================
