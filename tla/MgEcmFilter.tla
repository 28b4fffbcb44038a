---------------------------- MODULE MgEcmFilter ----------------------------
(***************************************************************************)
(* How a control word message (ECM) reaches the conditional-access kernel:  *)
(* ChDmux.c, ChProg.c and the filter operations of MgSSourceDrv.c.          *)
(*                                                                          *)
(* An ECM carries the key of the current or of the next period, in tables   *)
(* of two parities that are broadcast in turn, each of them repeated until  *)
(* the other begins.  A captured section locks its filter; the ECM thread   *)
(* takes the section, programs the filter for the other parity, unlocks it  *)
(* and calls the kernel.  A filter that stayed locked would starve the      *)
(* descrambler.                                                             *)
(*                                                                          *)
(* A step on the filters' data holds the semaphore of                       *)
(* CHCA_SectionDataAccess_Lock, the kernel's operations included; so does   *)
(* the capturing thread while it waits for a message, which only the ECM    *)
(* thread gives back.  Every filter has a slot of its own here; the tables  *)
(* behind the operations are the subject of MgDmxFilter.                    *)
(***************************************************************************)
EXTENDS Integers, Sequences, FiniteSets

CONSTANTS
    Filter,         \* the kernel's demultiplexer filters for ECMs
    MaxMessage,     \* messages of pstCHCAECMMsgQueue
    Pattern,        \* the parities the kernel may ask for
    NoFilter

ASSUME EcmMessageAssumption == MaxMessage \in Nat \ {0}
ASSUME EcmFilterAssumption == NoFilter \notin Filter
ASSUME PatternAssumption == Pattern \subseteq SUBSET {0, 1}

VARIABLES
    row,        \* what the kernel has done with the filter, up to FilterType
    wants,      \* the parities its match pattern accepts
    running,    \* filters the driver has armed
    active,     \* bdmxactived
    Lock,       \* filters with Lock set
    notify,     \* filters with a cMgDataNotify
    DataBuffer, \* the parity of the section in the filter's buffer
    messages,   \* pstCHCAECMMsgQueue: the filters the sent messages name
    capture,    \* ChDVBCASectionFilterMonitor: at, and what it has read
    ecm,        \* ChDVBECMMonitor: at, filter, parity (ECM_Buffer)
    bCardReady

filters == <<row, wants, running, active, Lock, notify>>
ecmVars == <<filters, DataBuffer, messages, capture, ecm, bCardReady>>

Parity == {0, 1}        \* the table identifiers 0x80 and 0x81

(* "dropped": StopAllEcmFilter has forgotten a filter that has its slot.   *)
Row == {"free", "allocated", "set", "dropped"}
HasSlot(f) == row[f] \in {"set", "dropped"}

(* The ECM thread gives a message back when it is done with it.            *)
Claimed == Len(messages) + IF ecm.at = "receive" THEN 0 ELSE 1

(* Mutant: messages that are being worked on are not counted.              *)
UncountedSend == Len(messages) < MaxMessage

CanSend == Claimed < MaxMessage

SectionDataFree == capture.at # "claim"

AwaitsSection(f, p) == [at |-> "wait", filter |-> f, parity |-> p]
AwaitsMessage == [ecm EXCEPT !.at = "receive"]

EcmInit ==
    /\ row = [f \in Filter |-> "free"]
    /\ wants = [f \in Filter |-> Parity]
    /\ running = {} /\ active = {} /\ Lock = {} /\ notify = {}
    /\ DataBuffer = [f \in Filter |-> 0]
    /\ messages = <<>>
    /\ capture = AwaitsSection(NoFilter, 0)
    /\ ecm = [at |-> "receive", filter |-> NoFilter, parity |-> 0]
    /\ bCardReady = FALSE

-----------------------------------------------------------------------------
(* The capturing thread.                                                   *)

(* The section is read out of the driver before the semaphore is taken.    *)
ReadSection(f, p) ==
    /\ capture.at = "wait"
    /\ f \in running /\ p \in wants[f]
    /\ capture' = [at |-> "read", filter |-> f, parity |-> p]
    /\ UNCHANGED <<filters, DataBuffer, messages, ecm, bCardReady>>

Accepts(f) == row[f] = "set" /\ f \notin Lock

(* A filter freed meanwhile is not found, one forgotten or locked refuses.  *)
PassOver ==
    /\ capture.at = "read"
    /\ ~Accepts(capture.filter)
    /\ capture' = [capture EXCEPT !.at = "wait"]
    /\ UNCHANGED <<filters, DataBuffer, messages, ecm, bCardReady>>

ChSectionSend2Ecm ==
    /\ messages' = Append(messages, capture.filter)
    /\ Lock' = Lock \cup {capture.filter}
    /\ capture' = [capture EXCEPT !.at = "wait"]

(* Without a card the section is only stored; without a free message the    *)
(* thread waits for one.                                                   *)
ChInsertMgData ==
    /\ capture.at = "read"
    /\ Accepts(capture.filter)
    /\ DataBuffer' = [DataBuffer EXCEPT ![capture.filter] = capture.parity]
    /\ CASE bCardReady /\ CanSend -> ChSectionSend2Ecm
         [] bCardReady /\ ~CanSend ->
              /\ capture' = [capture EXCEPT !.at = "claim"]
              /\ UNCHANGED <<messages, Lock>>
         [] ~bCardReady ->
              /\ capture' = [capture EXCEPT !.at = "wait"]
              /\ UNCHANGED <<messages, Lock>>
    /\ UNCHANGED <<row, wants, running, active, notify, ecm, bCardReady>>

ClaimSucceeds ==
    /\ capture.at = "claim"
    /\ CanSend
    /\ ChSectionSend2Ecm
    /\ UNCHANGED <<row, wants, running, active, notify, DataBuffer, ecm,
                   bCardReady>>

(* Mutant: a claim without a time limit.                                   *)
ClaimWaits == FALSE /\ UNCHANGED ecmVars

(* After a second the section is given up, and the filter not locked.      *)
ClaimFails ==
    /\ capture.at = "claim"
    /\ ~CanSend
    /\ capture' = [capture EXCEPT !.at = "wait"]
    /\ UNCHANGED <<filters, DataBuffer, messages, ecm, bCardReady>>

-----------------------------------------------------------------------------
(* The ECM thread.                                                         *)

(* (The settings mode, in which messages are dropped, is never entered:     *)
(* eis_main.c knows only APP_MODE_HTML and APP_MODE_PLAY.)                 *)
ReceiveMessage ==
    /\ ecm.at = "receive"
    /\ messages # <<>>
    /\ messages' = Tail(messages)
    /\ ecm' = [ecm EXCEPT !.at = "copy", !.filter = Head(messages)]
    /\ UNCHANGED <<filters, DataBuffer, capture, bCardReady>>

(* The newest section of the filter.  If nobody is to be notified the       *)
(* message is dropped, and the filter keeps its lock.                      *)
CopySection ==
    /\ ecm.at = "copy"
    /\ SectionDataFree
    /\ ecm' = [ecm EXCEPT !.at = IF ecm.filter \in notify THEN "reset"
                                                          ELSE "receive",
                          !.parity = DataBuffer[ecm.filter]]
    /\ UNCHANGED <<filters, DataBuffer, messages, capture, bCardReady>>

(* Mutant: the parity that has just come.                                  *)
SameParity(p) == p

(* (TableId + 1) % 2 + 0x80                                                *)
NextParity(p) == (p + 1) % 2

(* Stopping fails without a slot; otherwise the filter runs afterwards,     *)
(* whether or not it ran before.  Were setting or starting it refused, the  *)
(* function would unlock the section but leave the filter's Lock set        *)
(* (ChProg.c:2905-2922); the driver refuses neither for a valid handle.     *)
CHCA_ResetECMFilter ==
    /\ ecm.at = "reset"
    /\ SectionDataFree
    /\ Lock' = Lock \ {ecm.filter}
    /\ IF HasSlot(ecm.filter)
       THEN /\ wants' = [wants EXCEPT ![ecm.filter] =
                            {NextParity(ecm.parity)}]
            /\ running' = running \cup {ecm.filter}
            /\ active' = active \cup {ecm.filter}
       ELSE UNCHANGED <<wants, running, active>>
    /\ ecm' = [ecm EXCEPT !.at = "call"]
    /\ UNCHANGED <<row, notify, DataBuffer, messages, capture, bCardReady>>

(* With the notification read when the section was copied.                 *)
CallKernel ==
    /\ ecm.at = "call"
    /\ ecm' = IF bCardReady THEN [ecm EXCEPT !.at = "called"]
                            ELSE AwaitsMessage
    /\ UNCHANGED <<filters, DataBuffer, messages, capture, bCardReady>>

(* CardContenUpdate: the kernel has reported new rights of the card, and    *)
(* the filter is unlocked once more.                                       *)
UpdateContent ==
    /\ ecm.at = "called"
    /\ SectionDataFree
    /\ Lock' = Lock \ {ecm.filter}
    /\ ecm' = AwaitsMessage
    /\ UNCHANGED <<row, wants, running, active, notify, DataBuffer, messages,
                   capture, bCardReady>>

ReleaseMessage ==
    /\ ecm.at = "called"
    /\ ecm' = AwaitsMessage
    /\ UNCHANGED <<filters, DataBuffer, messages, capture, bCardReady>>

-----------------------------------------------------------------------------
(* The kernel's operations, from whichever thread called it.               *)

MGDDISrcAllocDmxFltr(f) ==
    /\ SectionDataFree
    /\ row[f] = "free"
    /\ row' = [row EXCEPT ![f] = "allocated"]
    /\ Lock' = Lock \ {f}
    /\ active' = active \ {f}
    /\ notify' = notify \ {f}
    /\ UNCHANGED <<wants, running, DataBuffer, messages, capture, ecm,
                   bCardReady>>

MGDDISrcSetDmxFltr(f, parities) ==
    /\ SectionDataFree
    /\ row[f] \in {"allocated", "dropped"} /\ f \notin active
    /\ row' = [row EXCEPT ![f] = "set"]
    /\ wants' = [wants EXCEPT ![f] = parities]
    /\ UNCHANGED <<running, active, Lock, notify, DataBuffer, messages,
                   capture, ecm, bCardReady>>

(* Mutant: before 2005-04-24, when a start left the lock alone.            *)
StartLocked(f) ==
    /\ SectionDataFree
    /\ HasSlot(f) /\ f \notin active
    /\ notify' = notify \cup {f}
    /\ running' = running \cup {f}
    /\ active' = active \cup {f}
    /\ UNCHANGED <<row, wants, Lock, DataBuffer, messages, capture, ecm,
                   bCardReady>>

(* A filter that is active is left as it is.                               *)
MGDDISrcStartDmxFltr(f) ==
    /\ SectionDataFree
    /\ HasSlot(f) /\ f \notin active
    /\ notify' = notify \cup {f}
    /\ Lock' = Lock \ {f}
    /\ running' = running \cup {f}
    /\ active' = active \cup {f}
    /\ UNCHANGED <<row, wants, DataBuffer, messages, capture, ecm, bCardReady>>

(* The notification stays, and so do the messages.                         *)
MGDDISrcStopDmxFltr(f) ==
    /\ SectionDataFree
    /\ HasSlot(f)
    /\ running' = running \ {f}
    /\ active' = active \ {f}
    /\ UNCHANGED <<row, wants, Lock, notify, DataBuffer, messages, capture,
                   ecm, bCardReady>>

MGDDISrcFreeDmxFltr(f) ==
    /\ SectionDataFree
    /\ HasSlot(f)
    /\ row' = [row EXCEPT ![f] = "free"]
    /\ running' = running \ {f}
    /\ active' = active \ {f}
    /\ Lock' = Lock \ {f}
    /\ notify' = notify \ {f}
    /\ UNCHANGED <<wants, DataBuffer, messages, capture, ecm, bCardReady>>

(* The PMT thread, when a programme is left: the kernel's filters are       *)
(* forgotten, and the driver goes on with them.                            *)
StopAllEcmFilter ==
    LET ecmFilters == {f \in Filter : row[f] = "set"}
    IN  /\ SectionDataFree
        /\ row' = [f \in Filter |-> IF f \in ecmFilters THEN "dropped"
                                                        ELSE row[f]]
        /\ active' = active \ ecmFilters
        /\ Lock' = Lock \ ecmFilters
        /\ notify' = notify \ ecmFilters
        /\ UNCHANGED <<wants, running, DataBuffer, messages, capture, ecm,
                       bCardReady>>

MoveCard ==
    /\ bCardReady' = ~bCardReady
    /\ UNCHANGED <<filters, DataBuffer, messages, capture, ecm>>

-----------------------------------------------------------------------------
CaptureThread ==
    \/ \E f \in Filter, p \in Parity : ReadSection(f, p)
    \/ PassOver \/ ChInsertMgData \/ ClaimSucceeds \/ ClaimFails

EcmThread ==
    \/ ReceiveMessage \/ CopySection \/ CHCA_ResetECMFilter \/ CallKernel
    \/ UpdateContent \/ ReleaseMessage

Kernel ==
    \E f \in Filter :
        \/ MGDDISrcAllocDmxFltr(f)
        \/ \E parities \in Pattern : MGDDISrcSetDmxFltr(f, parities)
        \/ MGDDISrcStartDmxFltr(f)
        \/ MGDDISrcStopDmxFltr(f)
        \/ MGDDISrcFreeDmxFltr(f)

EcmNext == CaptureThread \/ EcmThread \/ Kernel \/ StopAllEcmFilter \/ MoveCard

EcmSafety == EcmInit /\ [][EcmNext]_ecmVars

(* What the capturing thread has read it deals with, within a second.       *)
CaptureGoesOn == PassOver \/ ChInsertMgData \/ ClaimSucceeds \/ ClaimFails

(* Each parity of a programme is sent again and again; sooner or later one  *)
(* comes while the filter is open and a message free.                      *)
Broadcast(f, p) == ReadSection(f, p) /\ Accepts(f) /\ CanSend

EcmSpec ==
    /\ EcmSafety
    /\ SF_ecmVars(EcmThread)
    /\ WF_ecmVars(CaptureGoesOn)
    /\ \A f \in Filter, p \in Parity : SF_ecmVars(Broadcast(f, p))

-----------------------------------------------------------------------------
EcmTypeOK ==
    /\ row \in [Filter -> Row]
    /\ wants \in [Filter -> SUBSET Parity]
    /\ running \subseteq Filter /\ active \subseteq Filter
    /\ Lock \subseteq Filter /\ notify \subseteq Filter
    /\ DataBuffer \in [Filter -> Parity]
    /\ messages \in Seq(Filter) /\ Claimed <= MaxMessage
    /\ capture \in [at : {"wait", "read", "claim"},
                    filter : Filter \cup {NoFilter}, parity : Parity]
    /\ ecm \in [at : {"receive", "copy", "reset", "call", "called"},
                filter : Filter \cup {NoFilter}, parity : Parity]
    /\ bCardReady \in BOOLEAN

(* Somebody is going to unlock the filter.                                 *)
UnlockComing(f) ==
    \/ \E i \in DOMAIN messages : messages[i] = f
    \/ ecm.at \in {"copy", "reset"} /\ ecm.filter = f

(* A locked filter that the kernel has started has its unlocking on the     *)
(* way, whatever starts, stops, frees, forgetting and re-allocations        *)
(* came between the capture and the ECM thread's two looks at it: no filter *)
(* is left deaf (CHCA_EcmDataProcess returns early without an unlock).      *)
LockBacked == \A f \in Lock \cap notify : UnlockComing(f)

(* No filter stays locked: the unlocking that is on its way arrives, or a   *)
(* start, a free or a forgetting comes before it (CHCA_EcmDataProcess).     *)
LockEnds == \A f \in Filter : (f \in Lock \cap notify) ~> (f \notin Lock)

Served(f) == f \in running \cap notify /\ row[f] = "set" /\ bCardReady

(* A filter that is served for ever hands the kernel keys of both parities  *)
(* for ever: each reset asks for the parity that comes next, and the        *)
(* capturing thread, which waits for a message with the semaphore in hand   *)
(* that the ECM thread, with the last message in hand, waits for, gives up  *)
(* after a second (ChSectionSend2Ecm).                                     *)
EveryKey ==
    \A f \in Filter, p \in Parity :
        <>[]Served(f) =>
            []<>(ecm.at = "called" /\ ecm.filter = f /\ ecm.parity = p)
=============================================================================
