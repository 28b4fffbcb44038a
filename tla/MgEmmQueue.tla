----------------------------- MODULE MgEmmQueue -----------------------------
(***************************************************************************)
(* How an entitlement message (EMM) reaches the conditional-access kernel:  *)
(* ChDmux.c and ChProg.c.                                                   *)
(*                                                                          *)
(* Five threads meet.  The capturing thread (ChDVBEMMSectionFilterMonitor)   *)
(* puts a section into the one hand-over buffer, MgEmmFilterData, or, while *)
(* that is in use, into a ring.  The EMM thread (ChDVBEMMMonitor) receives  *)
(* messages that name a filter and nothing else, takes what the hand-over   *)
(* buffer holds then, moves the next section of the ring into it, and calls *)
(* the kernel.  The PMT thread stops, starts and resets the delivery, the   *)
(* card's thread resets it after an insertion, and the kernel starts, stops *)
(* and frees its filters from whichever thread called it.                   *)
(* psemSectionEmmQueueAccess covers a step on the buffers, never a path of  *)
(* two of them; MGCAStop and bCardReady are read outside it.                *)
(***************************************************************************)
EXTENDS Integers, Sequences, FiniteSets

CONSTANTS
    Filter,         \* the kernel's demultiplexer filters for EMMs
    RingSize,       \* MGCA_MAX_NO_EMMBUFF
    MaxMessage,     \* messages of pstCHCAEMMMsgQueue
    MaxSection,     \* bound: sections the stream carries
    Stream,         \* bound: what section n may match, and whether flagged
    NoSection,
    NoFilter

ASSUME RingAssumption == RingSize \in Nat \ {0, 1}
ASSUME MessageAssumption == MaxMessage \in Nat \ {0, 1}
ASSUME SectionAssumption == MaxSection \in Nat \ {0}

(* "flagged": some of the four high bits of the section's second byte are   *)
(* set (section_syntax_indicator and the reserved bits).                    *)
Section == [id : 1 .. MaxSection, filter : Filter, flagged : BOOLEAN]
ASSUME NoSectionAssumption == NoSection \notin Section
ASSUME StreamAssumption ==
    Stream \in [1 .. MaxSection -> SUBSET (Filter \X BOOLEAN)]
ASSUME NoFilterAssumption == NoFilter \notin Filter

VARIABLES
    ring,       \* EmmQueue: data, sFront, sRear
    current,    \* MgEmmFilterData: OnUse and the section
    messages,   \* pstCHCAEMMMsgQueue: the filters the sent messages name
    capture,    \* ChDVBEMMSectionFilterMonitor: at and section
    emm,        \* ChDVBEMMMonitor: at, filter, section (EMM_Buffer), notify
    pmt,        \* the PMT thread: where it is in a stop or a start
    card,       \* the card's thread; the card is ready unless "out"
    MGCAStop,
    active,     \* filters the kernel has running
    notify,     \* filters with a cMgDataNotify
    captured,   \* number of the last section captured
    delivered,  \* number of the last section the kernel was given (a history)
    overtaken   \* a reset left a message behind (a history)

buffers == <<ring, current, messages>>
threads == <<capture, emm, pmt, card, MGCAStop>>
kernel == <<active, notify>>
histories == <<captured, delivered, overtaken>>
vars == <<buffers, threads, kernel, histories>>

Slot == 0 .. RingSize - 1

ChMgQueueLength(q) == (q.sRear - q.sFront + RingSize) % RingSize

(* What a ring holds, the oldest first.                                    *)
Contents(q) ==
    [i \in 1 .. ChMgQueueLength(q) |-> q.data[(q.sFront + i - 1) % RingSize]]
Waiting == Contents(ring)

(* Mutant: the rear index is not wrapped.                                  *)
UnwrappedEn(q, s) ==
    IF (q.sRear + 1) % RingSize = q.sFront \/ s.flagged
    THEN q
    ELSE [q EXCEPT !.data[q.sRear] = s, !.sRear = q.sRear + 1]

(* A full ring refuses, and so does any ring a flagged section: the length  *)
(* test reads the second byte without masking its high bits.  The caller    *)
(* does not look at the result.                                            *)
ChEnMgBuffer(q, s) ==
    IF (q.sRear + 1) % RingSize = q.sFront \/ s.flagged
    THEN q
    ELSE [q EXCEPT !.data[q.sRear] = s, !.sRear = (q.sRear + 1) % RingSize]

Front(q) == q.data[q.sFront]

(* Mutant: the newest is removed instead of the oldest.                    *)
NewestOut(q) ==
    IF q.sFront = q.sRear
    THEN q
    ELSE [q EXCEPT !.sRear = (q.sRear + RingSize - 1) % RingSize]

ChOutMgBuffer(q) ==
    IF q.sFront = q.sRear
    THEN q
    ELSE [q EXCEPT !.sFront = (q.sFront + 1) % RingSize]

(* Mutant: the limit before it was corrected (ChDmux.c:785).               *)
RoomTooLate(q) ==
    IF ChMgQueueLength(q) = RingSize THEN ChOutMgBuffer(q) ELSE q

(* The oldest makes way in a full ring.                                    *)
MakeRoom(q) ==
    IF ChMgQueueLength(q) = RingSize - 1 THEN ChOutMgBuffer(q) ELSE q

(* A message stays claimed until the EMM thread is done with the section.   *)
Claimed == Len(messages) + IF emm.at = "receive" THEN 0 ELSE 1

(* ChSMailFromMGFilter2EMM: waits a second for a free message.             *)
CanSend == Claimed < MaxMessage

AwaitsSection == [at |-> "wait", section |-> NoSection]
AwaitsMessage == [at |-> "receive", filter |-> NoFilter,
                  section |-> NoSection, notify |-> FALSE]
EmptyRing == [data |-> [i \in Slot |-> NoSection], sFront |-> 0, sRear |-> 0]

Init ==
    /\ ring = EmptyRing
    /\ current = [OnUse |-> FALSE, section |-> NoSection]
    /\ messages = <<>>
    /\ capture = AwaitsSection
    /\ emm = AwaitsMessage
    /\ pmt = "idle"
    /\ card = "out"
    /\ MGCAStop = FALSE
    /\ active = {}
    /\ notify = {}
    /\ captured = 0
    /\ delivered = 0
    /\ overtaken = FALSE

-----------------------------------------------------------------------------
(* The capturing thread.                                                   *)

(* A section that matched a running filter; bCardReady is read before the   *)
(* semaphore is taken.                                                     *)
Capture(f, flagged) ==
    /\ capture.at = "wait"
    /\ f \in active
    /\ captured < MaxSection /\ <<f, flagged>> \in Stream[captured + 1]
    /\ captured' = captured + 1
    /\ card # "out"
    /\ capture' = [at |-> "insert",
                   section |-> [id |-> captured + 1, filter |-> f,
                                flagged |-> flagged]]
    /\ UNCHANGED <<buffers, emm, pmt, card, MGCAStop, kernel,
                   delivered, overtaken>>

(* Nothing is in hand: the section, or the oldest of a backlog, becomes the *)
(* current one and a message announces it.                                 *)
InsertAtOnce ==
    /\ capture.at = "insert"
    /\ ~current.OnUse
    /\ LET s == capture.section
           backlog == ChMgQueueLength(ring) # 0
           entered == IF backlog THEN ChEnMgBuffer(ring, s) ELSE ring
           next == IF backlog THEN Front(entered) ELSE s
       IN  /\ ring' = IF backlog THEN ChOutMgBuffer(entered) ELSE ring
           /\ current' = [OnUse |-> CanSend, section |-> next]
           /\ messages' = IF CanSend THEN Append(messages, next.filter)
                                     ELSE messages
    /\ capture' = AwaitsSection
    /\ UNCHANGED <<emm, pmt, card, MGCAStop, kernel, histories>>

(* A section is in hand: the new one waits, and the oldest that waits is    *)
(* dropped when the ring is full.                                          *)
InsertBehind ==
    /\ capture.at = "insert"
    /\ current.OnUse
    /\ ring' = ChEnMgBuffer(MakeRoom(ring), capture.section)
    /\ capture' = AwaitsSection
    /\ UNCHANGED <<current, messages, emm, pmt, card, MGCAStop, kernel,
                   histories>>

-----------------------------------------------------------------------------
(* The EMM thread.                                                         *)

(* A message that finds MGCAStop set is released and nothing else happens.  *)
DropWhileStopped ==
    /\ emm.at = "receive"
    /\ messages # <<>>
    /\ MGCAStop
    /\ messages' = Tail(messages)
    /\ UNCHANGED <<ring, current, threads, kernel, histories>>

ReceiveMessage ==
    /\ emm.at = "receive"
    /\ messages # <<>>
    /\ ~MGCAStop
    /\ messages' = Tail(messages)
    /\ emm' = [emm EXCEPT !.at = "copy", !.filter = Head(messages)]
    /\ UNCHANGED <<ring, current, capture, pmt, card, MGCAStop, kernel,
                   histories>>

(* The section the hand-over buffer holds now, and the notification of the  *)
(* filter the message names.                                               *)
CopySection ==
    /\ emm.at = "copy"
    /\ emm' = [emm EXCEPT !.at = "unlock", !.section = current.section,
                          !.notify = emm.filter \in notify]
    /\ UNCHANGED <<buffers, capture, pmt, card, MGCAStop, kernel, histories>>

(* The next section of the ring becomes the current one; the result of      *)
(* sending its message is not looked at.                                   *)
CHCA_MgEmmSectionUnlock ==
    /\ emm.at = "unlock"
    /\ emm' = [emm EXCEPT !.at = "check"]
    /\ LET empty == ring.sFront = ring.sRear
       IN  CASE ~current.OnUse -> UNCHANGED buffers
             [] current.OnUse /\ empty ->
                  /\ current' = [current EXCEPT !.OnUse = FALSE]
                  /\ UNCHANGED <<ring, messages>>
             [] current.OnUse /\ ~empty ->
                  /\ current' = [current EXCEPT !.section = Front(ring)]
                  /\ ring' = ChOutMgBuffer(ring)
                  /\ messages' = IF CanSend
                                 THEN Append(messages, Front(ring).filter)
                                 ELSE messages
    /\ UNCHANGED <<capture, pmt, card, MGCAStop, kernel, histories>>

CheckCard ==
    /\ emm.at = "check"
    /\ emm' = IF card # "out" /\ emm.notify
              THEN [emm EXCEPT !.at = "call"] ELSE AwaitsMessage
    /\ UNCHANGED <<buffers, capture, pmt, card, MGCAStop, kernel, histories>>

(* With pSemMgApiAccess in hand, and the message released after the call.   *)
CallKernel ==
    /\ emm.at = "call"
    /\ emm' = AwaitsMessage
    /\ delivered' = emm.section.id
    /\ UNCHANGED <<buffers, capture, pmt, card, MGCAStop, kernel, captured,
                   overtaken>>

-----------------------------------------------------------------------------
(* Resets.                                                                 *)

(* The messages that were sent are not taken back.                         *)
CHCA_InitMgEmmQueue ==
    /\ ring' = [ring EXCEPT !.sFront = 0, !.sRear = 0]
    /\ current' = [current EXCEPT !.OnUse = FALSE]
    /\ overtaken' = (Claimed # 0)
    /\ UNCHANGED <<messages, captured, delivered>>

(* Mutant: a start that leaves the queue as it is.                         *)
StartWithoutReset ==
    /\ pmt = "idle"
    /\ MGCAStop' = FALSE
    /\ UNCHANGED <<buffers, capture, emm, pmt, card, kernel, histories>>

(* START_MGCA and START_MGCA_EPG clear the flag first and reset then.      *)
StartDelivery ==
    /\ pmt = "idle"
    /\ MGCAStop' = FALSE
    /\ pmt' = "started"
    /\ UNCHANGED <<buffers, capture, emm, card, kernel, histories>>

(* STOP_MGCA sets it, tells the kernel, and resets at the end.             *)
StopDelivery ==
    /\ pmt = "idle"
    /\ MGCAStop' = TRUE
    /\ pmt' = "stopped"
    /\ UNCHANGED <<buffers, capture, emm, card, kernel, histories>>

FinishStartOrStop ==
    /\ pmt # "idle"
    /\ CHCA_InitMgEmmQueue
    /\ pmt' = "idle"
    /\ UNCHANGED <<capture, emm, card, MGCAStop, kernel>>

(* START_PMT_CTP, the transponder changed: a reset that leaves the flag.    *)
ChangeTransponder ==
    /\ pmt = "idle"
    /\ CHCA_InitMgEmmQueue
    /\ UNCHANGED <<threads, kernel>>

ExtractCard ==
    /\ card = "in"
    /\ card' = "out"
    /\ UNCHANGED <<buffers, capture, emm, pmt, MGCAStop, kernel, histories>>

(* bCardReady is set inside CHMG_CardResetOperation, the queue reset after. *)
CardBecomesReady ==
    /\ card = "out"
    /\ card' = "reset"
    /\ UNCHANGED <<buffers, capture, emm, pmt, MGCAStop, kernel, histories>>

CardResetsQueue ==
    /\ card = "reset"
    /\ CHCA_InitMgEmmQueue
    /\ card' = "in"
    /\ UNCHANGED <<capture, emm, pmt, MGCAStop, kernel>>

-----------------------------------------------------------------------------
(* The kernel's filter operations, as far as delivery depends on them.     *)

StartFilter(f) ==
    /\ active' = active \cup {f}
    /\ notify' = notify \cup {f}
    /\ UNCHANGED <<buffers, threads, histories>>

(* A stop leaves the notification and every section already captured.       *)
StopFilter(f) ==
    /\ f \in active
    /\ active' = active \ {f}
    /\ UNCHANGED <<buffers, threads, notify, histories>>

FreeFilter(f) ==
    /\ f \in notify
    /\ active' = active \ {f}
    /\ notify' = notify \ {f}
    /\ UNCHANGED <<buffers, threads, histories>>

EmmThread ==
    \/ DropWhileStopped \/ ReceiveMessage \/ CopySection
    \/ CHCA_MgEmmSectionUnlock \/ CheckCard \/ CallKernel

CaptureThread ==
    \/ \E f \in Filter, flagged \in BOOLEAN : Capture(f, flagged)
    \/ InsertAtOnce \/ InsertBehind

PmtThread ==
    StartDelivery \/ StopDelivery \/ FinishStartOrStop \/ ChangeTransponder

CardThread == ExtractCard \/ CardBecomesReady \/ CardResetsQueue

Kernel == \E f \in Filter : StartFilter(f) \/ StopFilter(f) \/ FreeFilter(f)

Next == CaptureThread \/ EmmThread \/ PmtThread \/ CardThread \/ Kernel

Spec == Init /\ [][Next]_vars

(* The EMM thread runs whenever it has a message, and the PMT thread carries *)
(* a start or a stop through to its reset.  Nobody has to capture anything,  *)
(* and the operator may leave the card where it is.                          *)
FairSpec == Spec /\ WF_vars(EmmThread) /\ WF_vars(FinishStartOrStop)

-----------------------------------------------------------------------------
SectionOrNone == Section \cup {NoSection}

Ring == [data : [Slot -> SectionOrNone], sFront : Slot, sRear : Slot]

TypeOK ==
    /\ ring \in Ring
    /\ current \in [OnUse : BOOLEAN, section : SectionOrNone]
    /\ messages \in Seq(Filter)
    /\ capture \in [at : {"wait", "insert"}, section : SectionOrNone]
    /\ emm \in [at : {"receive", "copy", "unlock", "check", "call"},
                filter : Filter \cup {NoFilter}, section : SectionOrNone, notify : BOOLEAN]
    /\ pmt \in {"idle", "started", "stopped"}
    /\ card \in {"out", "reset", "in"}
    /\ MGCAStop \in BOOLEAN
    /\ active \subseteq Filter /\ notify \subseteq Filter
    /\ captured \in Nat /\ delivered \in Nat
    /\ overtaken \in BOOLEAN

(* Somebody is going to look at the hand-over buffer.                      *)
OnItsWay == messages # <<>> \/ emm.at \in {"copy", "unlock"}

(* A backlog is never left without a hand that moves it on: sections wait   *)
(* only behind a current one, and while delivery runs a current one has a   *)
(* message on its way or a reset coming, whatever stops, starts, resets and *)
(* failed sends came between (ChInsertMgEmmBuffer sends outside any state   *)
(* the receiver checks, and CHCA_MgEmmSectionUnlock ignores a failed send). *)
BacklogServed ==
    /\ ~current.OnUse => ring.sFront = ring.sRear
    /\ current.OnUse /\ ~MGCAStop /\ pmt # "started" => OnItsWay

(* The kernel is given each section at most once, in the order of capture,  *)
(* and on behalf of the filter it matched, although a message names only a  *)
(* filter and the section is whatever the buffer holds when the message is  *)
(* read, unless a reset left a message behind (CHMG_EMMDataProcess).        *)
DeliveredAsCaptured ==
    [][emm.at = "call" /\ emm'.at = "receive" /\ ~overtaken =>
        /\ emm.section.filter = emm.filter
        /\ emm.section.id > delivered]_vars

(* A section that arrives while another is in hand is the last of the ring  *)
(* afterwards, also when the ring was full (ChInsertMgEmmBuffer drops the   *)
(* oldest for it), if its second byte has no high bit set.                  *)
NewestIsKept ==
    [][InsertBehind /\ ~capture.section.flagged =>
        /\ Waiting' # <<>>
        /\ Waiting'[Len(Waiting')] = capture.section]_vars

(* The ring with its two indices is a bounded queue of one section less     *)
(* than its length that loses only its oldest, or everything on a reset.    *)
Fifo == INSTANCE BoundedFifo
            WITH Item <- Section, Capacity <- RingSize - 1, queue <- Waiting
ImplementsFifo == Fifo!Spec

(* As long as delivery is not stopped for good, no section stays in the     *)
(* ring for ever (the EMM thread's Unlock passes the next one on).          *)
BacklogMoves ==
    <>[]~MGCAStop =>
        \A id \in 1 .. MaxSection :
            []<>(\A i \in DOMAIN Waiting : Waiting[i].id # id)

(* ChEnMgBuffer says it puts the new element at the tail of the queue; the  *)
(* section that arrives while another is in hand should be the last.        *)
BusyMeansBuffered ==
    [][InsertBehind =>
        /\ Waiting' # <<>>
        /\ Waiting'[Len(Waiting')] = capture.section]_vars
=============================================================================
