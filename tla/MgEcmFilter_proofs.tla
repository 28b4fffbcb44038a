------------------------- MODULE MgEcmFilter_proofs -------------------------
(***************************************************************************)
(* Theorems about MgEcmFilter, for every number of filters and messages and *)
(* every set of patterns.                                                   *)
(***************************************************************************)
EXTENDS MgEcmFilter, TLAPS

CaptureState == [at : {"wait", "read", "claim"},
                 filter : Filter \cup {NoFilter}, parity : Parity]
EcmState == [at : {"receive", "copy", "reset", "call", "called"},
             filter : Filter \cup {NoFilter}, parity : Parity]

(* Whatever a thread is at work on is a filter.                            *)
AtWork ==
    /\ capture.at # "wait" => capture.filter \in Filter
    /\ ecm.at # "receive" => ecm.filter \in Filter

EcmInv == EcmTypeOK /\ AtWork /\ LockBacked

-----------------------------------------------------------------------------
(* Records of the two threads.                                             *)

LEMMA CaptureMoves ==
    ASSUME NEW c \in CaptureState, NEW a \in {"wait", "read", "claim"}
    PROVE  /\ [c EXCEPT !.at = a] \in CaptureState
           /\ [c EXCEPT !.at = a].at = a
           /\ [c EXCEPT !.at = a].filter = c.filter
BY DEF CaptureState

LEMMA EcmMoves ==
    ASSUME NEW e \in EcmState,
           NEW a \in {"receive", "copy", "reset", "call", "called"}
    PROVE  /\ [e EXCEPT !.at = a] \in EcmState
           /\ [e EXCEPT !.at = a].at = a
           /\ [e EXCEPT !.at = a].filter = e.filter
BY DEF EcmState

LEMMA NextIsParity == ASSUME NEW p \in Parity PROVE NextParity(p) \in Parity
BY SMT DEF Parity, NextParity

(* A message appended is in the queue, and the others stay.                *)
LEMMA Appended ==
    ASSUME NEW q \in Seq(Filter), NEW f \in Filter
    PROVE  /\ Append(q, f) \in Seq(Filter)
           /\ Len(Append(q, f)) = Len(q) + 1
           /\ \E i \in DOMAIN Append(q, f) : Append(q, f)[i] = f
           /\ \A i \in DOMAIN q : /\ i \in DOMAIN Append(q, f)
                                  /\ Append(q, f)[i] = q[i]
<1>1. Append(q, f)[Len(q) + 1] = f /\ Len(q) + 1 \in DOMAIN Append(q, f)
  BY SMT
<1> QED BY <1>1, SMT

(* A message received is the head, and the others stay.                    *)
LEMMA Received ==
    ASSUME NEW q \in Seq(Filter), q # <<>>
    PROVE  /\ Tail(q) \in Seq(Filter)
           /\ Head(q) \in Filter
           /\ Len(Tail(q)) = Len(q) - 1
           /\ \A i \in DOMAIN q : \/ q[i] = Head(q)
                                  \/ \E j \in DOMAIN Tail(q) : Tail(q)[j] = q[i]
<1>1. Len(q) \in Nat /\ Len(q) # 0 /\ DOMAIN q = 1 .. Len(q)
  BY SMT
<1>2. Len(Tail(q)) = Len(q) - 1 /\ DOMAIN Tail(q) = 1 .. Len(q) - 1
  BY <1>1, SMT
<1>3. ASSUME NEW i \in DOMAIN q, i # 1
      PROVE  i - 1 \in DOMAIN Tail(q) /\ Tail(q)[i - 1] = q[i]
  BY <1>1, <1>2, <1>3, SMT
<1>4. q[1] = Head(q)
  BY SMT
<1>5. Tail(q) \in Seq(Filter) /\ Head(q) \in Filter
  BY SMT
<1> QED BY <1>2, <1>3, <1>4, <1>5, Zenon

-----------------------------------------------------------------------------
(* Types.                                                                  *)

LEMMA EcmInitial == EcmInit => EcmInv
<1> SUFFICES ASSUME EcmInit PROVE EcmInv
  OBVIOUS
<1> USE DEF EcmInit
<1>1. messages \in Seq(Filter) /\ Claimed <= MaxMessage
  BY EcmMessageAssumption, SMT DEF Claimed
<1>2. /\ capture \in CaptureState /\ ecm \in EcmState
      /\ row \in [Filter -> Row] /\ wants \in [Filter -> SUBSET Parity]
      /\ DataBuffer \in [Filter -> Parity]
  BY DEF CaptureState, EcmState, Row, Parity, AwaitsSection
<1>5. EcmTypeOK
  BY <1>1, <1>2 DEF EcmTypeOK, CaptureState, EcmState
<1>3. AtWork
  BY DEF AtWork, AwaitsSection
<1>4. LockBacked
  BY DEF LockBacked
<1> QED BY <1>3, <1>4, <1>5 DEF EcmInv

(* The two threads' variables and the messages, apart from the rest.        *)
ThreadsTyped ==
    /\ messages \in Seq(Filter) /\ Claimed <= MaxMessage
    /\ capture \in CaptureState
    /\ ecm \in EcmState
    /\ AtWork

FiltersTyped ==
    /\ row \in [Filter -> Row]
    /\ wants \in [Filter -> SUBSET Parity]
    /\ running \subseteq Filter /\ active \subseteq Filter
    /\ Lock \subseteq Filter /\ notify \subseteq Filter
    /\ DataBuffer \in [Filter -> Parity]
    /\ bCardReady \in BOOLEAN

LEMMA TypeSplits == EcmTypeOK /\ AtWork <=> ThreadsTyped /\ FiltersTyped
BY DEF EcmTypeOK, ThreadsTyped, FiltersTyped, CaptureState, EcmState

LEMMA TypeSplitsNext ==
    EcmTypeOK' /\ AtWork' <=> ThreadsTyped' /\ FiltersTyped'
BY DEF EcmTypeOK, ThreadsTyped, FiltersTyped, CaptureState, EcmState

LEMMA ThreadsUntouched ==
    ASSUME ThreadsTyped, UNCHANGED <<messages, capture, ecm>>
    PROVE  ThreadsTyped'
BY DEF ThreadsTyped, Claimed, AtWork

LEMMA CaptureReturns ==
    ASSUME ThreadsTyped, NEW a \in {"wait", "claim"},
           capture.at # "wait",
           capture' = [capture EXCEPT !.at = a], UNCHANGED <<messages, ecm>>
    PROVE  ThreadsTyped'
<1>1. /\ capture' \in CaptureState
      /\ capture'.filter = capture.filter
  BY CaptureMoves DEF ThreadsTyped
<1> QED BY <1>1 DEF ThreadsTyped, Claimed, AtWork

LEMMA Sends ==
    ASSUME ThreadsTyped, FiltersTyped, capture.at # "wait", CanSend,
           ChSectionSend2Ecm, UNCHANGED ecm
    PROVE  ThreadsTyped' /\ Lock' \subseteq Filter
<1>1. capture.filter \in Filter
  BY DEF ThreadsTyped, AtWork
<1>2. capture' \in CaptureState /\ capture'.at = "wait"
  BY CaptureMoves DEF ThreadsTyped, ChSectionSend2Ecm
<1>3. messages' \in Seq(Filter) /\ Len(messages') = Len(messages) + 1
  BY <1>1, Appended DEF ThreadsTyped, ChSectionSend2Ecm
<1>4. Claimed' <= MaxMessage
  BY <1>3, EcmMessageAssumption, SMT DEF Claimed, CanSend, ThreadsTyped
<1> QED BY <1>1, <1>2, <1>3, <1>4
        DEF ThreadsTyped, FiltersTyped, ChSectionSend2Ecm, AtWork

(* The ECM thread moves on with the filter it has.                         *)
LEMMA EcmGoesOn ==
    ASSUME ThreadsTyped,
           NEW a \in {"receive", "copy", "reset", "call", "called"},
           ecm.at # "receive",
           ecm' = [ecm EXCEPT !.at = a], UNCHANGED <<messages, capture>>
    PROVE  ThreadsTyped'
<1>1. ecm' \in EcmState /\ ecm'.filter = ecm.filter /\ ecm'.at = a
  BY EcmMoves DEF ThreadsTyped
<1>2. Claimed' <= MaxMessage
  BY <1>1, EcmMessageAssumption, SMT DEF ThreadsTyped, Claimed
<1> QED BY <1>1, <1>2 DEF ThreadsTyped, AtWork

LEMMA CaptureTyped ==
    ASSUME ThreadsTyped, FiltersTyped, CaptureThread
    PROVE  ThreadsTyped' /\ FiltersTyped'
<1>1. ASSUME NEW f \in Filter, NEW p \in Parity, ReadSection(f, p)
      PROVE  ThreadsTyped' /\ FiltersTyped'
  <2>1. capture' \in CaptureState /\ capture'.filter \in Filter
    BY <1>1 DEF ReadSection, CaptureState
  <2> QED BY <1>1, <2>1 DEF ReadSection, ThreadsTyped, FiltersTyped, filters,
                            Claimed, AtWork
<1>2. ASSUME PassOver \/ ClaimFails PROVE ThreadsTyped' /\ FiltersTyped'
  <2>1. ThreadsTyped'
    BY <1>2, CaptureReturns DEF PassOver, ClaimFails
  <2> QED BY <1>2, <2>1 DEF PassOver, ClaimFails, FiltersTyped, filters
<1>3. ASSUME ChInsertMgData PROVE ThreadsTyped' /\ FiltersTyped'
  <2>1. DataBuffer' \in [Filter -> Parity]
    BY <1>3 DEF ChInsertMgData, FiltersTyped, ThreadsTyped, CaptureState
  <2>2. ThreadsTyped' /\ Lock' \subseteq Filter
    <3>1. CASE bCardReady /\ CanSend
      BY <1>3, <3>1, Sends DEF ChInsertMgData
    <3>2. CASE bCardReady /\ ~CanSend
      BY <1>3, <3>2, CaptureReturns DEF ChInsertMgData, FiltersTyped
    <3>3. CASE ~bCardReady
      BY <1>3, <3>3, CaptureReturns DEF ChInsertMgData, FiltersTyped
    <3> QED BY <3>1, <3>2, <3>3
  <2> QED BY <1>3, <2>1, <2>2 DEF ChInsertMgData, FiltersTyped
<1>4. ASSUME ClaimSucceeds PROVE ThreadsTyped' /\ FiltersTyped'
  <2>1. ThreadsTyped' /\ Lock' \subseteq Filter
    BY <1>4, Sends DEF ClaimSucceeds
  <2> QED BY <1>4, <2>1 DEF ClaimSucceeds, FiltersTyped
<1> QED BY <1>1, <1>2, <1>3, <1>4 DEF CaptureThread

LEMMA EcmThreadTyped ==
    ASSUME ThreadsTyped, FiltersTyped, EcmThread
    PROVE  ThreadsTyped' /\ FiltersTyped'
<1>1. ASSUME ReceiveMessage PROVE ThreadsTyped' /\ FiltersTyped'
  <2>1. /\ messages' \in Seq(Filter) /\ Head(messages) \in Filter
        /\ Len(messages') = Len(messages) - 1
    BY <1>1, Received DEF ReceiveMessage, ThreadsTyped
  <2>2. ecm' \in EcmState /\ ecm'.filter \in Filter /\ ecm'.at = "copy"
    BY <1>1, <2>1 DEF ReceiveMessage, ThreadsTyped, EcmState
  <2>3. Claimed' <= MaxMessage
    BY <1>1, <2>1, <2>2, EcmMessageAssumption, SMT
    DEF ReceiveMessage, ThreadsTyped, Claimed
  <2> QED BY <1>1, <2>1, <2>2, <2>3
          DEF ReceiveMessage, ThreadsTyped, FiltersTyped, filters, AtWork
<1>2. ASSUME CopySection PROVE ThreadsTyped' /\ FiltersTyped'
  <2>1. ecm.filter \in Filter /\ DataBuffer[ecm.filter] \in Parity
    BY <1>2 DEF CopySection, ThreadsTyped, FiltersTyped, AtWork
  <2>2. PICK a \in {"reset", "receive"} :
            ecm' = [ecm EXCEPT !.at = a, !.parity = DataBuffer[ecm.filter]]
    BY <1>2 DEF CopySection
  <2>3. ecm' \in EcmState /\ ecm'.filter \in Filter
    BY <2>1, <2>2 DEF ThreadsTyped, EcmState
  <2>4. Claimed' <= MaxMessage
    BY <1>2, <2>3, EcmMessageAssumption, SMT
    DEF CopySection, ThreadsTyped, Claimed
  <2> QED BY <1>2, <2>3, <2>4
          DEF CopySection, ThreadsTyped, FiltersTyped, filters, AtWork
<1>3. ASSUME CHCA_ResetECMFilter PROVE ThreadsTyped' /\ FiltersTyped'
  <2>1. ThreadsTyped'
    BY <1>3, EcmGoesOn DEF CHCA_ResetECMFilter
  <2>2. ecm.filter \in Filter /\ {NextParity(ecm.parity)} \subseteq Parity
    BY <1>3, NextIsParity
    DEF CHCA_ResetECMFilter, ThreadsTyped, AtWork, EcmState
  <2>3. wants' \in [Filter -> SUBSET Parity]
    BY <1>3, <2>2 DEF CHCA_ResetECMFilter, FiltersTyped
  <2> QED BY <1>3, <2>1, <2>2, <2>3 DEF CHCA_ResetECMFilter, FiltersTyped
<1>4. ASSUME CallKernel PROVE ThreadsTyped' /\ FiltersTyped'
  <2>1. PICK a \in {"called", "receive"} : ecm' = [ecm EXCEPT !.at = a]
    BY <1>4 DEF CallKernel, AwaitsMessage
  <2>2. ThreadsTyped'
    BY <1>4, <2>1, EcmGoesOn DEF CallKernel
  <2> QED BY <1>4, <2>2 DEF CallKernel, FiltersTyped, filters
<1>5. ASSUME UpdateContent \/ ReleaseMessage
      PROVE  ThreadsTyped' /\ FiltersTyped'
  <2>1. ThreadsTyped'
    BY <1>5, EcmGoesOn DEF UpdateContent, ReleaseMessage, AwaitsMessage
  <2> QED BY <1>5, <2>1
          DEF UpdateContent, ReleaseMessage, FiltersTyped, filters
<1> QED BY <1>1, <1>2, <1>3, <1>4, <1>5 DEF EcmThread

LEMMA OperationTyped ==
    ASSUME ThreadsTyped, FiltersTyped,
           Kernel \/ StopAllEcmFilter \/ MoveCard
    PROVE  ThreadsTyped' /\ FiltersTyped'
<1>1. ThreadsTyped'
  BY ThreadsUntouched
  DEF Kernel, MGDDISrcAllocDmxFltr, MGDDISrcSetDmxFltr, MGDDISrcStartDmxFltr,
      MGDDISrcStopDmxFltr, MGDDISrcFreeDmxFltr, StopAllEcmFilter, MoveCard
<1>2. ASSUME NEW f \in Filter,
             \/ MGDDISrcAllocDmxFltr(f) \/ MGDDISrcStartDmxFltr(f)
             \/ MGDDISrcStopDmxFltr(f) \/ MGDDISrcFreeDmxFltr(f)
      PROVE  FiltersTyped'
  BY <1>2 DEF FiltersTyped, MGDDISrcAllocDmxFltr, MGDDISrcStartDmxFltr,
              MGDDISrcStopDmxFltr, MGDDISrcFreeDmxFltr, Row
<1>3. ASSUME NEW f \in Filter, NEW s \in Pattern, MGDDISrcSetDmxFltr(f, s)
      PROVE  FiltersTyped'
  <2>1. s \in SUBSET Parity
    BY PatternAssumption DEF Parity
  <2> QED BY <1>3, <2>1 DEF FiltersTyped, MGDDISrcSetDmxFltr, Row
<1>4. ASSUME StopAllEcmFilter \/ MoveCard PROVE FiltersTyped'
  BY <1>4 DEF FiltersTyped, StopAllEcmFilter, MoveCard, filters, Row
<1> QED BY <1>1, <1>2, <1>3, <1>4 DEF Kernel

-----------------------------------------------------------------------------
(* The unlocking of a locked filter.                                       *)

(* A step that brings no new locked filter and moves neither a message nor  *)
(* the ECM thread.                                                         *)
LEMMA BackedKept ==
    ASSUME LockBacked, Lock' \cap notify' \subseteq Lock \cap notify,
           UNCHANGED <<messages, ecm>>
    PROVE  LockBacked'
BY DEF LockBacked, UnlockComing

LEMMA SendBacks ==
    ASSUME ThreadsTyped, LockBacked, capture.at # "wait", ChSectionSend2Ecm,
           UNCHANGED <<notify, ecm>>
    PROVE  LockBacked'
<1> DEFINE c == capture.filter
<1>1. c \in Filter
  BY DEF ThreadsTyped, AtWork
<1>2. /\ messages' = Append(messages, c)
      /\ Lock' = Lock \cup {c}
      /\ messages \in Seq(Filter)
  BY DEF ChSectionSend2Ecm, ThreadsTyped
<1> HIDE DEF c
<1>3. /\ \E i \in DOMAIN messages' : messages'[i] = c
      /\ \A i \in DOMAIN messages : /\ i \in DOMAIN messages'
                                    /\ messages'[i] = messages[i]
  BY <1>1, <1>2, Appended
<1>4. ASSUME NEW f \in Lock' \cap notify' PROVE UnlockComing(f)'
  <2>1. CASE f = c
    BY <1>3, <2>1 DEF UnlockComing
  <2>2. CASE f # c
    <3>1. UnlockComing(f)
      BY <1>2, <1>4, <2>2 DEF LockBacked
    <3> QED BY <1>3, <3>1 DEF UnlockComing
  <2> QED BY <2>1, <2>2
<1> QED BY <1>4 DEF LockBacked

(* The step of the ECM thread that takes a filter up or puts it down.       *)
LEMMA EcmBacks ==
    ASSUME ThreadsTyped, FiltersTyped, LockBacked, EcmThread
    PROVE  LockBacked'
<1>1. ASSUME ReceiveMessage PROVE LockBacked'
  <2>1. /\ messages \in Seq(Filter) /\ messages # <<>>
        /\ messages' = Tail(messages)
        /\ ecm'.at = "copy" /\ ecm'.filter = Head(messages)
        /\ Lock' = Lock /\ notify' = notify /\ ecm.at = "receive"
    BY <1>1 DEF ReceiveMessage, ThreadsTyped, EcmState, filters
  <2>2. \A i \in DOMAIN messages :
            \/ messages[i] = Head(messages)
            \/ \E j \in DOMAIN Tail(messages) : Tail(messages)[j] = messages[i]
    BY <2>1, Received
  <2>3. ASSUME NEW f \in Lock' \cap notify' PROVE UnlockComing(f)'
    <3>1. PICK i \in DOMAIN messages : messages[i] = f
      BY <2>1, <2>3 DEF LockBacked, UnlockComing
    <3> QED BY <2>1, <2>2, <3>1 DEF UnlockComing
  <2> QED BY <2>3 DEF LockBacked
<1>2. ASSUME CopySection PROVE LockBacked'
  <2>1. /\ ecm'.filter = ecm.filter /\ ecm.at = "copy"
        /\ ecm'.at = IF ecm.filter \in notify THEN "reset" ELSE "receive"
        /\ messages' = messages /\ Lock' = Lock /\ notify' = notify
    BY <1>2 DEF CopySection, ThreadsTyped, EcmState, filters
  <2>2. ASSUME NEW f \in Lock' \cap notify' PROVE UnlockComing(f)'
    <3>1. UnlockComing(f) /\ f \in notify
      BY <2>1, <2>2 DEF LockBacked
    <3> QED BY <2>1, <3>1 DEF UnlockComing
  <2> QED BY <2>2 DEF LockBacked
<1>3. ASSUME CHCA_ResetECMFilter PROVE LockBacked'
  <2>1. /\ Lock' = Lock \ {ecm.filter}
        /\ messages' = messages /\ notify' = notify
    BY <1>3 DEF CHCA_ResetECMFilter
  <2>2. ASSUME NEW f \in Lock' \cap notify' PROVE UnlockComing(f)'
    BY <2>1, <2>2 DEF LockBacked, UnlockComing
  <2> QED BY <2>2 DEF LockBacked
<1>4. ASSUME CallKernel \/ UpdateContent \/ ReleaseMessage PROVE LockBacked'
  <2>1. /\ ecm.at \notin {"copy", "reset"}
        /\ Lock' \subseteq Lock /\ notify' = notify /\ messages' = messages
    BY <1>4 DEF CallKernel, UpdateContent, ReleaseMessage, filters
  <2>2. ASSUME NEW f \in Lock' \cap notify' PROVE UnlockComing(f)'
    BY <2>1, <2>2 DEF LockBacked, UnlockComing
  <2> QED BY <2>2 DEF LockBacked
<1> QED BY <1>1, <1>2, <1>3, <1>4 DEF EcmThread

LEMMA CaptureBacks ==
    ASSUME ThreadsTyped, FiltersTyped, LockBacked, CaptureThread
    PROVE  LockBacked'
<1>1. ASSUME NEW f \in Filter, NEW p \in Parity, ReadSection(f, p)
      PROVE  LockBacked'
  BY <1>1, BackedKept DEF ReadSection, filters
<1>2. ASSUME PassOver \/ ClaimFails PROVE LockBacked'
  BY <1>2, BackedKept DEF PassOver, ClaimFails, filters
<1>3. ASSUME ChInsertMgData PROVE LockBacked'
  <2>1. CASE bCardReady /\ CanSend
    BY <1>3, <2>1, SendBacks DEF ChInsertMgData
  <2>2. CASE ~(bCardReady /\ CanSend)
    BY <1>3, <2>2, BackedKept DEF ChInsertMgData
  <2> QED BY <2>1, <2>2
<1>4. ASSUME ClaimSucceeds PROVE LockBacked'
  BY <1>4, SendBacks DEF ClaimSucceeds
<1> QED BY <1>1, <1>2, <1>3, <1>4 DEF CaptureThread

(* A start notifies a filter and unlocks it in one step; every other        *)
(* operation takes a notification or a lock away.                          *)
LEMMA OperationBacks ==
    ASSUME LockBacked, Kernel \/ StopAllEcmFilter \/ MoveCard
    PROVE  LockBacked'
<1>1. /\ UNCHANGED <<messages, ecm>>
      /\ Lock' \cap notify' \subseteq Lock \cap notify
  BY DEF Kernel, MGDDISrcAllocDmxFltr, MGDDISrcSetDmxFltr,
         MGDDISrcStartDmxFltr, MGDDISrcStopDmxFltr, MGDDISrcFreeDmxFltr,
         StopAllEcmFilter, MoveCard, filters
<1> QED BY <1>1, BackedKept

LEMMA EcmInvStep == EcmInv /\ [EcmNext]_ecmVars => EcmInv'
<1> SUFFICES ASSUME EcmInv, [EcmNext]_ecmVars PROVE EcmInv'
  OBVIOUS
<1>1. ThreadsTyped /\ FiltersTyped /\ LockBacked
  BY TypeSplits DEF EcmInv
<1>2. CASE CaptureThread
  BY <1>1, <1>2, CaptureTyped, CaptureBacks, TypeSplitsNext DEF EcmInv
<1>3. CASE EcmThread
  BY <1>1, <1>3, EcmThreadTyped, EcmBacks, TypeSplitsNext DEF EcmInv
<1>4. CASE Kernel \/ StopAllEcmFilter \/ MoveCard
  BY <1>1, <1>4, OperationTyped, OperationBacks, TypeSplitsNext DEF EcmInv
<1>5. CASE UNCHANGED ecmVars
  <2>1. ThreadsTyped' /\ FiltersTyped' /\ LockBacked'
    BY <1>1, <1>5, ThreadsUntouched, BackedKept
    DEF ecmVars, filters, FiltersTyped
  <2> QED BY <2>1, TypeSplitsNext DEF EcmInv
<1> QED BY <1>2, <1>3, <1>4, <1>5 DEF EcmNext

-----------------------------------------------------------------------------
(* The invariant of the ECM path, for every number of filters and messages. *)
THEOREM EcmInvariant == EcmSafety => []EcmInv
<1>1. EcmInit => EcmInv
  BY EcmInitial
<1>2. EcmInv /\ [EcmNext]_ecmVars => EcmInv'
  BY EcmInvStep
<1> QED BY <1>1, <1>2, PTL DEF EcmSafety

(* Threads and filters keep their types, and no more messages are claimed   *)
(* than the queue has.                                                     *)
THEOREM EcmTypeCorrect == EcmSafety => []EcmTypeOK
<1>1. EcmInv => EcmTypeOK
  BY DEF EcmInv
<1> QED BY <1>1, EcmInvariant, PTL

(* No filter is left deaf: whatever the kernel, the programme change and    *)
(* the two threads do in between, a locked filter that the kernel started   *)
(* has its unlocking on the way.                                           *)
THEOREM NoFilterDeaf == EcmSafety => []LockBacked
<1>1. EcmInv => LockBacked
  BY DEF EcmInv
<1> QED BY <1>1, EcmInvariant, PTL
=============================================================================
