-------------------------- MODULE MgEmmQueue_proofs --------------------------
(***************************************************************************)
(* Proofs about MgEmmQueue, for every ring size, every number of messages,  *)
(* every set of filters and every number of sections.                      *)
(***************************************************************************)
EXTENDS MgEmmQueue, SequenceTheorems, TLAPS

-----------------------------------------------------------------------------
(* The ring's arithmetic.                                                  *)

(* The number of sections that wait, without the remainder.                *)
LEMMA LengthIs ==
    ASSUME NEW q \in Ring
    PROVE  /\ ChMgQueueLength(q) = IF q.sFront <= q.sRear
                                   THEN q.sRear - q.sFront
                                   ELSE q.sRear - q.sFront + RingSize
           /\ ChMgQueueLength(q) \in 0 .. RingSize - 1
<1>1. /\ RingSize \in Nat \ {0}
      /\ q.sFront \in 0 .. RingSize - 1 /\ q.sRear \in 0 .. RingSize - 1
  BY RingAssumption DEF Ring, Slot
<1>2. CASE q.sFront <= q.sRear
  BY <1>1, <1>2, SMT DEF ChMgQueueLength
<1>3. CASE ~(q.sFront <= q.sRear)
  BY <1>1, <1>3, SMT DEF ChMgQueueLength
<1> QED BY <1>1, <1>2, <1>3, SMT

(* Where the i-th waiting section lies.                                    *)
LEMMA PlaceIs ==
    ASSUME NEW f \in 0 .. RingSize - 1, NEW i \in 1 .. RingSize
    PROVE  /\ (f + i - 1) % RingSize =
                IF f + i - 1 < RingSize THEN f + i - 1 ELSE f + i - 1 - RingSize
           /\ (f + i - 1) % RingSize \in 0 .. RingSize - 1
<1>1. /\ f + i - 1 >= 0 /\ f + i - 1 < 2 * RingSize
      /\ f \in Int /\ i \in Int /\ RingSize \in Int /\ RingSize > 0
  BY RingAssumption, SMT
<1>2. CASE f + i - 1 < RingSize
  BY <1>1, <1>2, SMT
<1>3. CASE ~(f + i - 1 < RingSize)
  BY <1>1, <1>3, SMT
<1> QED BY <1>2, <1>3

LEMMA NextPlace ==
    ASSUME NEW f \in 0 .. RingSize - 1
    PROVE  /\ (f + 1) % RingSize = IF f + 1 < RingSize THEN f + 1 ELSE 0
           /\ (f + 1) % RingSize \in 0 .. RingSize - 1
  BY RingAssumption, SMT

-----------------------------------------------------------------------------
(* What the two operations do to the contents.                             *)

LEMMA ContentsLength ==
    ASSUME NEW q \in Ring
    PROVE  /\ Contents(q) \in Seq(SectionOrNone)
           /\ Len(Contents(q)) = ChMgQueueLength(q)
           /\ DOMAIN Contents(q) = 1 .. ChMgQueueLength(q)
           /\ Contents(q) = <<>> <=> q.sFront = q.sRear
<1> DEFINE n == ChMgQueueLength(q)
<1>1. n \in Nat /\ n <= RingSize - 1 /\ RingSize \in Nat
  BY LengthIs, RingAssumption, SMT
<1>2. \A i \in 1 .. n :
        q.data[(q.sFront + i - 1) % RingSize] \in SectionOrNone
  <2> SUFFICES ASSUME NEW i \in 1 .. n
               PROVE  q.data[(q.sFront + i - 1) % RingSize] \in SectionOrNone
    OBVIOUS
  <2>1. q.sFront \in 0 .. RingSize - 1 /\ q.data \in [Slot -> SectionOrNone]
    BY DEF Ring, Slot
  <2>2. i \in 1 .. RingSize
    BY <1>1, SMT
  <2>3. (q.sFront + i - 1) % RingSize \in Slot
    BY <2>1, <2>2, PlaceIs DEF Slot
  <2> QED BY <2>1, <2>3
<1>3. Contents(q) \in [1 .. n -> SectionOrNone]
  BY <1>2 DEF Contents
<1>4. Contents(q) \in Seq(SectionOrNone) /\ Len(Contents(q)) = n
  BY <1>1, <1>3, SMT
<1>5. n = 0 <=> q.sFront = q.sRear
  BY LengthIs, RingAssumption, SMT DEF Ring, Slot
<1>6. Contents(q) = <<>> <=> Len(Contents(q)) = 0
  BY <1>4, SMT
<1> QED BY <1>3, <1>4, <1>5, <1>6

LEMMA EnContents ==
    ASSUME NEW q \in Ring, NEW s \in SectionOrNone, ~s.flagged,
           ChMgQueueLength(q) < RingSize - 1
    PROVE  /\ ChEnMgBuffer(q, s) \in Ring
           /\ Contents(ChEnMgBuffer(q, s)) = Append(Contents(q), s)
<1> DEFINE n == ChMgQueueLength(q)
           f == q.sFront
           r == q.sRear
           p == [q EXCEPT !.data[r] = s, !.sRear = (r + 1) % RingSize]
<1>1. /\ RingSize \in Nat \ {0, 1}
      /\ f \in 0 .. RingSize - 1 /\ r \in 0 .. RingSize - 1
      /\ q.data \in [Slot -> SectionOrNone] /\ r \in Slot
  BY RingAssumption DEF Ring, Slot
<1>2. /\ n = IF f <= r THEN r - f ELSE r - f + RingSize
      /\ n \in 0 .. RingSize - 1
  BY LengthIs
<1>3. /\ (r + 1) % RingSize = IF r + 1 < RingSize THEN r + 1 ELSE 0
      /\ (r + 1) % RingSize \in 0 .. RingSize - 1
  BY <1>1, NextPlace
<1>4. (r + 1) % RingSize # f
  BY <1>1, <1>2, <1>3, SMT
<1>5. ChEnMgBuffer(q, s) = p
  BY <1>4 DEF ChEnMgBuffer
<1>6. /\ p \in Ring
      /\ p.data = [q.data EXCEPT ![r] = s] /\ p.sFront = f
      /\ p.sRear = (r + 1) % RingSize
  BY <1>1, <1>3 DEF Ring, Slot
<1>7. ChMgQueueLength(p) = n + 1
  <2>1. ChMgQueueLength(p) = IF p.sFront <= p.sRear
                             THEN p.sRear - p.sFront
                             ELSE p.sRear - p.sFront + RingSize
    BY <1>6, LengthIs
  <2> QED BY <1>1, <1>2, <1>3, <1>6, <2>1, SMT
<1>8. ASSUME NEW i \in 1 .. n + 1
      PROVE  p.data[(f + i - 1) % RingSize] =
                IF i = n + 1 THEN s ELSE q.data[(f + i - 1) % RingSize]
  <2>1. /\ (f + i - 1) % RingSize =
              IF f + i - 1 < RingSize THEN f + i - 1 ELSE f + i - 1 - RingSize
        /\ (f + i - 1) % RingSize \in 0 .. RingSize - 1
    <3>1. i \in 1 .. RingSize
      BY <1>1, <1>2, SMT
    <3> QED BY <1>1, <3>1, PlaceIs
  <2>2. i = n + 1 <=> (f + i - 1) % RingSize = r
    <3>1. i \in Int /\ 1 <= i /\ i <= n + 1
      BY <1>2, SMT
    <3> QED BY <1>1, <1>2, <2>1, <3>1, SMT
  <2>3. (f + i - 1) % RingSize \in Slot
    BY <2>1 DEF Slot
  <2> QED BY <1>1, <1>6, <2>2, <2>3
<1>9. /\ Contents(p) = [i \in 1 .. n + 1 |-> p.data[(f + i - 1) % RingSize]]
      /\ Contents(q) = [i \in 1 .. n |-> q.data[(f + i - 1) % RingSize]]
  BY <1>6, <1>7 DEF Contents
<1>10. /\ Contents(p) \in Seq(SectionOrNone) /\ Len(Contents(p)) = n + 1
       /\ Contents(q) \in Seq(SectionOrNone) /\ Len(Contents(q)) = n
  BY <1>6, <1>7, ContentsLength
<1> DEFINE t == Append(Contents(q), s)
<1>11. /\ t \in Seq(SectionOrNone) /\ Len(t) = n + 1
       /\ \A i \in 1 .. n : t[i] = Contents(q)[i]
       /\ t[n + 1] = s
  BY <1>10, AppendProperties
<1>12. ASSUME NEW i \in 1 .. n + 1
       PROVE  Contents(p)[i] = t[i]
  <2>1. CASE i = n + 1
    BY <1>8, <1>9, <1>11, <2>1
  <2>2. CASE i # n + 1
    <3>1. i \in 1 .. n
      BY <1>2, <2>2, SMT
    <3> QED BY <1>8, <1>9, <1>11, <2>2, <3>1
  <2> QED BY <2>1, <2>2
<1> HIDE DEF t
<1>13. Contents(p) = t
  BY <1>10, <1>11, <1>12, SeqEqual
<1> QED BY <1>5, <1>6, <1>13 DEF t

LEMMA OutContents ==
    ASSUME NEW q \in Ring, q.sFront # q.sRear
    PROVE  /\ ChOutMgBuffer(q) \in Ring
           /\ Contents(ChOutMgBuffer(q)) = Tail(Contents(q))
           /\ Front(q) = Contents(q)[1]
<1> DEFINE n == ChMgQueueLength(q)
           f == q.sFront
           r == q.sRear
           p == [q EXCEPT !.sFront = (f + 1) % RingSize]
<1>1. /\ RingSize \in Nat \ {0, 1}
      /\ f \in 0 .. RingSize - 1 /\ r \in 0 .. RingSize - 1
      /\ q.data \in [Slot -> SectionOrNone]
  BY RingAssumption DEF Ring, Slot
<1>2. /\ n = IF f <= r THEN r - f ELSE r - f + RingSize
      /\ n \in 1 .. RingSize - 1
  BY <1>1, LengthIs, SMT
<1>3. /\ (f + 1) % RingSize = IF f + 1 < RingSize THEN f + 1 ELSE 0
      /\ (f + 1) % RingSize \in 0 .. RingSize - 1
  BY <1>1, NextPlace
<1>4. /\ ChOutMgBuffer(q) = p /\ p \in Ring
      /\ p.data = q.data /\ p.sFront = (f + 1) % RingSize /\ p.sRear = r
  BY <1>1, <1>3 DEF ChOutMgBuffer, Ring, Slot
<1>5. ChMgQueueLength(p) = n - 1
  <2>1. ChMgQueueLength(p) = IF p.sFront <= p.sRear
                             THEN p.sRear - p.sFront
                             ELSE p.sRear - p.sFront + RingSize
    BY <1>4, LengthIs
  <2> QED BY <1>1, <1>2, <1>3, <1>4, <2>1, SMT
<1>6. ASSUME NEW i \in 1 .. n - 1
      PROVE  (((f + 1) % RingSize) + i - 1) % RingSize
                = (f + (i + 1) - 1) % RingSize
  <2>1. i \in 1 .. RingSize /\ i + 1 \in 1 .. RingSize /\ i \in Int
    BY <1>1, <1>2, SMT
  <2>2. (f + (i + 1) - 1) % RingSize =
          IF f + (i + 1) - 1 < RingSize THEN f + (i + 1) - 1
                                        ELSE f + (i + 1) - 1 - RingSize
    BY <1>1, <2>1, PlaceIs
  <2>3. (((f + 1) % RingSize) + i - 1) % RingSize =
          IF ((f + 1) % RingSize) + i - 1 < RingSize
          THEN ((f + 1) % RingSize) + i - 1
          ELSE ((f + 1) % RingSize) + i - 1 - RingSize
    BY <1>3, <2>1, PlaceIs
  <2> QED BY <1>1, <1>2, <1>3, <2>1, <2>2, <2>3, SMT
<1>7. /\ Contents(q) = [i \in 1 .. n |-> q.data[(f + i - 1) % RingSize]]
      /\ Contents(q) \in Seq(SectionOrNone) /\ Len(Contents(q)) = n
      /\ Contents(q) # <<>>
  BY <1>2, ContentsLength DEF Contents
<1>8. /\ Contents(p) = [i \in 1 .. n - 1 |->
                             q.data[(((f + 1) % RingSize) + i - 1) % RingSize]]
      /\ Contents(p) \in Seq(SectionOrNone) /\ Len(Contents(p)) = n - 1
  <2>1. Contents(p) = [i \in 1 .. ChMgQueueLength(p) |->
                          p.data[(p.sFront + i - 1) % RingSize]]
    BY DEF Contents
  <2>2. Contents(p) \in Seq(SectionOrNone)
        /\ Len(Contents(p)) = ChMgQueueLength(p)
    BY <1>4, ContentsLength
  <2> HIDE DEF p
  <2> QED BY <1>4, <1>5, <2>1, <2>2
<1> DEFINE t == Tail(Contents(q))
<1>9. /\ t \in Seq(SectionOrNone) /\ Len(t) = n - 1
      /\ \A i \in 1 .. n - 1 : t[i] = Contents(q)[i + 1]
  BY <1>7, HeadTailProperties
<1>10. ASSUME NEW i \in 1 .. n - 1
       PROVE  Contents(p)[i] = t[i]
  <2>1. i + 1 \in 1 .. n
    BY <1>2, SMT
  <2>2. Contents(q)[i + 1] = q.data[(f + (i + 1) - 1) % RingSize]
    BY <1>7, <2>1
  <2> QED BY <1>6, <1>8, <1>9, <2>2
<1> HIDE DEF t
<1>12. Contents(p) = t
  BY <1>8, <1>9, <1>10, SeqEqual
<1>11. Front(q) = Contents(q)[1]
  <2>1. 1 \in 1 .. n /\ 1 \in 1 .. RingSize
    BY <1>1, <1>2, SMT
  <2>2. (f + 1 - 1) % RingSize = f
    BY <1>1, <2>1, PlaceIs, SMT
  <2> QED BY <1>7, <2>1, <2>2 DEF Front
<1> QED BY <1>4, <1>11, <1>12 DEF t

-----------------------------------------------------------------------------
(* Making room and entering, together.                                     *)
LEMMA RoomContents ==
    ASSUME NEW q \in Ring
    PROVE  /\ MakeRoom(q) \in Ring
           /\ ChMgQueueLength(MakeRoom(q)) < RingSize - 1
           /\ ChMgQueueLength(q) # RingSize - 1 => MakeRoom(q) = q
           /\ ChMgQueueLength(q) = RingSize - 1 =>
                /\ Contents(q) # <<>>
                /\ Contents(MakeRoom(q)) = Tail(Contents(q))
<1>1. RingSize \in Nat \ {0, 1} /\ ChMgQueueLength(q) \in 0 .. RingSize - 1
  BY RingAssumption, LengthIs
<1>2. CASE ChMgQueueLength(q) # RingSize - 1
  <2>1. MakeRoom(q) = q /\ ChMgQueueLength(q) < RingSize - 1
    BY <1>1, <1>2, SMT DEF MakeRoom
  <2> QED BY <1>2, <2>1
<1>3. CASE ChMgQueueLength(q) = RingSize - 1
  <2>1. MakeRoom(q) = ChOutMgBuffer(q)
    BY <1>3 DEF MakeRoom
  <2>2. /\ Contents(q) \in Seq(SectionOrNone)
        /\ Len(Contents(q)) = RingSize - 1
        /\ Contents(q) # <<>>
    <3>1. Contents(q) \in Seq(SectionOrNone) /\ Len(Contents(q)) = RingSize - 1
      BY <1>3, ContentsLength
    <3> QED BY <1>1, <3>1, SMT
  <2>3. q.sFront # q.sRear
    BY <2>2, ContentsLength
  <2>4. ChOutMgBuffer(q) \in Ring
        /\ Contents(ChOutMgBuffer(q)) = Tail(Contents(q))
    BY <2>3, OutContents
  <2>5. Len(Tail(Contents(q))) = RingSize - 2
    BY <1>1, <2>2, HeadTailProperties, SMT
  <2>6. ChMgQueueLength(ChOutMgBuffer(q)) = RingSize - 2
    BY <2>4, <2>5, ContentsLength
  <2> QED BY <1>1, <1>3, <2>1, <2>2, <2>4, <2>6, SMT
<1> QED BY <1>2, <1>3

LEMMA EnRefuses ==
    ASSUME NEW q \in Ring, NEW s, s.flagged
    PROVE  ChEnMgBuffer(q, s) = q
  BY DEF ChEnMgBuffer

LEMMA EmptiedContents ==
    ASSUME NEW q \in Ring
    PROVE  /\ [q EXCEPT !.sFront = 0, !.sRear = 0] \in Ring
           /\ Contents([q EXCEPT !.sFront = 0, !.sRear = 0]) = <<>>
<1> DEFINE p == [q EXCEPT !.sFront = 0, !.sRear = 0]
<1>1. 0 \in Slot
  BY RingAssumption DEF Slot
<1>2. p \in Ring /\ p.sFront = p.sRear
  BY <1>1 DEF Ring
<1> QED BY <1>2, ContentsLength

-----------------------------------------------------------------------------
(* Sections lie where the threads look for them: the ring holds nothing but *)
(* sections, a message or a thread about to copy has one in the hand-over   *)
(* buffer, and a thread on its way to the ring or the kernel has one.       *)
SectionsInHand ==
    /\ Waiting \in Seq(Section)
    /\ messages # <<>> \/ emm.at = "copy" => current.section \in Section
    /\ emm.at \in {"unlock", "check", "call"} => emm.section \in Section
    /\ capture.at = "insert" => capture.section \in Section

EmmInv == TypeOK /\ BacklogServed /\ SectionsInHand

LEMMA EmmInit == Init => EmmInv
<1> SUFFICES ASSUME Init PROVE EmmInv
  OBVIOUS
<1>1. ring \in Ring /\ ring.sFront = ring.sRear
  <2>1. 0 \in Slot
    BY RingAssumption DEF Slot
  <2> QED BY <2>1 DEF Init, EmptyRing, Ring, SectionOrNone
<1>2. Waiting = <<>>
  BY <1>1, ContentsLength DEF Waiting
<1>3. TypeOK
  <2>1. messages \in Seq(Filter) /\ captured \in Nat /\ delivered \in Nat
    BY EmptySeq, SMT DEF Init
  <2>2. current \in [OnUse : BOOLEAN, section : SectionOrNone]
    BY DEF Init, SectionOrNone
  <2>3. capture \in [at : {"wait", "insert"}, section : SectionOrNone]
    BY DEF Init, SectionOrNone, AwaitsSection
  <2>4. emm \in [at : {"receive", "copy", "unlock", "check", "call"},
                 filter : Filter \cup {NoFilter}, section : SectionOrNone,
                 notify : BOOLEAN]
    BY DEF Init, SectionOrNone, AwaitsMessage
  <2>5. /\ pmt \in {"idle", "started", "stopped"}
        /\ card \in {"out", "reset", "in"}
        /\ MGCAStop \in BOOLEAN /\ overtaken \in BOOLEAN
        /\ active \subseteq Filter /\ notify \subseteq Filter
    BY DEF Init
  <2> QED BY <1>1, <2>1, <2>2, <2>3, <2>4, <2>5 DEF TypeOK
<1>4. BacklogServed
  BY <1>1 DEF BacklogServed, Init
<1>5. SectionsInHand
  BY <1>2 DEF SectionsInHand, Init, AwaitsSection, AwaitsMessage
<1> QED BY <1>3, <1>4, <1>5 DEF EmmInv

(* A section taken from a sequence of sections.                            *)
LEMMA FrontSection ==
    ASSUME ring \in Ring, Waiting \in Seq(Section), ring.sFront # ring.sRear
    PROVE  /\ Front(ring) \in Section /\ Front(ring).filter \in Filter
           /\ ChOutMgBuffer(ring) \in Ring
           /\ Contents(ChOutMgBuffer(ring)) = Tail(Waiting)
           /\ Waiting # <<>>
           /\ Tail(Waiting) \in Seq(Section)
<1>1. Waiting # <<>>
  BY ContentsLength DEF Waiting
<1>2. Front(ring) = Waiting[1] /\ ChOutMgBuffer(ring) \in Ring
      /\ Contents(ChOutMgBuffer(ring)) = Tail(Waiting)
  BY OutContents DEF Waiting
<1>3. Waiting[1] \in Section
  <2>1. Len(Waiting) \in Nat /\ Len(Waiting) # 0
    BY <1>1, SMT
  <2>2. 1 \in 1 .. Len(Waiting)
    BY <2>1, SMT
  <2> QED BY <2>2, ElementOfSeq
<1>4. Tail(Waiting) \in Seq(Section)
  BY <1>1, HeadTailProperties
<1> QED BY <1>1, <1>2, <1>3, <1>4 DEF Section

(* What a reset establishes.                                               *)
LEMMA ResetEmpties ==
    ASSUME EmmInv, CHCA_InitMgEmmQueue
    PROVE  /\ ring' \in Ring /\ Waiting' = <<>> /\ ring'.sFront = ring'.sRear
           /\ current' \in [OnUse : BOOLEAN, section : SectionOrNone]
           /\ current'.OnUse = FALSE /\ current'.section = current.section
           /\ messages' = messages
           /\ captured' = captured /\ delivered' = delivered
           /\ overtaken' \in BOOLEAN
<1>1. ring' \in Ring /\ Contents(ring') = <<>>
  BY EmptiedContents DEF CHCA_InitMgEmmQueue, EmmInv, TypeOK
<1>2. Waiting' = Contents(ring')
  BY DEF Waiting, Contents, ChMgQueueLength
<1>3. ring'.sFront = ring'.sRear
  BY DEF CHCA_InitMgEmmQueue, EmmInv, TypeOK, Ring
<1> QED BY <1>1, <1>2, <1>3 DEF CHCA_InitMgEmmQueue, EmmInv, TypeOK

(* What the insertion behind a section in hand does to the ring.            *)
LEMMA BehindContents ==
    ASSUME EmmInv, InsertBehind
    PROVE  /\ ring' \in Ring
           /\ \/ /\ ~capture.section.flagged /\ Len(Waiting) < RingSize - 1
                 /\ Waiting' = Append(Waiting, capture.section)
              \/ /\ ~capture.section.flagged /\ Len(Waiting) = RingSize - 1
                 /\ Waiting # <<>>
                 /\ Waiting' = Append(Tail(Waiting), capture.section)
              \/ /\ capture.section.flagged /\ Waiting # <<>>
                 /\ Waiting' = Tail(Waiting)
              \/ capture.section.flagged /\ Waiting' = Waiting
<1> DEFINE s == capture.section
<1>1. /\ ring \in Ring /\ s \in Section /\ s \in SectionOrNone
      /\ s.flagged \in BOOLEAN
      /\ ring' = ChEnMgBuffer(MakeRoom(ring), s)
  BY DEF EmmInv, TypeOK, SectionsInHand, InsertBehind, SectionOrNone, Section
<1>2. Waiting' = Contents(ring') /\ Waiting = Contents(ring)
  BY DEF Waiting, Contents, ChMgQueueLength
<1>3. /\ MakeRoom(ring) \in Ring
      /\ ChMgQueueLength(MakeRoom(ring)) < RingSize - 1
      /\ ChMgQueueLength(ring) # RingSize - 1 => MakeRoom(ring) = ring
      /\ ChMgQueueLength(ring) = RingSize - 1 =>
            /\ Contents(ring) # <<>>
            /\ Contents(MakeRoom(ring)) = Tail(Contents(ring))
  BY <1>1, RoomContents
<1>4. /\ Len(Waiting) = ChMgQueueLength(ring)
      /\ ChMgQueueLength(ring) \in 0 .. RingSize - 1
      /\ RingSize \in Nat
  BY <1>1, <1>2, ContentsLength, LengthIs, RingAssumption
<1>5. CASE s.flagged
  <2>1. ring' = MakeRoom(ring)
    BY <1>1, <1>3, <1>5, EnRefuses
  <2> QED BY <1>2, <1>3, <1>5, <2>1
<1>6. CASE ~s.flagged
  <2>1. /\ ring' \in Ring
        /\ Contents(ring') = Append(Contents(MakeRoom(ring)), s)
    BY <1>1, <1>3, <1>6, EnContents
  <2>2. CASE ChMgQueueLength(ring) = RingSize - 1
    BY <1>2, <1>3, <1>4, <1>6, <2>1, <2>2
  <2>3. CASE ChMgQueueLength(ring) # RingSize - 1
    <3>1. Len(Waiting) < RingSize - 1
      BY <1>4, <2>3, SMT
    <3> QED BY <1>2, <1>3, <1>6, <2>1, <2>3, <3>1
  <2> QED BY <2>2, <2>3
<1> QED BY <1>1, <1>5, <1>6

-----------------------------------------------------------------------------
(* The invariant is inductive.                                             *)

LEMMA EmmStep == EmmInv /\ [Next]_vars => EmmInv'
<1> SUFFICES ASSUME EmmInv, [Next]_vars PROVE EmmInv'
  OBVIOUS
<1> USE DEF EmmInv
<1>w. ring' = ring => Waiting' = Waiting
  BY DEF Waiting, Contents, ChMgQueueLength
<1>m. messages \in Seq(Filter) /\ Len(messages) \in Nat
  BY DEF TypeOK
<1>t. messages # <<>> => Tail(messages) \in Seq(Filter) /\ Head(messages) \in Filter
  BY <1>m, HeadTailProperties
<1>c. MaxMessage \in Nat /\ MaxMessage >= 2
  BY MessageAssumption, SMT
<1>a. ASSUME NEW f \in Filter
      PROVE  /\ Append(messages, f) \in Seq(Filter)
             /\ Append(messages, f) # <<>>
  BY <1>m, AppendProperties
<1>1. ASSUME NEW f \in Filter, NEW flagged \in BOOLEAN, Capture(f, flagged)
      PROVE  EmmInv'
  <2>1. captured + 1 \in 1 .. MaxSection /\ captured + 1 \in Nat
    BY <1>1, SectionAssumption, SMT DEF Capture, TypeOK
  <2>2. capture'.section \in Section
    BY <1>1, <2>1 DEF Capture, Section
  <2>3. TypeOK'
    BY <1>1, <2>1, <2>2 DEF Capture, TypeOK, buffers, kernel, SectionOrNone
  <2>4. BacklogServed'
    BY <1>1 DEF Capture, BacklogServed, OnItsWay, buffers
  <2>5. SectionsInHand'
    BY <1>1, <1>w, <2>2 DEF Capture, SectionsInHand, buffers
  <2> QED BY <2>3, <2>4, <2>5
<1>2. CASE InsertAtOnce
  <2>1. ring.sFront = ring.sRear /\ ring \in Ring
    BY <1>2 DEF InsertAtOnce, BacklogServed, TypeOK
  <2>2. ChMgQueueLength(ring) = 0
    BY <2>1, LengthIs, RingAssumption, SMT DEF Ring, Slot
  <2>3. /\ ring' = ring
        /\ current' = [OnUse |-> CanSend, section |-> capture.section]
        /\ messages' = IF CanSend
                       THEN Append(messages, capture.section.filter)
                       ELSE messages
    BY <1>2, <2>2 DEF InsertAtOnce
  <2>4. /\ capture.section \in Section /\ capture.section.filter \in Filter
        /\ capture.section \in SectionOrNone
    BY <1>2 DEF InsertAtOnce, SectionsInHand, Section, SectionOrNone
  <2>5. CanSend \in BOOLEAN
    BY DEF CanSend
  <2>6. messages' \in Seq(Filter) /\ (CanSend => messages' # <<>>)
    BY <1>m, <1>a, <2>3, <2>4
  <2>7. TypeOK'
    BY <1>2, <2>3, <2>4, <2>5, <2>6
    DEF InsertAtOnce, TypeOK, AwaitsSection, SectionOrNone, kernel, histories
  <2>8. BacklogServed'
    BY <2>1, <2>3, <2>6 DEF BacklogServed, OnItsWay
  <2>9. SectionsInHand'
    BY <1>2, <1>w, <2>3, <2>4 DEF InsertAtOnce, SectionsInHand, AwaitsSection
  <2> QED BY <2>7, <2>8, <2>9
<1>3. CASE InsertBehind
  <2>1. ring' \in Ring
    BY <1>3, BehindContents
  <2>2. TypeOK'
    BY <1>3, <2>1
    DEF InsertBehind, TypeOK, AwaitsSection, SectionOrNone, kernel, histories
  <2>3. BacklogServed'
    BY <1>3 DEF InsertBehind, BacklogServed, OnItsWay
  <2>4. Waiting' \in Seq(Section)
    <3>1. Waiting \in Seq(Section) /\ capture.section \in Section
      BY <1>3 DEF InsertBehind, SectionsInHand
    <3>2. Waiting # <<>> => Tail(Waiting) \in Seq(Section)
      BY <3>1, HeadTailProperties
    <3>3. /\ Append(Waiting, capture.section) \in Seq(Section)
          /\ Waiting # <<>> =>
                Append(Tail(Waiting), capture.section) \in Seq(Section)
      BY <3>1, <3>2, AppendProperties
    <3> QED BY <1>3, <3>1, <3>2, <3>3, BehindContents
  <2>5. SectionsInHand'
    BY <1>3, <2>4 DEF InsertBehind, SectionsInHand, AwaitsSection
  <2> QED BY <2>2, <2>3, <2>5
<1>4. CASE DropWhileStopped
  <2>1. TypeOK'
    BY <1>4, <1>t DEF DropWhileStopped, TypeOK, threads, kernel, histories
  <2>2. BacklogServed'
    BY <1>4 DEF DropWhileStopped, BacklogServed, OnItsWay, threads
  <2>3. SectionsInHand'
    BY <1>4, <1>w DEF DropWhileStopped, SectionsInHand, threads
  <2> QED BY <2>1, <2>2, <2>3
<1>5. CASE ReceiveMessage
  <2>1. TypeOK'
    BY <1>5, <1>t DEF ReceiveMessage, TypeOK, kernel, histories
  <2>2. BacklogServed'
    BY <1>5 DEF ReceiveMessage, BacklogServed, OnItsWay, TypeOK
  <2>3. SectionsInHand'
    BY <1>5, <1>w DEF ReceiveMessage, SectionsInHand, TypeOK
  <2> QED BY <2>1, <2>2, <2>3
<1>6. CASE CopySection
  <2>1. TypeOK'
    <3> DEFINE b == emm.filter \in notify
    <3>1. b \in BOOLEAN
      OBVIOUS
    <3>2. emm' = [emm EXCEPT !.at = "unlock", !.section = current.section,
                             !.notify = b]
      BY <1>6 DEF CopySection
    <3> HIDE DEF b
    <3>3. emm' \in [at : {"receive", "copy", "unlock", "check", "call"},
                    filter : Filter \cup {NoFilter}, section : SectionOrNone,
                    notify : BOOLEAN]
      BY <3>1, <3>2 DEF TypeOK
    <3> QED
      BY <1>6, <3>3 DEF CopySection, TypeOK, buffers, kernel, histories
  <2>2. BacklogServed'
    BY <1>6 DEF CopySection, BacklogServed, OnItsWay, TypeOK, buffers
  <2>3. SectionsInHand'
    BY <1>6, <1>w DEF CopySection, SectionsInHand, TypeOK, buffers
  <2> QED BY <2>1, <2>2, <2>3
<1>7. CASE CHCA_MgEmmSectionUnlock
  <2>1. emm' = [emm EXCEPT !.at = "check"] /\ emm'.at = "check"
        /\ emm.at = "unlock"
    BY <1>7 DEF CHCA_MgEmmSectionUnlock, TypeOK
  <2>2. CASE ~current.OnUse
    <3>1. UNCHANGED buffers
      BY <1>7, <2>2 DEF CHCA_MgEmmSectionUnlock
    <3>2. TypeOK'
      BY <1>7, <2>1, <3>1
      DEF CHCA_MgEmmSectionUnlock, TypeOK, buffers, kernel, histories
    <3>3. BacklogServed'
      BY <2>2, <3>1 DEF BacklogServed, buffers
    <3>4. SectionsInHand'
      BY <1>7, <1>w, <2>1, <3>1
      DEF CHCA_MgEmmSectionUnlock, SectionsInHand, buffers, TypeOK
    <3> QED BY <3>2, <3>3, <3>4
  <2>3. CASE current.OnUse /\ ring.sFront = ring.sRear
    <3>1. current' = [current EXCEPT !.OnUse = FALSE]
          /\ UNCHANGED <<ring, messages>>
      BY <1>7, <2>3 DEF CHCA_MgEmmSectionUnlock
    <3>2. TypeOK'
      BY <1>7, <2>1, <3>1
      DEF CHCA_MgEmmSectionUnlock, TypeOK, kernel, histories
    <3>3. BacklogServed'
      BY <2>3, <3>1 DEF BacklogServed, TypeOK
    <3>4. SectionsInHand'
      BY <1>7, <1>w, <2>1, <3>1
      DEF CHCA_MgEmmSectionUnlock, SectionsInHand, TypeOK
    <3> QED BY <3>2, <3>3, <3>4
  <2>4. CASE current.OnUse /\ ring.sFront # ring.sRear
    <3>1. /\ current' = [current EXCEPT !.section = Front(ring)]
          /\ ring' = ChOutMgBuffer(ring)
          /\ messages' = IF CanSend THEN Append(messages, Front(ring).filter)
                                    ELSE messages
      BY <1>7, <2>4 DEF CHCA_MgEmmSectionUnlock
    <3>2. /\ Front(ring) \in Section /\ Front(ring).filter \in Filter
          /\ ring' \in Ring /\ Waiting' \in Seq(Section)
      <4>1. Waiting' = Contents(ring')
        BY DEF Waiting, Contents, ChMgQueueLength
      <4> QED BY <2>4, <3>1, <4>1, FrontSection DEF TypeOK, SectionsInHand
    <3>3. messages' \in Seq(Filter)
      BY <1>m, <1>a, <3>1, <3>2
    <3>4. messages' # <<>>
      <4>1. CASE CanSend
        BY <1>a, <3>1, <3>2, <4>1
      <4>2. CASE ~CanSend
        <5>1. Len(messages) + 1 >= MaxMessage
          BY <1>m, <1>c, <2>1, <4>2, SMT DEF CanSend, Claimed
        <5>2. Len(messages) # 0
          BY <1>m, <1>c, <5>1, SMT
        <5> QED BY <1>m, <3>1, <4>2, <5>2
      <4> QED BY <4>1, <4>2
    <3>5. TypeOK'
      BY <1>7, <2>1, <3>1, <3>2, <3>3
      DEF CHCA_MgEmmSectionUnlock, TypeOK, kernel, histories, SectionOrNone
    <3>6. BacklogServed'
      BY <2>4, <3>1, <3>4 DEF BacklogServed, OnItsWay, TypeOK
    <3>7. SectionsInHand'
      BY <1>7, <2>1, <3>1, <3>2
      DEF CHCA_MgEmmSectionUnlock, SectionsInHand, TypeOK
    <3> QED BY <3>5, <3>6, <3>7
  <2> QED BY <2>2, <2>3, <2>4
<1>8. CASE CheckCard
  <2>1. /\ emm'.at \in {"call", "receive"}
        /\ emm.at = "check"
        /\ emm' = AwaitsMessage \/ emm' = [emm EXCEPT !.at = "call"]
    BY <1>8 DEF CheckCard, AwaitsMessage, TypeOK
  <2>2. TypeOK'
    <3>1. emm' \in [at : {"receive", "copy", "unlock", "check", "call"},
                    filter : Filter \cup {NoFilter}, section : SectionOrNone,
                    notify : BOOLEAN]
      <4>1. CASE emm' = AwaitsMessage
        BY <4>1 DEF AwaitsMessage, SectionOrNone
      <4>2. CASE emm' = [emm EXCEPT !.at = "call"]
        BY <4>2 DEF TypeOK
      <4> QED BY <2>1, <4>1, <4>2
    <3> QED BY <1>8, <3>1 DEF CheckCard, TypeOK, buffers, kernel, histories
  <2>3. BacklogServed'
    BY <1>8, <2>1 DEF CheckCard, BacklogServed, OnItsWay, buffers
  <2>4. SectionsInHand'
    BY <1>8, <1>w, <2>1
    DEF CheckCard, SectionsInHand, buffers, AwaitsMessage, TypeOK
  <2> QED BY <2>2, <2>3, <2>4
<1>9. CASE CallKernel
  <2>1. emm.section.id \in Nat
    BY <1>9, SectionAssumption, SMT DEF CallKernel, SectionsInHand, Section
  <2>2. TypeOK'
    BY <1>9, <2>1
    DEF CallKernel, TypeOK, buffers, kernel, AwaitsMessage, SectionOrNone
  <2>3. BacklogServed'
    BY <1>9 DEF CallKernel, BacklogServed, OnItsWay, buffers, AwaitsMessage
  <2>4. SectionsInHand'
    BY <1>9, <1>w DEF CallKernel, SectionsInHand, buffers, AwaitsMessage
  <2> QED BY <2>2, <2>3, <2>4
<1>10. CASE StartDelivery
  <2>1. TypeOK'
    BY <1>10 DEF StartDelivery, TypeOK, buffers, kernel, histories
  <2>2. BacklogServed'
    BY <1>10 DEF StartDelivery, BacklogServed, OnItsWay, buffers
  <2>3. SectionsInHand'
    BY <1>10, <1>w DEF StartDelivery, SectionsInHand, buffers
  <2> QED BY <2>1, <2>2, <2>3
<1>11. CASE StopDelivery
  <2>1. TypeOK'
    BY <1>11 DEF StopDelivery, TypeOK, buffers, kernel, histories
  <2>2. BacklogServed'
    BY <1>11 DEF StopDelivery, BacklogServed, OnItsWay, buffers
  <2>3. SectionsInHand'
    BY <1>11, <1>w DEF StopDelivery, SectionsInHand, buffers
  <2> QED BY <2>1, <2>2, <2>3
<1>12. ASSUME CHCA_InitMgEmmQueue,
              UNCHANGED <<capture, emm, MGCAStop, kernel>>,
              pmt' \in {"idle", "started", "stopped"},
              card' \in {"out", "reset", "in"}
       PROVE  EmmInv'
  <2>1. /\ ring' \in Ring /\ Waiting' = <<>> /\ ring'.sFront = ring'.sRear
        /\ current' \in [OnUse : BOOLEAN, section : SectionOrNone]
        /\ current'.OnUse = FALSE /\ current'.section = current.section
        /\ messages' = messages
        /\ captured' = captured /\ delivered' = delivered
        /\ overtaken' \in BOOLEAN
    BY <1>12, ResetEmpties
  <2>2. TypeOK'
    BY <1>12, <2>1 DEF TypeOK, kernel
  <2>3. BacklogServed'
    BY <2>1 DEF BacklogServed
  <2>4. SectionsInHand'
    BY <1>12, <2>1, EmptySeq DEF SectionsInHand
  <2> QED BY <2>2, <2>3, <2>4
<1>13. CASE FinishStartOrStop \/ ChangeTransponder \/ CardResetsQueue
  <2>1. pmt \in {"idle", "started", "stopped"} /\ card \in {"out", "reset", "in"}
    BY DEF TypeOK
  <2> QED BY <1>12, <1>13, <2>1
          DEF FinishStartOrStop, ChangeTransponder, CardResetsQueue, threads
<1>14. CASE ExtractCard \/ CardBecomesReady
  <2>1. TypeOK'
    BY <1>14 DEF ExtractCard, CardBecomesReady, TypeOK, buffers, kernel, histories
  <2>2. BacklogServed'
    BY <1>14 DEF ExtractCard, CardBecomesReady, BacklogServed, OnItsWay, buffers
  <2>3. SectionsInHand'
    BY <1>14, <1>w DEF ExtractCard, CardBecomesReady, SectionsInHand, buffers
  <2> QED BY <2>1, <2>2, <2>3
<1>15. ASSUME NEW f \in Filter, StartFilter(f) \/ StopFilter(f) \/ FreeFilter(f)
       PROVE  EmmInv'
  <2>1. TypeOK'
    BY <1>15
    DEF StartFilter, StopFilter, FreeFilter, TypeOK, buffers, threads, histories
  <2>2. BacklogServed'
    BY <1>15 DEF StartFilter, StopFilter, FreeFilter, BacklogServed, OnItsWay,
                 buffers, threads
  <2>3. SectionsInHand'
    BY <1>15, <1>w DEF StartFilter, StopFilter, FreeFilter, SectionsInHand,
                       buffers, threads
  <2> QED BY <2>1, <2>2, <2>3
<1>16. CASE UNCHANGED vars
  <2>1. TypeOK'
    BY <1>16 DEF vars, TypeOK, buffers, threads, kernel, histories
  <2>2. BacklogServed'
    BY <1>16 DEF vars, BacklogServed, OnItsWay, buffers, threads
  <2>3. SectionsInHand'
    BY <1>16, <1>w DEF vars, SectionsInHand, buffers, threads
  <2> QED BY <2>1, <2>2, <2>3
<1> QED
  BY <1>1, <1>2, <1>3, <1>4, <1>5, <1>6, <1>7, <1>8, <1>9, <1>10, <1>11,
     <1>13, <1>14, <1>15, <1>16
  DEF Next, CaptureThread, EmmThread, PmtThread, CardThread, Kernel

-----------------------------------------------------------------------------
(* The theorems.                                                           *)

(* Every reachable state satisfies the invariant, whatever the size of the  *)
(* ring, the number of messages and the interleaving of the five threads.   *)
THEOREM EmmInvariant == Spec => []EmmInv
<1>1. Init => EmmInv
  BY EmmInit
<1>2. EmmInv /\ [Next]_vars => EmmInv'
  BY EmmStep
<1> QED BY <1>1, <1>2, PTL DEF Spec

(* The queue's variables have their types: the ring's indices stay inside   *)
(* its array, and every message names a filter.                            *)
THEOREM EmmTypeCorrect == Spec => []TypeOK
<1>1. EmmInv => TypeOK
  BY DEF EmmInv
<1> QED BY <1>1, EmmInvariant, PTL

(* A backlog always has a message, a thread or a reset that will move it.   *)
THEOREM BacklogIsServed == Spec => []BacklogServed
<1>1. EmmInv => BacklogServed
  BY DEF EmmInv
<1> QED BY <1>1, EmmInvariant, PTL

(* The section that arrives while another is in hand is the last to wait.   *)
THEOREM NewestKept == Spec => NewestIsKept
<1> DEFINE A == InsertBehind /\ ~capture.section.flagged =>
                    /\ Waiting' # <<>>
                    /\ Waiting'[Len(Waiting')] = capture.section
<1>1. EmmInv /\ [Next]_vars => [A]_vars
  <2> SUFFICES ASSUME EmmInv, InsertBehind, ~capture.section.flagged
               PROVE  /\ Waiting' # <<>>
                      /\ Waiting'[Len(Waiting')] = capture.section
    OBVIOUS
  <2>1. Waiting \in Seq(Section) /\ capture.section \in Section
    BY DEF EmmInv, SectionsInHand, InsertBehind
  <2>2. ASSUME NEW w \in Seq(Section)
        PROVE  /\ Append(w, capture.section) # <<>>
               /\ Append(w, capture.section)[Len(Append(w, capture.section))]
                    = capture.section
    BY <2>1, AppendProperties
  <2>3. Waiting # <<>> => Tail(Waiting) \in Seq(Section)
    BY <2>1, HeadTailProperties
  <2> QED BY <2>1, <2>2, <2>3, BehindContents
<1>2. Spec => [][A]_vars
  BY <1>1, EmmInvariant, PTL DEF Spec
<1> QED BY <1>2 DEF NewestIsKept

(* A step of the threads is a step of the bounded queue, or leaves it.      *)
LEMMA RingStep == EmmInv /\ [Next]_vars => [Fifo!Next]_Waiting
<1> SUFFICES ASSUME EmmInv, [Next]_vars, Waiting' # Waiting
             PROVE  Fifo!Next
  OBVIOUS
<1>1. ring' # ring
  BY DEF Waiting, Contents, ChMgQueueLength
<1>2. CASE InsertBehind
  <2>1. capture.section \in Section /\ Waiting \in Seq(Section)
    BY <1>2 DEF EmmInv, SectionsInHand, InsertBehind
  <2> QED BY <1>2, <2>1, BehindContents
          DEF Fifo!Next, Fifo!Put, Fifo!Displace, Fifo!Take
<1>3. CASE InsertAtOnce
  <2>1. ring.sFront = ring.sRear /\ ring \in Ring
    BY <1>3 DEF InsertAtOnce, EmmInv, BacklogServed, TypeOK
  <2>2. ChMgQueueLength(ring) = 0
    BY <2>1, LengthIs, RingAssumption, SMT DEF Ring, Slot
  <2> QED BY <1>1, <1>3, <2>2 DEF InsertAtOnce
<1>4. CASE CHCA_MgEmmSectionUnlock
  <2>1. ring.sFront # ring.sRear /\ ring' = ChOutMgBuffer(ring)
    BY <1>1, <1>4 DEF CHCA_MgEmmSectionUnlock, buffers
  <2>2. Waiting' = Contents(ring')
    BY DEF Waiting, Contents, ChMgQueueLength
  <2> QED BY <2>1, <2>2, FrontSection
          DEF EmmInv, TypeOK, SectionsInHand, Fifo!Next, Fifo!Take
<1>5. CASE CHCA_InitMgEmmQueue
  BY <1>5, ResetEmpties DEF Fifo!Next, Fifo!Clear
<1> QED
  BY <1>1, <1>2, <1>3, <1>4, <1>5
  DEF Next, CaptureThread, EmmThread, PmtThread, CardThread, Kernel, Capture,
      DropWhileStopped, ReceiveMessage, CopySection, CheckCard, CallKernel,
      StartDelivery, StopDelivery, FinishStartOrStop, ChangeTransponder,
      ExtractCard, CardBecomesReady, CardResetsQueue, StartFilter, StopFilter,
      FreeFilter, vars, buffers

(* The ring with its wrapping indices, and everything five threads do to it,*)
(* implements a bounded first-in first-out queue.                          *)
THEOREM RingImplementsFifo == Spec => ImplementsFifo
<1>1. Init => Fifo!Init
  BY EmmInit, ContentsLength DEF Init, EmptyRing, EmmInv, TypeOK, Waiting,
     Fifo!Init
<1>2. EmmInv /\ [Next]_vars => [Fifo!Next]_Waiting
  BY RingStep
<1> QED BY <1>1, <1>2, EmmInvariant, PTL DEF Spec, ImplementsFifo, Fifo!Spec

-----------------------------------------------------------------------------
(* The order in which sections reach the kernel.                           *)

(* The number of the newest section that is in the buffers or past them.    *)
Inserted == IF capture.at = "insert" THEN captured - 1 ELSE captured

(* A sequence of sections in the order of capture, after the a-th.          *)
Ascends(w, a, b) ==
    /\ \A i \in DOMAIN w : a < w[i].id /\ w[i].id <= b
    /\ \A i, j \in DOMAIN w : i < j => w[i].id < w[j].id

(* Nothing but the section in the capturing thread's hand is newer than     *)
(* what was inserted, and the ring continues the hand-over buffer.          *)
StreamOrder ==
    /\ capture.at = "insert" => capture.section.id = captured
    /\ delivered <= Inserted
    /\ current.section \in Section => current.section.id <= Inserted
    /\ emm.section \in Section => emm.section.id <= Inserted
    /\ current.OnUse => /\ current.section \in Section
                        /\ Ascends(Waiting, current.section.id, Inserted)

(* The one message outstanding, or the EMM thread until it has copied the   *)
(* section and passed the next one on, is about the section in the buffer.  *)
OneAnnounced ==
    /\ Len(messages) <= 1
    /\ messages # <<>> => /\ current.OnUse
                          /\ Head(messages) = current.section.filter
                          /\ emm.at \notin {"copy", "unlock"}
    /\ emm.at \in {"copy", "unlock"} => /\ current.OnUse
                                        /\ emm.filter = current.section.filter
    /\ emm.at = "unlock" => emm.section = current.section

(* What the kernel is about to be given comes before the buffer's section   *)
(* and after what it was given.                                             *)
HandedInOrder ==
    /\ current.OnUse => delivered < current.section.id
    /\ emm.at \in {"check", "call"} =>
          /\ emm.section.filter = emm.filter
          /\ delivered < emm.section.id
          /\ current.OnUse => emm.section.id < current.section.id

InStep == ~overtaken => OneAnnounced /\ HandedInOrder

OrderInv == EmmInv /\ StreamOrder /\ InStep

LEMMA Numbered ==
    /\ \A s \in Section : s.id \in Int /\ s.id > 0 /\ s.filter \in Filter
    /\ \A w \in Seq(Section) : \A i \in DOMAIN w : w[i] \in Section
<1>1. ASSUME NEW s \in Section
      PROVE  s.id \in Int /\ s.id > 0 /\ s.filter \in Filter
  <2>1. s.id \in 1 .. MaxSection /\ s.filter \in Filter
    BY DEF Section
  <2> QED BY <2>1, SectionAssumption
<1>2. ASSUME NEW w \in Seq(Section), NEW i \in DOMAIN w
      PROVE  w[i] \in Section
  BY ElementOfSeq, LenProperties
<1> QED BY <1>1, <1>2

(* Ascending sequences, when they grow at the end and lose their first.    *)
LEMMA AscendsTail ==
    ASSUME NEW w \in Seq(Section), w # <<>>, NEW a \in Int, NEW b \in Int,
           Ascends(w, a, b)
    PROVE  /\ a < w[1].id /\ w[1].id <= b
           /\ Ascends(Tail(w), w[1].id, b)
           /\ Ascends(Tail(w), a, b)
<1>1. /\ Len(w) \in Nat /\ Len(w) # 0 /\ DOMAIN w = 1 .. Len(w)
      /\ Tail(w) \in Seq(Section) /\ Len(Tail(w)) = Len(w) - 1
      /\ \A i \in 1 .. Len(Tail(w)) : Tail(w)[i] = w[i + 1]
  BY HeadTailProperties
<1>2. DOMAIN Tail(w) = 1 .. Len(w) - 1
  BY <1>1
<1>3. \A i \in DOMAIN w : w[i] \in Section /\ w[i].id \in Int
  BY Numbered
<1>4. 1 \in DOMAIN w /\ a < w[1].id /\ w[1].id <= b /\ w[1].id \in Int
  <2>1. 1 \in DOMAIN w
    BY <1>1, SMT
  <2> QED BY <1>3, <2>1 DEF Ascends
<1>5. ASSUME NEW i \in DOMAIN Tail(w)
      PROVE  /\ Tail(w)[i] = w[i + 1] /\ i + 1 \in DOMAIN w
             /\ w[1].id < w[i + 1].id /\ w[i + 1].id <= b /\ a < w[i + 1].id
  <2>1. Tail(w)[i] = w[i + 1]
    BY <1>1, <1>2
  <2>2. i + 1 \in DOMAIN w /\ 1 < i + 1
    BY <1>1, <1>2, SMT
  <2> QED BY <1>4, <2>1, <2>2 DEF Ascends
<1>6. ASSUME NEW i \in DOMAIN Tail(w), NEW j \in DOMAIN Tail(w), i < j
      PROVE  Tail(w)[i].id < Tail(w)[j].id
  <2>1. i + 1 < j + 1
    BY <1>1, <1>2, <1>6, SMT
  <2> QED BY <1>5, <2>1 DEF Ascends
<1> QED BY <1>4, <1>5, <1>6 DEF Ascends

LEMMA AscendsMore ==
    ASSUME NEW w \in Seq(Section), NEW a \in Int, NEW b \in Int, a <= b,
           Ascends(w, a, b)
    PROVE  /\ Ascends(w, a, b + 1)
           /\ \A s \in Section : s.id = b + 1 => Ascends(Append(w, s), a, b + 1)
<1>1. \A i \in DOMAIN w : w[i] \in Section /\ w[i].id \in Int
  BY Numbered
<1>2. ASSUME NEW i \in DOMAIN w
      PROVE  w[i].id <= b + 1 /\ w[i].id < b + 1 /\ a < w[i].id
  BY <1>1, SMT DEF Ascends
<1>3. Ascends(w, a, b + 1)
  BY <1>2 DEF Ascends
<1>4. ASSUME NEW s \in Section, s.id = b + 1
      PROVE  Ascends(Append(w, s), a, b + 1)
  <2> DEFINE t == Append(w, s)
             n == Len(w)
  <2>1. /\ n \in Nat /\ DOMAIN w = 1 .. n /\ DOMAIN t = 1 .. n + 1
        /\ \A i \in 1 .. n : t[i] = w[i]
        /\ t[n + 1] = s
    BY AppendProperties
  <2> HIDE DEF t, n
  <2>2. ASSUME NEW i \in DOMAIN t
        PROVE  /\ i = n + 1 => t[i].id = b + 1
               /\ i # n + 1 => i \in DOMAIN w /\ t[i] = w[i]
    <3>1. i # n + 1 => i \in 1 .. n
      BY <2>1, SMT
    <3> QED BY <1>4, <2>1, <3>1
  <2>3. ASSUME NEW i \in DOMAIN t
        PROVE  a < t[i].id /\ t[i].id <= b + 1
    <3>1. CASE i = n + 1
      BY <2>2, <3>1
    <3>2. CASE i # n + 1
      BY <1>2, <2>2, <3>2
    <3> QED BY <3>1, <3>2
  <2>4. ASSUME NEW i \in DOMAIN t, NEW j \in DOMAIN t, i < j
        PROVE  t[i].id < t[j].id
    <3>1. i # n + 1
      BY <2>1, <2>4, SMT
    <3>2. CASE j = n + 1
      BY <1>2, <2>2, <3>1, <3>2
    <3>3. CASE j # n + 1
      BY <2>2, <2>4, <3>1, <3>3 DEF Ascends
    <3> QED BY <3>2, <3>3
  <2>5. Ascends(t, a, b + 1)
    BY <2>3, <2>4 DEF Ascends
  <2> QED BY <2>5 DEF t
<1> QED BY <1>3, <1>4

LEMMA NoneAscend ==
    ASSUME NEW a, NEW b
    PROVE  Ascends(<<>>, a, b)
<1>1. DOMAIN <<>> = {}
  BY EmptySeq
<1> QED BY <1>1 DEF Ascends

LEMMA OrderFacts ==
    ASSUME OrderInv
    PROVE  /\ captured \in Int /\ delivered \in Int /\ Inserted \in Int
           /\ capture.at = "wait" => Inserted = captured
           /\ capture.at = "insert" => /\ Inserted = captured - 1
                                       /\ capture.section \in Section
                                       /\ capture.section.id = Inserted + 1
           /\ messages \in Seq(Filter) /\ Waiting \in Seq(Section)
<1>1. captured \in Int /\ delivered \in Int /\ messages \in Seq(Filter)
  BY DEF OrderInv, EmmInv, TypeOK
<1>2. Waiting \in Seq(Section)
      /\ (capture.at = "insert" => capture.section \in Section)
  BY DEF OrderInv, EmmInv, SectionsInHand
<1>3. capture.at = "insert" => capture.section.id = captured
  BY DEF OrderInv, StreamOrder
<1> QED BY <1>1, <1>2, <1>3 DEF Inserted

(* A step that leaves the buffers, the EMM thread and the histories.        *)
LEMMA ElsewhereKeeps ==
    ASSUME OrderInv, Inserted' = Inserted,
           UNCHANGED <<buffers, emm, delivered, overtaken>>,
           capture'.at = "insert" => capture'.section.id = captured'
    PROVE  StreamOrder' /\ InStep'
<1>1. /\ ring' = ring /\ current' = current /\ messages' = messages /\ emm' = emm
      /\ delivered' = delivered /\ overtaken' = overtaken
  BY DEF buffers
<1>2. Waiting' = Waiting
  BY <1>1 DEF Waiting, Contents, ChMgQueueLength
<1>3. StreamOrder'
  BY <1>1, <1>2 DEF OrderInv, StreamOrder, Ascends
<1>4. InStep'
  BY <1>1 DEF OrderInv, InStep, OneAnnounced, HandedInOrder
<1> QED BY <1>3, <1>4

LEMMA CaptureOrder ==
    ASSUME OrderInv, NEW f \in Filter, NEW flagged \in BOOLEAN, Capture(f, flagged)
    PROVE  StreamOrder' /\ InStep'
<1>1. /\ captured' = captured + 1 /\ capture.at = "wait"
      /\ capture'.at = "insert" /\ capture'.section.id = captured + 1
      /\ UNCHANGED <<buffers, emm, delivered, overtaken>>
  BY DEF Capture
<1>2. Inserted' = Inserted
  <2>1. Inserted' = captured' - 1 /\ Inserted = captured /\ captured \in Int
    BY <1>1, OrderFacts DEF Inserted
  <2> QED BY <1>1, <2>1
<1> QED BY <1>1, <1>2, ElsewhereKeeps

LEMMA InsertAtOnceOrder ==
    ASSUME OrderInv, InsertAtOnce
    PROVE  StreamOrder' /\ InStep'
<1> DEFINE s == capture.section
<1>1. /\ ring.sFront = ring.sRear /\ ring \in Ring /\ ~ current.OnUse
      /\ capture.at = "insert" /\ capture'.at = "wait"
      /\ emm' = emm /\ delivered' = delivered /\ captured' = captured
      /\ overtaken' = overtaken
  BY DEF InsertAtOnce, OrderInv, EmmInv, BacklogServed, TypeOK, AwaitsSection,
         histories
<1>2. ChMgQueueLength(ring) = 0
  BY <1>1, LengthIs, RingAssumption, SMT DEF Ring, Slot
<1>3. /\ ring' = ring
      /\ current' = [OnUse |-> CanSend, section |-> s]
      /\ messages' = IF CanSend THEN Append(messages, s.filter) ELSE messages
  BY <1>2 DEF InsertAtOnce
<1>4. Waiting' = <<>>
  <2>1. Waiting' = Waiting
    BY <1>3 DEF Waiting, Contents, ChMgQueueLength
  <2> QED BY <1>1, <2>1, ContentsLength DEF Waiting
<1>5. /\ s \in Section /\ s.id = Inserted + 1 /\ Inserted = captured - 1
      /\ Inserted' = captured /\ captured \in Int /\ delivered \in Int
      /\ messages \in Seq(Filter) /\ s.filter \in Filter
  BY <1>1, OrderFacts, Numbered DEF Inserted
<1>6. /\ current'.section = s /\ (current'.OnUse <=> CanSend)
  BY <1>3
<1>7. /\ delivered <= Inserted
      /\ emm.section \in Section => emm.section.id \in Int
                                    /\ emm.section.id <= Inserted
  BY Numbered DEF OrderInv, StreamOrder
<1>8. StreamOrder'
  <2>1. Ascends(Waiting', s.id, Inserted')
    BY <1>4, NoneAscend
  <2>2. /\ delivered' <= Inserted' /\ s.id <= Inserted'
        /\ emm'.section \in Section => emm'.section.id <= Inserted'
    BY <1>1, <1>5, <1>7
  <2> QED BY <1>1, <1>5, <1>6, <2>1, <2>2 DEF StreamOrder, Ascends
<1>9. ASSUME ~ overtaken
      PROVE  OneAnnounced' /\ HandedInOrder'
  <2>1. messages = <<>> /\ emm.at \notin {"copy", "unlock"}
    BY <1>1, <1>9 DEF OrderInv, InStep, OneAnnounced
  <2>2. /\ Len(messages') <= 1
        /\ messages' # <<>> => CanSend /\ Head(messages') = s.filter
    <3>1. CASE CanSend
      <4>1. messages' = <<s.filter>>
        BY <1>3, <1>5, <2>1, <3>1
      <4> QED BY <3>1, <4>1
    <3>2. CASE ~ CanSend
      BY <1>3, <2>1, <3>2
    <3> QED BY <3>1, <3>2
  <2>3. OneAnnounced'
    BY <1>1, <1>6, <2>1, <2>2 DEF OneAnnounced
  <2>4. delivered < s.id
    BY <1>5, <1>7
  <2>5. ASSUME emm.at \in {"check", "call"}
        PROVE  /\ emm.section.filter = emm.filter
               /\ delivered < emm.section.id
               /\ emm.section.id < s.id
    <3>1. emm.section \in Section
      BY <2>5 DEF OrderInv, EmmInv, SectionsInHand
    <3>2. emm.section.id < s.id
      BY <1>5, <1>7, <3>1
    <3> QED BY <1>9, <2>5, <3>2 DEF OrderInv, InStep, HandedInOrder
  <2>6. HandedInOrder'
    BY <1>1, <1>6, <2>4, <2>5 DEF HandedInOrder
  <2> QED BY <2>3, <2>6
<1>10. InStep'
  BY <1>1, <1>9 DEF InStep
<1> QED BY <1>8, <1>10

LEMMA InsertBehindOrder ==
    ASSUME OrderInv, InsertBehind
    PROVE  StreamOrder' /\ InStep'
<1> DEFINE s == capture.section
           a == current.section.id
<1>1. /\ current.OnUse /\ capture.at = "insert" /\ capture'.at = "wait"
      /\ current' = current /\ messages' = messages /\ emm' = emm
      /\ delivered' = delivered /\ captured' = captured /\ overtaken' = overtaken
  BY DEF InsertBehind, AwaitsSection, histories
<1>2. /\ s \in Section /\ s.id = Inserted + 1 /\ Inserted' = Inserted + 1
      /\ Inserted \in Int /\ delivered \in Int /\ captured \in Int
      /\ Waiting \in Seq(Section)
  <2>1. Inserted' = captured /\ Inserted = captured - 1 /\ captured \in Int
    BY <1>1, OrderFacts DEF Inserted
  <2> QED BY <1>1, <2>1, OrderFacts
<1>3. /\ current.section \in Section /\ a \in Int /\ a <= Inserted
      /\ Ascends(Waiting, a, Inserted)
  BY <1>1, Numbered DEF OrderInv, StreamOrder
<1>4. /\ Ascends(Waiting, a, Inserted + 1)
      /\ Ascends(Append(Waiting, s), a, Inserted + 1)
  BY <1>2, <1>3, AscendsMore
<1>5. ASSUME Waiting # <<>>
      PROVE  /\ Ascends(Tail(Waiting), a, Inserted + 1)
             /\ Ascends(Append(Tail(Waiting), s), a, Inserted + 1)
  <2>1. Ascends(Tail(Waiting), a, Inserted) /\ Tail(Waiting) \in Seq(Section)
    BY <1>2, <1>3, <1>5, AscendsTail, HeadTailProperties
  <2> QED BY <1>2, <1>3, <2>1, AscendsMore
<1>6. PICK w : w = Waiting'
  OBVIOUS
<1>7. Ascends(w, a, Inserted + 1)
  <2>1. \/ w = Waiting \/ w = Append(Waiting, s)
        \/ Waiting # <<>> /\ w = Tail(Waiting)
        \/ Waiting # <<>> /\ w = Append(Tail(Waiting), s)
    BY <1>6, BehindContents DEF OrderInv
  <2> QED BY <1>4, <1>5, <2>1
<1>8. StreamOrder'
  <2>1. Ascends(Waiting', a, Inserted')
    BY <1>2, <1>6, <1>7
  <2>2. /\ delivered <= Inserted + 1 /\ a <= Inserted + 1
        /\ emm.section \in Section => emm.section.id <= Inserted + 1
    BY <1>2, <1>3, Numbered DEF OrderInv, StreamOrder
  <2> QED BY <1>1, <1>2, <1>3, <2>1, <2>2 DEF StreamOrder, Ascends
<1>9. InStep'
  BY <1>1 DEF OrderInv, InStep, OneAnnounced, HandedInOrder
<1> QED BY <1>8, <1>9

(* A message that is taken from the queue is the only one while no reset    *)
(* left one behind.                                                         *)
LEMMA MessageTaken ==
    ASSUME OrderInv, ~ overtaken, messages # <<>>
    PROVE  /\ Tail(messages) = <<>> /\ current.OnUse
           /\ Head(messages) = current.section.filter
<1>1. Len(messages) <= 1 /\ messages \in Seq(Filter)
  BY OrderFacts DEF OrderInv, InStep, OneAnnounced
<1>2. Len(Tail(messages)) = 0 /\ Tail(messages) \in Seq(Filter)
  <2>1. Len(messages) = 1
    <3>1. Len(messages) \in Nat /\ Len(messages) # 0
      BY <1>1, EmptySeq
    <3>2. Len(messages) <= 1
      BY <1>1
    <3>3. \A n \in Nat : n # 0 /\ n <= 1 => n = 1
      OBVIOUS
    <3> QED BY <3>1, <3>2, <3>3
  <2>2. Len(Tail(messages)) = Len(messages) - 1 /\ Tail(messages) \in Seq(Filter)
    BY <1>1, HeadTailProperties
  <2> QED BY <2>1, <2>2
<1>3. Tail(messages) = <<>>
  BY <1>2, EmptySeq
<1> QED BY <1>3 DEF OrderInv, InStep, OneAnnounced

LEMMA DropOrder ==
    ASSUME OrderInv, DropWhileStopped
    PROVE  StreamOrder' /\ InStep'
<1>1. /\ messages # <<>> /\ messages' = Tail(messages) /\ emm.at = "receive"
      /\ ring' = ring /\ current' = current /\ emm' = emm /\ capture' = capture
      /\ delivered' = delivered /\ captured' = captured /\ overtaken' = overtaken
  BY DEF DropWhileStopped, threads, histories
<1>2. Waiting' = Waiting /\ Inserted' = Inserted
  BY <1>1 DEF Waiting, Contents, ChMgQueueLength, Inserted
<1>3. StreamOrder'
  BY <1>1, <1>2 DEF OrderInv, StreamOrder, Ascends
<1>4. ASSUME ~ overtaken
      PROVE  OneAnnounced' /\ HandedInOrder'
  <2>1. messages' = <<>> /\ Len(messages') <= 1
    <3>1. messages' = <<>>
      BY <1>1, <1>4, MessageTaken
    <3> QED BY <3>1
  <2>2. HandedInOrder
    BY <1>4 DEF OrderInv, InStep
  <2> QED BY <1>1, <2>1, <2>2 DEF OneAnnounced, HandedInOrder
<1>5. InStep'
  BY <1>1, <1>4 DEF InStep
<1> QED BY <1>3, <1>5

LEMMA ReceiveOrder ==
    ASSUME OrderInv, ReceiveMessage
    PROVE  StreamOrder' /\ InStep'
<1>1. /\ messages # <<>> /\ messages' = Tail(messages) /\ emm.at = "receive"
      /\ ring' = ring /\ current' = current /\ capture' = capture
      /\ delivered' = delivered /\ captured' = captured /\ overtaken' = overtaken
  BY DEF ReceiveMessage, histories
<1>2. /\ emm'.at = "copy" /\ emm'.filter = Head(messages)
      /\ emm'.section = emm.section
  BY DEF ReceiveMessage, OrderInv, EmmInv, TypeOK
<1>3. Waiting' = Waiting /\ Inserted' = Inserted
  BY <1>1 DEF Waiting, Contents, ChMgQueueLength, Inserted
<1>4. StreamOrder'
  BY <1>1, <1>2, <1>3 DEF OrderInv, StreamOrder, Ascends
<1>5. ASSUME ~ overtaken
      PROVE  OneAnnounced' /\ HandedInOrder'
  <2>1. /\ messages' = <<>> /\ Len(messages') <= 1
        /\ current.OnUse /\ Head(messages) = current.section.filter
    <3>1. messages' = <<>> /\ current.OnUse
          /\ Head(messages) = current.section.filter
      BY <1>1, <1>5, MessageTaken
    <3> QED BY <3>1
  <2>2. HandedInOrder
    BY <1>5 DEF OrderInv, InStep
  <2> QED BY <1>1, <1>2, <2>1, <2>2 DEF OneAnnounced, HandedInOrder
<1>6. InStep'
  BY <1>1, <1>5 DEF InStep
<1> QED BY <1>4, <1>6

LEMMA CopyOrder ==
    ASSUME OrderInv, CopySection
    PROVE  StreamOrder' /\ InStep'
<1>1. /\ emm.at = "copy" /\ messages' = messages
      /\ ring' = ring /\ current' = current /\ capture' = capture
      /\ delivered' = delivered /\ captured' = captured /\ overtaken' = overtaken
  BY DEF CopySection, buffers, histories
<1>2. /\ emm'.at = "unlock" /\ emm'.filter = emm.filter
      /\ emm'.section = current.section
  BY DEF CopySection, OrderInv, EmmInv, TypeOK
<1>3. Waiting' = Waiting /\ Inserted' = Inserted
  BY <1>1 DEF Waiting, Contents, ChMgQueueLength, Inserted
<1>4. StreamOrder'
  BY <1>1, <1>2, <1>3 DEF OrderInv, StreamOrder, Ascends
<1>5. InStep'
  BY <1>1, <1>2 DEF OrderInv, InStep, OneAnnounced, HandedInOrder
<1> QED BY <1>4, <1>5

(* While no reset left a message behind, the thread finds the section it    *)
(* copied still in hand.                                                    *)
LEMMA UnlockOrder ==
    ASSUME OrderInv, CHCA_MgEmmSectionUnlock
    PROVE  StreamOrder' /\ InStep'
<1>1. /\ emm.at = "unlock" /\ capture' = capture
      /\ delivered' = delivered /\ captured' = captured /\ overtaken' = overtaken
      /\ Inserted' = Inserted
  BY DEF CHCA_MgEmmSectionUnlock, histories, Inserted
<1>2. /\ emm'.at = "check" /\ emm'.filter = emm.filter
      /\ emm'.section = emm.section
  BY DEF CHCA_MgEmmSectionUnlock, OrderInv, EmmInv, TypeOK
<1>3. ASSUME ~ overtaken
      PROVE  /\ current.OnUse /\ emm.filter = current.section.filter
             /\ emm.section = current.section /\ messages = <<>>
             /\ delivered < current.section.id
  BY <1>1, <1>3 DEF OrderInv, InStep, OneAnnounced, HandedInOrder
<1>4. ring \in Ring /\ Waiting \in Seq(Section) /\ messages \in Seq(Filter)
      /\ delivered \in Int /\ Inserted \in Int
      /\ current \in [OnUse : BOOLEAN, section : SectionOrNone]
  BY OrderFacts DEF OrderInv, EmmInv, TypeOK
<1>5. CASE ~ current.OnUse
  <2>1. ring' = ring /\ current' = current /\ messages' = messages
    BY <1>5 DEF CHCA_MgEmmSectionUnlock, buffers
  <2>2. Waiting' = Waiting
    BY <2>1 DEF Waiting, Contents, ChMgQueueLength
  <2>3. StreamOrder'
    BY <1>1, <1>2, <2>1, <2>2 DEF OrderInv, StreamOrder, Ascends
  <2>4. InStep'
    BY <1>1, <1>3, <1>5 DEF InStep
  <2> QED BY <2>3, <2>4
<1>6. CASE current.OnUse /\ ring.sFront = ring.sRear
  <2>1. /\ ring' = ring /\ messages' = messages
        /\ current' = [current EXCEPT !.OnUse = FALSE]
    BY <1>6 DEF CHCA_MgEmmSectionUnlock
  <2>2. current'.section = current.section /\ current'.OnUse = FALSE
    BY <1>4, <2>1
  <2>3. StreamOrder'
    BY <1>1, <1>2, <2>2 DEF OrderInv, StreamOrder
  <2>4. ASSUME ~ overtaken
        PROVE  OneAnnounced' /\ HandedInOrder'
    <3>1. messages' = <<>> /\ Len(messages') <= 1
      BY <1>3, <2>1, <2>4
    <3> QED BY <1>1, <1>2, <1>3, <2>2, <2>4, <3>1 DEF OneAnnounced, HandedInOrder
  <2>5. InStep'
    BY <1>1, <2>4 DEF InStep
  <2> QED BY <2>3, <2>5
<1>7. CASE current.OnUse /\ ring.sFront # ring.sRear
  <2> DEFINE n == Front(ring)
             a == current.section.id
  <2>1. /\ current' = [current EXCEPT !.section = n]
        /\ ring' = ChOutMgBuffer(ring)
        /\ messages' = IF CanSend THEN Append(messages, n.filter) ELSE messages
    BY <1>7 DEF CHCA_MgEmmSectionUnlock
  <2>2. current'.section = n /\ current'.OnUse
    BY <1>4, <1>7, <2>1
  <2>3. /\ n \in Section /\ n = Waiting[1] /\ Waiting # <<>>
        /\ Waiting' = Tail(Waiting)
    <3>1. Waiting' = Contents(ring')
      BY DEF Waiting, Contents, ChMgQueueLength
    <3>2. n = Waiting[1]
      BY <1>4, <1>7, OutContents DEF Waiting
    <3> QED BY <1>4, <1>7, <2>1, <3>1, <3>2, FrontSection
  <2>4. current.section \in Section /\ a \in Int /\ Ascends(Waiting, a, Inserted)
    BY <1>7, Numbered DEF OrderInv, StreamOrder
  <2>5. /\ a < n.id /\ n.id <= Inserted /\ n.id \in Int
        /\ Ascends(Tail(Waiting), n.id, Inserted)
    BY <1>4, <2>3, <2>4, AscendsTail, Numbered
  <2>6. StreamOrder'
    <3>1. Ascends(Waiting', n.id, Inserted')
      BY <1>1, <2>3, <2>5
    <3>2. /\ capture'.at = "insert" => capture'.section.id = captured'
          /\ delivered' <= Inserted'
          /\ emm'.section \in Section => emm'.section.id <= Inserted'
      BY <1>1, <1>2 DEF OrderInv, StreamOrder
    <3> HIDE DEF n
    <3> QED BY <1>1, <2>2, <2>3, <2>5, <3>1, <3>2 DEF StreamOrder, Ascends
  <2>7. ASSUME ~ overtaken
        PROVE  OneAnnounced' /\ HandedInOrder'
    <3>1. /\ Len(messages') <= 1
          /\ messages' # <<>> => Head(messages') = n.filter
      <4>1. CASE CanSend
        <5>1. messages' = <<n.filter>>
          BY <1>3, <2>1, <2>7, <4>1
        <5> QED BY <5>1
      <4>2. CASE ~ CanSend
        BY <1>3, <2>1, <2>7, <4>2
      <4> QED BY <4>1, <4>2
    <3>2. delivered < n.id
      BY <1>3, <1>4, <2>4, <2>5, <2>7
    <3> HIDE DEF n
    <3> QED BY <1>1, <1>2, <1>3, <2>2, <2>5, <2>7, <3>1, <3>2
            DEF OneAnnounced, HandedInOrder
  <2>8. InStep'
    BY <1>1, <2>7 DEF InStep
  <2> QED BY <2>6, <2>8
<1> QED BY <1>5, <1>6, <1>7

LEMMA CheckOrder ==
    ASSUME OrderInv, CheckCard
    PROVE  StreamOrder' /\ InStep'
<1>1. /\ emm.at = "check" /\ messages' = messages
      /\ ring' = ring /\ current' = current /\ capture' = capture
      /\ delivered' = delivered /\ captured' = captured /\ overtaken' = overtaken
  BY DEF CheckCard, buffers, histories
<1>2. Waiting' = Waiting /\ Inserted' = Inserted
  BY <1>1 DEF Waiting, Contents, ChMgQueueLength, Inserted
<1>3. \/ emm'.at = "call" /\ emm'.section = emm.section /\ emm'.filter = emm.filter
      \/ emm'.at = "receive" /\ emm'.section = NoSection
  BY DEF CheckCard, AwaitsMessage, OrderInv, EmmInv, TypeOK
<1>4. StreamOrder'
  BY <1>1, <1>2, <1>3, NoSectionAssumption DEF OrderInv, StreamOrder, Ascends
<1>5. InStep'
  BY <1>1, <1>3 DEF OrderInv, InStep, OneAnnounced, HandedInOrder
<1> QED BY <1>4, <1>5

LEMMA CallOrder ==
    ASSUME OrderInv, CallKernel
    PROVE  StreamOrder' /\ InStep'
<1>1. /\ emm.at = "call" /\ messages' = messages
      /\ ring' = ring /\ current' = current /\ capture' = capture
      /\ delivered' = emm.section.id /\ captured' = captured
      /\ overtaken' = overtaken
      /\ emm'.at = "receive" /\ emm'.section = NoSection
  BY DEF CallKernel, buffers, AwaitsMessage
<1>2. Waiting' = Waiting /\ Inserted' = Inserted
  BY <1>1 DEF Waiting, Contents, ChMgQueueLength, Inserted
<1>3. emm.section \in Section /\ emm.section.id <= Inserted
  BY <1>1 DEF OrderInv, EmmInv, SectionsInHand, StreamOrder
<1>4. StreamOrder'
  BY <1>1, <1>2, <1>3, NoSectionAssumption DEF OrderInv, StreamOrder, Ascends
<1>5. InStep'
  BY <1>1 DEF OrderInv, InStep, OneAnnounced, HandedInOrder
<1> QED BY <1>4, <1>5

(* A reset that leaves no message behind finds the EMM thread at rest, and   *)
(* everything that was captured but the section in hand is in the past.     *)
LEMMA ResetOrder ==
    ASSUME OrderInv, CHCA_InitMgEmmQueue, UNCHANGED <<capture, emm>>
    PROVE  StreamOrder' /\ InStep'
<1>1. /\ Waiting' = <<>> /\ current'.OnUse = FALSE
      /\ current'.section = current.section /\ messages' = messages
      /\ captured' = captured /\ delivered' = delivered
  BY ResetEmpties DEF OrderInv
<1>2. emm' = emm /\ capture' = capture /\ Inserted' = Inserted
  BY <1>1 DEF Inserted
<1>3. StreamOrder'
  BY <1>1, <1>2 DEF OrderInv, StreamOrder
<1>4. ASSUME ~ overtaken'
      PROVE  OneAnnounced' /\ HandedInOrder'
  <2>1. Claimed = 0 /\ messages \in Seq(Filter) /\ Len(messages) \in Nat
    <3>1. Claimed = 0
      BY <1>4, Zenon DEF CHCA_InitMgEmmQueue
    <3>2. messages \in Seq(Filter)
      BY OrderFacts
    <3> QED BY <3>1, <3>2
  <2>2. emm.at = "receive" /\ Len(messages) = 0
    BY <2>1 DEF Claimed
  <2>3. messages = <<>>
    BY <2>1, <2>2, EmptySeq
  <2> QED BY <1>1, <1>2, <2>2, <2>3 DEF OneAnnounced, HandedInOrder
<1>5. InStep'
  BY <1>4 DEF InStep
<1> QED BY <1>3, <1>5

LEMMA OrderInit == Init => OrderInv
<1> SUFFICES ASSUME Init PROVE OrderInv
  OBVIOUS
<1>1. Inserted = 0 /\ captured = 0
  BY DEF Init, AwaitsSection, Inserted
<1>2. StreamOrder
  BY <1>1, NoSectionAssumption DEF Init, AwaitsSection, AwaitsMessage, StreamOrder
<1>3. OneAnnounced /\ HandedInOrder
  BY DEF Init, AwaitsMessage, OneAnnounced, HandedInOrder
<1> QED BY EmmInit, <1>2, <1>3 DEF OrderInv, InStep

LEMMA OrderStep == OrderInv /\ [Next]_vars => OrderInv'
<1> SUFFICES ASSUME OrderInv, [Next]_vars PROVE OrderInv'
  OBVIOUS
<1>1. EmmInv'
  BY EmmStep DEF OrderInv
<1>2. ASSUME UNCHANGED <<buffers, capture, emm, histories>>
      PROVE  StreamOrder' /\ InStep'
  <2>1. /\ Inserted' = Inserted
        /\ UNCHANGED <<buffers, emm, delivered, overtaken>>
        /\ capture' = capture /\ captured' = captured
    BY <1>2 DEF Inserted, histories
  <2> QED BY <2>1, ElsewhereKeeps DEF OrderInv, StreamOrder
<1>3. StreamOrder' /\ InStep'
  <2>1. CASE CaptureThread
    BY <2>1, CaptureOrder, InsertAtOnceOrder, InsertBehindOrder DEF CaptureThread
  <2>2. CASE EmmThread
    BY <2>2, DropOrder, ReceiveOrder, CopyOrder, UnlockOrder, CheckOrder,
       CallOrder DEF EmmThread
  <2>3. CASE StartDelivery \/ StopDelivery
    BY <1>2, <2>3 DEF StartDelivery, StopDelivery
  <2>4. CASE FinishStartOrStop \/ ChangeTransponder
    BY <2>4, ResetOrder DEF FinishStartOrStop, ChangeTransponder, threads
  <2>5. CASE ExtractCard \/ CardBecomesReady
    BY <1>2, <2>5 DEF ExtractCard, CardBecomesReady
  <2>6. CASE CardResetsQueue
    BY <2>6, ResetOrder DEF CardResetsQueue
  <2>7. CASE Kernel
    BY <1>2, <2>7 DEF Kernel, StartFilter, StopFilter, FreeFilter, threads
  <2>8. CASE UNCHANGED vars
    BY <1>2, <2>8 DEF vars, threads
  <2> QED BY <2>1, <2>2, <2>3, <2>4, <2>5, <2>6, <2>7, <2>8
          DEF Next, PmtThread, CardThread
<1> QED BY <1>1, <1>3 DEF OrderInv

(* A message names a filter and not a section, and the section is copied    *)
(* when the message is read; unless a reset left a message behind, each     *)
(* section still reaches the kernel once, in the order of capture, and for  *)
(* the filter it matched.                                                   *)
THEOREM DeliveredInOrder == Spec => DeliveredAsCaptured
<1> DEFINE A == emm.at = "call" /\ emm'.at = "receive" /\ ~ overtaken =>
                    /\ emm.section.filter = emm.filter
                    /\ emm.section.id > delivered
<1>1. OrderInv => A
  <2> SUFFICES ASSUME OrderInv, emm.at = "call", ~ overtaken
               PROVE  emm.section.filter = emm.filter /\ emm.section.id > delivered
    OBVIOUS
  <2>1. emm.section.filter = emm.filter /\ delivered < emm.section.id
    BY DEF OrderInv, InStep, HandedInOrder
  <2>2. emm.section \in Section
    BY DEF OrderInv, EmmInv, SectionsInHand
  <2>3. emm.section.id \in Int /\ delivered \in Int
    BY <2>2, OrderFacts, Numbered
  <2> QED BY <2>1, <2>3
<1>2. OrderInv /\ [Next]_vars => OrderInv' /\ [A]_vars
  BY <1>1, OrderStep
<1>3. Spec => [][A]_vars
  BY <1>2, OrderInit, PTL DEF Spec
<1> QED BY <1>3 DEF DeliveredAsCaptured
=============================================================================
