---------------------------- MODULE EisNvm_proofs ----------------------------
(***************************************************************************)
(* Proofs about EisNvm: for every layout of the regions, every set of      *)
(* requests within them and every size of the queue, the mirror and the    *)
(* flash differ only where an erasure was carried out, or where some step  *)
(* still to come, or a step that gave up, accounts for it.                 *)
(***************************************************************************)
EXTENDS EisNvm, TLAPS

(* A write that is queued at position i or later, and covers u.            *)
WrittenAfter(u, i) ==
    \E j \in i .. Len(queue) : queue[j].cmd = "write" /\ u \in Covered(queue[j].at)

(* What an erasure to come will leave agrees with the mirror, unless a     *)
(* later burn has changed the mirror and will be written after it.         *)
Shadow(x, i) == \A u \in Covered(x) : mirror[u] = Zero \/ WrittenAfter(u, i)

EraseShadow ==
    /\ \A i \in 1 .. Len(queue) : queue[i].cmd = "erase" => Shadow(queue[i].at, i + 1)
    /\ writer # Resting /\ writer.msg.cmd = "erase" => Shadow(Target, 1)
    /\ caller.cmd = "erase" => \A u \in Covered(caller.at) : mirror[u] = Zero

(* The semaphore is the writer's while it works, on the message's command. *)
WriterAlone ==
    /\ WriterHolds => caller = NoCall /\ Target.first = 0
    /\ At("erase") => writer.msg.cmd = "erase"
    /\ At("wait") => writer.block = 0

(* What is about to be programmed is what the mirror holds where the       *)
(* message asks for it, and what the block held elsewhere.                 *)
ImageCurrent ==
    At("program") => \A u \in BlockUnit :
        \/ writer.image[u] = mirror[u]
        \/ /\ u \notin Asked
           /\ \/ mirror[u] = Zero /\ writer.image[u] = Erased
              \/ u \in lost \cup QueuedUnits

NvmInv == /\ NvmTypeOK
          /\ WriterAlone
          /\ EraseShadow
          /\ ImageCurrent
          /\ BurningBacked
          /\ DirtyAccounted

-----------------------------------------------------------------------------
(* Extents, blocks and the queue.                                          *)

(* A request covers units of its region.                                   *)
LEMMA CoveredUnits ==
    ASSUME NEW x \in Request
    PROVE  /\ Covered(x) \subseteq Unit
           /\ x \in Extent
           /\ \A u \in Covered(x) : u[1] = x.region /\ u[2] \in Nat
                                    /\ u[2] >= x.first /\ u[2] < x.first + x.len
<1>1. x \in Extent /\ x.first + x.len <= Blocks[x.region] * BlockSize
  BY RequestAssumption DEF Fits
<1>2. /\ x.region \in Region
      /\ x.first \in Nat
      /\ x.len \in Nat
      /\ x.first + x.len \in Int
      /\ Blocks[x.region] * BlockSize \in Int
  BY <1>1, SizesAssumption DEF Extent
<1>3. \A u \in Covered(x) : u[1] = x.region /\ u[2] \in Nat
                             /\ u[2] >= x.first /\ u[2] < x.first + x.len
  BY <1>2 DEF Covered
<1>4. ASSUME NEW u \in Covered(x)
      PROVE  u \in Unit
  <2>1. u \in {x.region} \X RegionUnit(x.region)
    BY <1>1, <1>2 DEF Covered, RegionUnit
  <2> QED BY <2>1, <1>2 DEF Unit
<1> QED BY <1>1, <1>3, <1>4

(* What a message still has to do is in the block at hand or beyond it,    *)
(* and nothing is beyond the last block.                                   *)
LEMMA BlockAtHand ==
    ASSUME writer \in Working
    PROVE  /\ From \in Nat /\ Upto \in Nat
           /\ Remaining \subseteq Unit
           /\ BlockUnit \subseteq Unit
           /\ Asked \subseteq Remaining
           /\ \A u \in Remaining : u \in Asked \/ u[2] >= Upto
           /\ \A u \in Covered(Target) : u[2] >= Upto => u \in Remaining
           /\ Target.first = 0 /\ LastBlock => Remaining \subseteq Asked
<1>1. Target \in Request /\ writer.block \in Nat
  BY RequestAssumption DEF Working, Message, Target
<1>2. /\ Covered(Target) \subseteq Unit
      /\ \A u \in Covered(Target) : u[1] = Target.region /\ u[2] \in Nat
                                    /\ u[2] >= Target.first /\ u[2] < Target.first + Target.len
      /\ Target.len \in Nat
  BY <1>1, CoveredUnits DEF Extent
<1>3. From \in Nat /\ Upto \in Nat /\ From <= Upto
  BY <1>1, SizesAssumption DEF From, Upto
<1>4. \A u \in Remaining : u \in Asked \/ u[2] >= Upto
  BY <1>2, <1>3 DEF Remaining, Asked, BlockUnit
<1>5. \A u \in Covered(Target) : u[2] >= Upto => u \in Remaining
  BY <1>2, <1>3 DEF Remaining
<1>6. Target.first = 0 /\ LastBlock => Remaining \subseteq Asked
  BY <1>2, <1>3, <1>4 DEF LastBlock, Remaining
<1> QED BY <1>2, <1>3, <1>4, <1>5, <1>6 DEF Remaining, BlockUnit, Asked

(* A message appended adds its units; the head taken, the rest stay.       *)
LEMMA Appended ==
    ASSUME queue \in Seq(Message), NEW m \in Message, queue' = Append(queue, m)
    PROVE  /\ QueuedUnits' = QueuedUnits \cup Covered(m.at)
           /\ Len(queue') = Len(queue) + 1
           /\ queue'[Len(queue) + 1] = m
           /\ \A i \in 1 .. Len(queue) : queue'[i] = queue[i]
           /\ queue' \in Seq(Message)
           /\ queue' # <<>>
<1>1. /\ Len(queue') = Len(queue) + 1
      /\ queue'[Len(queue) + 1] = m
      /\ \A i \in 1 .. Len(queue) : queue'[i] = queue[i]
      /\ queue' \in Seq(Message)
      /\ Len(queue) \in Nat
  OBVIOUS
<1>2. ASSUME NEW u
      PROVE  u \in QueuedUnits' <=> u \in QueuedUnits \/ u \in Covered(m.at)
  <2>1. u \in QueuedUnits' <=> \E i \in 1 .. Len(queue') : u \in Covered(queue'[i].at)
    BY DEF QueuedUnits, Covered
  <2>2. u \in QueuedUnits <=> \E i \in 1 .. Len(queue) : u \in Covered(queue[i].at)
    BY DEF QueuedUnits
  <2> QED BY <2>1, <2>2, <1>1
<1>3. queue' # <<>>
  BY <1>1
<1> QED BY <1>1, <1>2, <1>3

LEMMA QueueMessages ==
    ASSUME NvmTypeOK
    PROVE  \A i \in 1 .. Len(queue) : queue[i] \in Message /\ queue[i].at \in Request
<1>1. \A i \in 1 .. Len(queue) : queue[i] \in Message
  <2>1. queue \in Seq(Message)
    BY DEF NvmTypeOK
  <2> QED BY <2>1
<1>2. \A m \in Message : m.at \in Request
  BY RequestAssumption DEF Message
<1> QED BY <1>1, <1>2

LEMMA Taken ==
    ASSUME queue \in Seq(Message), queue # <<>>, queue' = Tail(queue)
    PROVE  /\ QueuedUnits = QueuedUnits' \cup Covered(Head(queue).at)
           /\ Head(queue) \in Message
           /\ Head(queue) = queue[1]
           /\ 1 \in 1 .. Len(queue)
           /\ Len(queue') = Len(queue) - 1
           /\ \A i \in 1 .. Len(queue') : queue'[i] = queue[i + 1]
           /\ queue' \in Seq(Message)
<1>1. /\ Head(queue) \in Message
      /\ Head(queue) = queue[1]
      /\ Len(queue) \in Nat \ {0}
      /\ Len(queue') = Len(queue) - 1
      /\ \A i \in 1 .. Len(queue') : queue'[i] = queue[i + 1]
      /\ queue' \in Seq(Message)
  OBVIOUS
<1>2. ASSUME NEW u
      PROVE  u \in QueuedUnits <=> u \in QueuedUnits' \/ u \in Covered(Head(queue).at)
  <2>1. u \in QueuedUnits' <=> \E i \in 1 .. Len(queue') : u \in Covered(queue'[i].at)
    BY DEF QueuedUnits, Covered
  <2>2. u \in QueuedUnits <=> \E i \in 1 .. Len(queue) : u \in Covered(queue[i].at)
    BY DEF QueuedUnits
  <2>3. ASSUME NEW i \in 1 .. Len(queue), u \in Covered(queue[i].at), i # 1
        PROVE  u \in QueuedUnits'
    <3>1. i - 1 \in 1 .. Len(queue') /\ queue'[i - 1] = queue[i]
      BY <2>3, <1>1
    <3> QED BY <3>1, <2>1, <2>3
  <2>4. ASSUME NEW i \in 1 .. Len(queue'), u \in Covered(queue'[i].at)
        PROVE  u \in QueuedUnits
    <3>1. i + 1 \in 1 .. Len(queue) /\ queue[i + 1] = queue'[i]
      BY <2>4, <1>1
    <3> QED BY <3>1, <2>2, <2>4
  <2> QED BY <2>1, <2>2, <2>3, <2>4, <1>1
<1> QED BY <1>1, <1>2

-----------------------------------------------------------------------------
(* The steps keep the types.                                               *)

LEMMA WriterTypes ==
    ASSUME NvmTypeOK
    PROVE  /\ writer.pc # "receive" => writer \in Working /\ From < Target.len
           /\ writer # Resting <=> writer.pc # "receive"
           /\ Nothing \in [Unit -> Cell] /\ Blank \in [Unit -> Cell]
           /\ Image \in [Unit -> Cell]
<1>1. writer.pc # "receive" => writer \in Working
  BY DEF NvmTypeOK, Resting
<1>2. writer # Resting <=> writer.pc # "receive"
  BY DEF NvmTypeOK, Resting, Working
<1>3. Nothing \in [Unit -> Cell] /\ Blank \in [Unit -> Cell]
  BY DEF Nothing, Blank, Cell
<1>4. Image \in [Unit -> Cell]
  BY DEF Image, NvmTypeOK, Cell
<1> QED BY <1>1, <1>2, <1>3, <1>4 DEF NvmTypeOK

(* What the end of a block does to the writer.                             *)
LEMMA Onwards ==
    ASSUME NvmTypeOK, writer.pc # "receive",
           NEW top \in {"compare", "erase"}, NEW buf \in BOOLEAN,
           NextBlock(top, buf)
    PROVE  /\ writer' \in Working
           /\ writer'.msg = writer.msg
           /\ writer' # Resting
           /\ From' < Target'.len
           /\ Target' = Target
           /\ state' \in {state, "success"}
           /\ \/ LastBlock /\ writer'.pc = "release" /\ state' = "success"
              \/ /\ ~ LastBlock /\ writer'.pc = top /\ state' = state
                 /\ From' = Upto
<1>1. writer \in Working /\ From < Target.len /\ Nothing \in [Unit -> Cell]
  BY WriterTypes
<1>2. writer.block \in Nat /\ From \in Nat /\ Upto \in Nat /\ Target.len \in Int
  <2>1. writer.block \in Nat /\ Target \in Request
    BY <1>1, RequestAssumption DEF Working, Message, Target
  <2> QED BY <2>1, <1>1, BlockAtHand, CoveredUnits DEF Extent
<1>3. CASE LastBlock
  <2>1. writer' = [writer EXCEPT !.pc = "release", !.image = Nothing] /\ state' = "success"
    BY <1>3 DEF NextBlock, Finish
  <2>2. /\ writer' \in Working
        /\ writer'.msg = writer.msg
        /\ writer'.block = writer.block
        /\ writer'.pc = "release"
    BY <2>1, <1>1 DEF Working
  <2> QED BY <2>1, <2>2, <1>1, <1>3 DEF Target, From, Resting
<1>4. CASE ~ LastBlock
  <2>1. /\ writer' = [writer EXCEPT !.pc = top, !.block = @ + 1,
                                    !.buffer = buf, !.image = Nothing]
        /\ state' = state
    BY <1>4 DEF NextBlock
  <2>0. /\ writer.block + 1 \in Nat
        /\ top \in {"wait", "compare", "program", "erase", "release"}
        /\ top # "receive"
        /\ buf \in BOOLEAN
    BY <1>2
  <2>2. /\ writer' \in Working
        /\ writer'.msg = writer.msg
        /\ writer'.block = writer.block + 1
        /\ writer'.pc = top
    BY <2>0, <2>1, <1>1 DEF Working
  <2>3. From' = Upto
    BY <2>2 DEF From, Upto
  <2>4. writer' # Resting
    BY <2>0, <2>2 DEF Resting
  <2>5. Target' = Target
    BY <2>2 DEF Target
  <2>6. From' < Target'.len
    BY <2>3, <2>5, <1>2, <1>4 DEF LastBlock
  <2> QED BY <2>1, <2>2, <2>3, <2>4, <2>5, <2>6, <1>4
<1> QED BY <1>3, <1>4

LEMMA Finishing ==
    ASSUME NvmTypeOK, writer.pc # "receive", NEW result, Finish(result)
    PROVE  /\ writer' \in Working
           /\ writer' # Resting
           /\ writer'.msg = writer.msg
           /\ writer'.pc = "release"
           /\ From' < Target'.len
           /\ Target' = Target
           /\ state' = result
<1>1. writer \in Working /\ From < Target.len /\ Nothing \in [Unit -> Cell]
  BY WriterTypes
<1>2. writer' = [writer EXCEPT !.pc = "release", !.image = Nothing] /\ state' = result
  BY DEF Finish
<1>3. /\ writer' \in Working
      /\ writer'.msg = writer.msg
      /\ writer'.block = writer.block
      /\ writer'.pc = "release"
  BY <1>1, <1>2 DEF Working
<1> QED BY <1>1, <1>2, <1>3 DEF From, Target, Resting

(* The contents a step can leave in the flash.                             *)
LEMMA PutTypes ==
    ASSUME NvmTypeOK, NEW cells \in [Unit -> Cell]
    PROVE  /\ Put(cells) \in [Unit -> Cell]
           /\ \A u \in Unit : Put(cells)[u] = IF u \in BlockUnit THEN cells[u] ELSE flash[u]
BY DEF Put, NvmTypeOK

LEMMA CallsKeepTypes ==
    ASSUME NvmTypeOK,
           \/ \E x \in Request, v \in Value : BurnCall(x, v)
           \/ \E x \in Erasure : EraseCall(x)
           \/ CallReturns
    PROVE  NvmTypeOK'
<1>0. /\ writer' = writer
      /\ flash' = flash
      /\ From' = From /\ Target' = Target
      /\ (\A x \in Request : Covered(x) \subseteq Unit)
  BY CoveredUnits DEF BurnCall, EraseCall, CallReturns, BurnQueued, BurnDropped,
                      EraseQueued, EraseDropped, From, Target
<1>1. ASSUME NEW x \in Request, NEW v \in Value, BurnCall(x, v)
      PROVE  NvmTypeOK'
  BY <1>0, <1>1 DEF BurnCall, NvmTypeOK, Call
<1>2. ASSUME NEW x \in Erasure, EraseCall(x)
      PROVE  NvmTypeOK'
  BY <1>0, <1>2, RequestAssumption DEF EraseCall, NvmTypeOK, Call, Cell
<1>3. ASSUME BurnQueued
      PROVE  NvmTypeOK'
  <2>1. caller.at \in Request /\ caller.data \in Value
    BY <1>3 DEF BurnQueued, NvmTypeOK, Call, NoCall
  <2>2. Pack("write", caller.at) \in Message
    BY <2>1 DEF Pack, Message
  <2>3. queue' \in Seq(Message)
    BY <2>2, <1>3 DEF BurnQueued, NvmTypeOK
  <2> QED BY <1>0, <1>3, <2>1, <2>3 DEF BurnQueued, NvmTypeOK, Call, Cell
<1>4. ASSUME EraseQueued
      PROVE  NvmTypeOK'
  <2>1. caller.at \in Erasure
    BY <1>4 DEF EraseQueued, NvmTypeOK, Call, NoCall
  <2>2. Pack("erase", caller.at) \in Message
    BY <2>1 DEF Pack, Message
  <2>3. queue' \in Seq(Message)
    BY <2>2, <1>4 DEF EraseQueued, NvmTypeOK
  <2> QED BY <1>0, <1>4, <2>3 DEF EraseQueued, NvmTypeOK, Call
<1>5. ASSUME BurnDropped
      PROVE  NvmTypeOK'
  BY <1>0, <1>5 DEF BurnDropped, NvmTypeOK, Call
<1>6. ASSUME EraseDropped
      PROVE  NvmTypeOK'
  <2>1. caller.at \in Request
    BY <1>6, RequestAssumption DEF EraseDropped, NvmTypeOK, Call, NoCall
  <2> QED BY <1>0, <1>6, <2>1 DEF EraseDropped, Silently, NvmTypeOK, Call
<1> QED BY <1>1, <1>2, <1>3, <1>4, <1>5, <1>6 DEF CallReturns

LEMMA WriterKeepsTypes ==
    ASSUME NvmTypeOK, WriterWork \/ WriterTake
    PROVE  NvmTypeOK'
<1>0. /\ Nothing \in [Unit -> Cell] /\ Blank \in [Unit -> Cell] /\ Image \in [Unit -> Cell]
      /\ (writer.pc # "receive" => writer \in Working)
      /\ (writer.pc # "receive" => Target \in Request /\ BlockUnit \subseteq Unit
                                    /\ Remaining \subseteq Unit /\ Asked \subseteq Unit
                                    /\ Covered(Target) \subseteq Unit)
  BY WriterTypes, BlockAtHand, CoveredUnits, RequestAssumption DEF Working, Message, Target
<1>1. ASSUME WriterReceive
      PROVE  NvmTypeOK'
  <2>1. Head(queue) \in Message /\ queue' \in Seq(Message)
    BY <1>1, Taken DEF WriterReceive, NvmTypeOK
  <2>2. writer' \in Working /\ writer'.msg = Head(queue) /\ writer'.block = 0
    BY <1>0, <1>1, <2>1 DEF WriterReceive, Working
  <2>3. Head(queue).at.len \in Nat \ {0}
    BY <2>1, CoveredUnits, RequestAssumption DEF Message, Extent
  <2>4. From' < Target'.len
    BY <2>2, <2>3, SizesAssumption DEF From, Target
  <2> QED BY <1>1, <2>1, <2>2, <2>4 DEF WriterReceive, NvmTypeOK
<1>2. ASSUME WriterTake
      PROVE  NvmTypeOK'
  <2>1. writer \in Working /\ From < Target.len /\ writer # Resting
    BY <1>2, WriterTypes DEF WriterTake, At
  <2>2. CASE Target.first = 0
    <3>1. writer' \in Working /\ writer'.msg = writer.msg /\ writer'.block = writer.block
      BY <1>2, <2>1, <2>2 DEF WriterTake, Working
    <3> QED BY <1>2, <2>1, <2>2, <3>1 DEF WriterTake, NvmTypeOK, From, Target
  <2>3. CASE Target.first # 0
    <3>1. /\ Finish("failed") /\ writer.pc # "receive"
          /\ lost' = lost \cup Covered(Target)
          /\ unsaid' = unsaid \ Covered(Target)
      BY <1>2, <2>3 DEF WriterTake, GiveUp, Reported, At
    <3> QED BY <3>1, <1>0, <1>2, Finishing DEF WriterTake, NvmTypeOK
  <2> QED BY <2>2, <2>3
<1>3. ASSUME WriterSkip
      PROVE  NvmTypeOK'
  <2>1. /\ writer.pc # "receive"
        /\ \E buf \in BOOLEAN : NextBlock("compare", buf)
        /\ Silently(Asked) \/ Stored(Asked)
    BY <1>3 DEF WriterSkip, At
  <2>2. lost' \subseteq lost \cup Asked /\ (unsaid \subseteq lost => unsaid' \subseteq lost')
    BY <2>1 DEF Silently, Stored
  <2> QED BY <2>1, <2>2, <1>0, <1>3, Onwards DEF WriterSkip, NvmTypeOK
<1>4. ASSUME WriterClear
      PROVE  NvmTypeOK'
  <2>1. writer \in Working /\ From < Target.len /\ writer # Resting
    BY <1>4, WriterTypes DEF WriterClear, At
  <2>2. /\ writer' \in Working /\ writer'.msg = writer.msg
        /\ writer'.block = writer.block
    BY <1>4, <1>0, <2>1 DEF WriterClear, Working
  <2>3. flash' \in [Unit -> Cell]
    BY <1>4, <1>0, PutTypes DEF WriterClear, NvmTypeOK
  <2> QED BY <1>4, <2>1, <2>2, <2>3 DEF WriterClear, NvmTypeOK, From, Target
<1>5. ASSUME WriterProgram
      PROVE  NvmTypeOK'
  <2>1. writer.pc # "receive" /\ writer.image \in [Unit -> Cell]
    BY <1>5, <1>0 DEF WriterProgram, At, Working
  <2>2. flash' \in [Unit -> Cell]
    BY <1>5, <1>0, <2>1, PutTypes DEF WriterProgram, NvmTypeOK
  <2>3. /\ NextBlock("compare", TRUE) \/ Finish("failed")
        /\ \/ Silently(BlockUnit) \/ Stored(Asked)
           \/ Reported(Remaining \cup BlockUnit)
    BY <1>5 DEF WriterProgram, GiveUp
  <2>4. /\ lost' \subseteq lost \cup BlockUnit \cup Remaining
        /\ unsaid \subseteq lost => unsaid' \subseteq lost'
    BY <2>3 DEF Silently, Stored, Reported
  <2> QED BY <1>5, <1>0, <2>1, <2>2, <2>3, <2>4, Onwards, Finishing DEF WriterProgram, NvmTypeOK
<1>6. ASSUME WriterErase
      PROVE  NvmTypeOK'
  <2>1. writer.pc # "receive"
    BY <1>6 DEF WriterErase, At
  <2>2. flash' \in [Unit -> Cell]
    BY <1>6, <1>0, PutTypes DEF WriterErase, NvmTypeOK
  <2>3. /\ NextBlock("erase", FALSE) \/ Finish("failed")
        /\ lost' \subseteq lost \cup BlockUnit \cup Remaining
        /\ unsaid \subseteq lost => unsaid' \subseteq lost'
    BY <1>6 DEF WriterErase, GiveUp, Reported
  <2> QED BY <1>6, <1>0, <2>1, <2>2, <2>3, Onwards, Finishing DEF WriterErase, NvmTypeOK
<1>7. ASSUME WriterRelease
      PROVE  NvmTypeOK'
  BY <1>7 DEF WriterRelease, NvmTypeOK
<1> QED BY <1>1, <1>2, <1>3, <1>4, <1>5, <1>6, <1>7 DEF WriterWork

LEMMA NvmTypes ==
    ASSUME NvmTypeOK, [NvmNext]_nvmVars
    PROVE  NvmTypeOK'
<1>1. CASE PowerLoss
  <2>1. flash' \in [Unit -> Cell]
    BY <1>1, PutTypes, WriterTypes DEF PowerLoss, NvmTypeOK
  <2> QED BY <1>1, <2>1 DEF PowerLoss, NvmTypeOK, Call
<1>2. CASE UNCHANGED nvmVars
  BY <1>2 DEF nvmVars, NvmTypeOK, From, Target
<1> QED BY <1>1, <1>2, CallsKeepTypes, WriterKeepsTypes DEF NvmNext

-----------------------------------------------------------------------------
(* The steps keep the invariant.                                           *)

(* The writer's units, place by place.                                     *)
LEMMA WriterUnitsAt ==
    /\ At("wait") => WriterUnits = Covered(Target)
    /\ At("compare") => WriterUnits = Remaining
    /\ At("erase") => WriterUnits = Remaining
    /\ At("program") => WriterUnits = Remaining \cup BlockUnit
    /\ At("receive") \/ At("release") => WriterUnits = {}
BY DEF WriterUnits, At

(* With the writer and the queue as they were, so is what they stand for.  *)
LEMMA SameWriter ==
    ASSUME writer' = writer
    PROVE  /\ WriterUnits' = WriterUnits /\ Target' = Target
           /\ BlockUnit' = BlockUnit /\ Asked' = Asked
           /\ \A p : At(p)' <=> At(p)
           /\ WriterHolds' <=> WriterHolds
BY DEF WriterUnits, Target, BlockUnit, Asked, Remaining, From, Upto, At, WriterHolds

LEMMA SameQueue ==
    ASSUME queue' = queue
    PROVE  /\ QueuedUnits' = QueuedUnits
           /\ \A u, i : WrittenAfter(u, i)' <=> WrittenAfter(u, i)
BY DEF QueuedUnits, WrittenAfter

(* A write queued at a position is a unit queued.                          *)
LEMMA WrittenIsQueued ==
    ASSUME NEW u, WrittenAfter(u, 1)
    PROVE  u \in QueuedUnits
BY DEF WrittenAfter, QueuedUnits

LEMMA BurnCallKeeps ==
    ASSUME NvmInv, NEW x \in Request, NEW v \in Value, BurnCall(x, v)
    PROVE  NvmInv'
<1>1. NvmTypeOK'
  BY NvmTypes DEF NvmInv, NvmNext
<1>2. /\ caller = NoCall /\ ~ WriterHolds
      /\ caller' = [cmd |-> "burn", at |-> x, data |-> v]
      /\ UNCHANGED <<mirror, flash, queue, state, writer, lost>>
  BY DEF BurnCall, MayCall, SemaphoreFree
<1>3. WriterAlone'
  BY <1>2, SameWriter DEF NvmInv, WriterAlone
<1>4. EraseShadow'
  <2>1. caller'.cmd # "erase"
    BY <1>2
  <2> QED BY <1>2, <2>1, SameWriter, SameQueue DEF NvmInv, EraseShadow, Shadow
<1>5. ImageCurrent'
  BY <1>2, SameWriter DEF ImageCurrent, WriterHolds, At
<1>6. BurningBacked'
  BY <1>2 DEF NvmInv, BurningBacked
<1>7. DirtyAccounted'
  <2>1. CallUnits = {} /\ CallUnits' = {}
    BY <1>2 DEF CallUnits, NoCall
  <2> QED BY <1>2, <2>1, SameWriter, SameQueue DEF NvmInv, DirtyAccounted, Settled, Agree, Cleared, InHand
<1> QED BY <1>1, <1>3, <1>4, <1>5, <1>6, <1>7 DEF NvmInv

LEMMA EraseCallKeeps ==
    ASSUME NvmInv, NEW x \in Erasure, EraseCall(x)
    PROVE  NvmInv'
<1>1. NvmTypeOK'
  BY NvmTypes DEF NvmInv, NvmNext
<1>0. x \in Request
  BY RequestAssumption
<1>2. /\ caller = NoCall /\ ~ WriterHolds
      /\ caller' = [cmd |-> "erase", at |-> x]
      /\ \A u \in Unit : mirror'[u] = IF u \in Covered(x) THEN Zero ELSE mirror[u]
      /\ UNCHANGED <<flash, queue, state, writer, lost>>
      /\ Covered(x) \subseteq Unit
  BY <1>0, CoveredUnits DEF EraseCall, MayCall, SemaphoreFree
<1>3. WriterAlone'
  BY <1>2, SameWriter DEF NvmInv, WriterAlone
<1>4. EraseShadow'
  <2>1. ASSUME NEW y \in Request, NEW i, Shadow(y, i)
        PROVE  Shadow(y, i)'
    <3>1. \A u \in Covered(y) : u \in Unit
      BY CoveredUnits
    <3> QED BY <1>2, <2>1, <3>1, SameQueue DEF Shadow
  <2>2. ASSUME NEW i \in 1 .. Len(queue'), queue'[i].cmd = "erase"
        PROVE  Shadow(queue[i].at, i + 1)'
    <3>1. /\ i \in 1 .. Len(queue) /\ queue[i].cmd = "erase"
          /\ queue[i].at \in Request
      BY <2>2, <1>2, QueueMessages DEF NvmInv
    <3>2. PICK y \in Request : y = queue[i].at
      BY <3>1
    <3>3. Shadow(y, i + 1)
      BY <3>1, <3>2 DEF NvmInv, EraseShadow
    <3>4. Shadow(y, i + 1)'
      BY <3>3, <2>1
    <3> QED BY <3>2, <3>4, <1>2
  <2>3. ASSUME writer # Resting, writer.msg.cmd = "erase"
        PROVE  Shadow(Target, 1)'
    <3>1. Target \in Request
      BY <2>3, RequestAssumption DEF NvmInv, NvmTypeOK, Working, Message, Target
    <3>2. PICK y \in Request : y = Target
      BY <3>1
    <3>3. Shadow(y, 1)
      BY <2>3, <3>2 DEF NvmInv, EraseShadow
    <3>4. Shadow(y, 1)'
      BY <3>3, <2>1
    <3> QED BY <3>2, <3>4, <1>2, SameWriter
  <2>4. \A u \in Covered(x) : mirror'[u] = Zero
    BY <1>2
  <2> QED BY <1>2, <2>2, <2>3, <2>4 DEF EraseShadow
<1>5. ImageCurrent'
  BY <1>2, SameWriter DEF ImageCurrent, WriterHolds, At
<1>6. BurningBacked'
  BY <1>2 DEF NvmInv, BurningBacked
<1>7. DirtyAccounted'
  <2>1. CallUnits = {} /\ CallUnits' = Covered(x)
    BY <1>2 DEF CallUnits, NoCall
  <2> QED BY <1>2, <2>1, SameWriter, SameQueue DEF NvmInv, DirtyAccounted, Settled, Agree, Cleared, InHand
<1> QED BY <1>1, <1>3, <1>4, <1>5, <1>6, <1>7 DEF NvmInv

LEMMA BurnQueuedKeeps ==
    ASSUME NvmInv, BurnQueued
    PROVE  NvmInv'
<1>1. NvmTypeOK'
  BY NvmTypes DEF NvmInv, NvmNext, CallReturns
<1> DEFINE x == caller.at
           m == Pack("write", x)
<1>2. /\ caller.cmd = "burn" /\ caller # NoCall /\ ~ WriterHolds
      /\ x \in Request /\ caller.data \in Value
  BY DEF BurnQueued, NvmInv, WriterAlone, NvmTypeOK, Call, NoCall
<1>3. /\ \A u \in Unit : mirror'[u] = IF u \in Covered(x) THEN caller.data ELSE mirror[u]
      /\ queue' = Append(queue, m) /\ m \in Message
      /\ m.cmd = "write" /\ m.at = x
      /\ state' = "burning" /\ caller' = NoCall
      /\ UNCHANGED <<flash, writer, lost>>
      /\ queue \in Seq(Message) /\ Len(queue) \in Nat
  BY <1>2 DEF BurnQueued, Pack, Message, NvmInv, NvmTypeOK
<1> HIDE DEF x, m
<1>4. /\ QueuedUnits' = QueuedUnits \cup Covered(x)
      /\ Len(queue') = Len(queue) + 1
      /\ queue'[Len(queue) + 1] = m
      /\ (\A i \in 1 .. Len(queue) : queue'[i] = queue[i])
      /\ queue' # <<>>
  BY <1>3, Appended
<1>5. WriterAlone'
  BY <1>2, <1>3, SameWriter DEF NvmInv, WriterAlone
<1>6. EraseShadow'
  <2>1. ASSUME NEW y \in Request, NEW i \in 1 .. Len(queue) + 1, Shadow(y, i)
        PROVE  Shadow(y, i)'
    <3>1. ASSUME NEW u \in Covered(y)
          PROVE  mirror'[u] = Zero \/ WrittenAfter(u, i)'
      <4>1. CASE u \in Covered(x)
        BY <4>1, <1>3, <1>4 DEF WrittenAfter
      <4>2. CASE u \notin Covered(x) /\ mirror[u] = Zero
        BY <4>2, <1>3, CoveredUnits
      <4>3. CASE WrittenAfter(u, i)
        <5>1. PICK j \in i .. Len(queue) : queue[j].cmd = "write" /\ u \in Covered(queue[j].at)
          BY <4>3 DEF WrittenAfter
        <5>2. j \in i .. Len(queue') /\ queue'[j] = queue[j]
          BY <1>3, <1>4
        <5> QED BY <5>1, <5>2 DEF WrittenAfter
      <4> QED BY <4>1, <4>2, <4>3, <2>1 DEF Shadow
    <3> QED BY <3>1 DEF Shadow
  <2>2. ASSUME NEW i \in 1 .. Len(queue'), queue'[i].cmd = "erase"
        PROVE  Shadow(queue[i].at, i + 1)'
    <3>1. i \in 1 .. Len(queue) /\ queue'[i] = queue[i]
      <4>1. i # Len(queue) + 1
        BY <2>2, <1>3, <1>4
      <4> QED BY <4>1, <1>3, <1>4
    <3>2. PICK y \in Request : y = queue[i].at
      BY <3>1, QueueMessages DEF NvmInv
    <3>3. Shadow(y, i + 1)
      BY <2>2, <3>1, <3>2 DEF NvmInv, EraseShadow
    <3>4. Shadow(y, i + 1)'
      BY <3>1, <3>3, <2>1, <1>3
    <3> QED BY <3>1, <3>2, <3>4
  <2>3. ASSUME writer # Resting, writer.msg.cmd = "erase"
        PROVE  Shadow(Target, 1)'
    <3>1. Target \in Request
      BY <2>3, RequestAssumption DEF NvmInv, NvmTypeOK, Working, Message, Target
    <3>2. PICK y \in Request : y = Target
      BY <3>1
    <3>3. Shadow(y, 1)
      BY <2>3, <3>2 DEF NvmInv, EraseShadow
    <3>4. Shadow(y, 1)'
      BY <3>3, <2>1, <1>3
    <3> QED BY <3>2, <3>4, <1>3, SameWriter
  <2> QED BY <2>2, <2>3, <1>3 DEF EraseShadow, NoCall
<1>7. ImageCurrent'
  BY <1>2, <1>3, SameWriter DEF ImageCurrent, WriterHolds, At
<1>8. BurningBacked'
  BY <1>4 DEF BurningBacked
<1>9. DirtyAccounted'
  <2>1. CallUnits = {}
    BY <1>2 DEF CallUnits
  <2> QED BY <1>3, <1>4, <2>1, SameWriter DEF NvmInv, DirtyAccounted, Settled, Agree, Cleared, InHand
<1> QED BY <1>1, <1>5, <1>6, <1>7, <1>8, <1>9 DEF NvmInv

LEMMA EraseQueuedKeeps ==
    ASSUME NvmInv, EraseQueued
    PROVE  NvmInv'
<1>1. NvmTypeOK'
  BY NvmTypes DEF NvmInv, NvmNext, CallReturns
<1> DEFINE x == caller.at
           m == Pack("erase", x)
<1>2. /\ caller.cmd = "erase" /\ caller # NoCall /\ ~ WriterHolds
      /\ x \in Erasure /\ x \in Request
  BY RequestAssumption DEF EraseQueued, NvmInv, WriterAlone, NvmTypeOK, Call, NoCall
<1>3. /\ queue' = Append(queue, m) /\ m \in Message
      /\ m.at = x
      /\ state' = "burning" /\ caller' = NoCall
      /\ UNCHANGED <<mirror, flash, writer, lost>>
      /\ queue \in Seq(Message) /\ Len(queue) \in Nat
      /\ \A u \in Covered(x) : mirror[u] = Zero
  BY <1>2, RequestAssumption DEF EraseQueued, Pack, Message, NvmInv, NvmTypeOK, EraseShadow
<1> HIDE DEF x, m
<1>4. /\ QueuedUnits' = QueuedUnits \cup Covered(x)
      /\ Len(queue') = Len(queue) + 1
      /\ queue'[Len(queue) + 1] = m
      /\ (\A i \in 1 .. Len(queue) : queue'[i] = queue[i])
      /\ queue' # <<>>
  BY <1>3, Appended
<1>5. WriterAlone'
  BY <1>2, <1>3, SameWriter DEF NvmInv, WriterAlone
<1>6. EraseShadow'
  <2>1. ASSUME NEW y \in Request, NEW i \in 1 .. Len(queue) + 1, Shadow(y, i)
        PROVE  Shadow(y, i)'
    <3>1. ASSUME NEW u, WrittenAfter(u, i)
          PROVE  WrittenAfter(u, i)'
      <4>1. PICK j \in i .. Len(queue) : queue[j].cmd = "write" /\ u \in Covered(queue[j].at)
        BY <3>1 DEF WrittenAfter
      <4>2. j \in i .. Len(queue') /\ queue'[j] = queue[j]
        BY <1>3, <1>4
      <4> QED BY <4>1, <4>2 DEF WrittenAfter
    <3> QED BY <3>1, <2>1, <1>3 DEF Shadow
  <2>2. ASSUME NEW i \in 1 .. Len(queue'), queue'[i].cmd = "erase"
        PROVE  Shadow(queue[i].at, i + 1)'
    <3>1. CASE i = Len(queue) + 1
      BY <3>1, <1>3, <1>4 DEF Shadow
    <3>2. CASE i # Len(queue) + 1
      <4>1. i \in 1 .. Len(queue) /\ queue'[i] = queue[i]
        BY <3>2, <1>3, <1>4
      <4>2. PICK y \in Request : y = queue[i].at
        BY <4>1, QueueMessages DEF NvmInv
      <4>3. Shadow(y, i + 1)
        BY <2>2, <4>1, <4>2 DEF NvmInv, EraseShadow
      <4>4. Shadow(y, i + 1)'
        BY <4>1, <4>3, <2>1, <1>3
      <4> QED BY <4>1, <4>2, <4>4
    <3> QED BY <3>1, <3>2
  <2>3. ASSUME writer # Resting, writer.msg.cmd = "erase"
        PROVE  Shadow(Target, 1)'
    <3>1. Target \in Request
      BY <2>3, RequestAssumption DEF NvmInv, NvmTypeOK, Working, Message, Target
    <3>2. PICK y \in Request : y = Target
      BY <3>1
    <3>3. Shadow(y, 1)
      BY <2>3, <3>2 DEF NvmInv, EraseShadow
    <3>4. Shadow(y, 1)'
      BY <3>3, <2>1, <1>3
    <3> QED BY <3>2, <3>4, <1>3, SameWriter
  <2> QED BY <2>2, <2>3, <1>3 DEF EraseShadow, NoCall
<1>7. ImageCurrent'
  BY <1>2, <1>3, SameWriter DEF ImageCurrent, WriterHolds, At
<1>8. BurningBacked'
  BY <1>4 DEF BurningBacked
<1>9. DirtyAccounted'
  <2>1. CallUnits = Covered(x)
    BY <1>2 DEF CallUnits, x
  <2> QED BY <1>3, <1>4, <2>1, SameWriter DEF NvmInv, DirtyAccounted, Settled, Agree, Cleared, InHand
<1> QED BY <1>1, <1>5, <1>6, <1>7, <1>8, <1>9 DEF NvmInv

(* A call given up: a burn leaves the mirror alone, an erasure is counted. *)
LEMMA DroppedKeeps ==
    ASSUME NvmInv, BurnDropped \/ EraseDropped
    PROVE  NvmInv'
<1>1. NvmTypeOK'
  BY NvmTypes DEF NvmInv, NvmNext, CallReturns
<1>2. /\ caller # NoCall /\ ~ WriterHolds /\ caller' = NoCall
      /\ UNCHANGED <<mirror, flash, queue, state, writer>>
      /\ lost \subseteq lost'
      /\ CallUnits \subseteq lost'
  BY DEF BurnDropped, EraseDropped, Silently, NvmInv, WriterAlone, NoCall, CallUnits
<1>3. WriterAlone'
  BY <1>2, SameWriter DEF NvmInv, WriterAlone
<1>4. EraseShadow'
  BY <1>2, SameWriter, SameQueue DEF NvmInv, EraseShadow, Shadow, NoCall
<1>5. ImageCurrent'
  BY <1>2, SameWriter DEF ImageCurrent, WriterHolds, At
<1>6. BurningBacked'
  BY <1>2 DEF NvmInv, BurningBacked
<1>7. DirtyAccounted'
  BY <1>2, SameWriter, SameQueue DEF NvmInv, DirtyAccounted, Settled, Agree, Cleared, InHand
<1> QED BY <1>1, <1>3, <1>4, <1>5, <1>6, <1>7 DEF NvmInv

LEMMA ReceiveKeeps ==
    ASSUME NvmInv, WriterReceive
    PROVE  NvmInv'
<1>1. NvmTypeOK'
  BY NvmTypes DEF NvmInv, NvmNext, WriterWork
<1>2. /\ At("receive") /\ queue # <<>> /\ queue' = Tail(queue)
      /\ queue \in Seq(Message) /\ Len(queue) \in Nat
      /\ writer'.pc = "wait" /\ writer'.msg = Head(queue) /\ writer'.block = 0
      /\ UNCHANGED <<mirror, flash, state, caller, lost>>
  BY DEF WriterReceive, NvmInv, NvmTypeOK
<1>3. /\ QueuedUnits = QueuedUnits' \cup Covered(Head(queue).at)
      /\ Head(queue) = queue[1]
      /\ 1 \in 1 .. Len(queue)
      /\ Len(queue') = Len(queue) - 1
      /\ \A i \in 1 .. Len(queue') : queue'[i] = queue[i + 1]
  BY <1>2, Taken
<1>4. WriterUnits = {} /\ WriterUnits' = Covered(Head(queue).at)
      /\ Target' = Head(queue).at
  BY <1>2 DEF WriterUnits, At, Target
<1>5. WriterAlone'
  BY <1>2 DEF WriterAlone, WriterHolds, At
<1>6. EraseShadow'
  <2>1. ASSUME NEW y, NEW i \in Nat \ {0}, Shadow(y, i + 1)
        PROVE  Shadow(y, i)'
    <3>1. ASSUME NEW u, WrittenAfter(u, i + 1)
          PROVE  WrittenAfter(u, i)'
      <4>1. PICK j \in i + 1 .. Len(queue) :
                   queue[j].cmd = "write" /\ u \in Covered(queue[j].at)
        BY <3>1 DEF WrittenAfter
      <4>2. j - 1 \in i .. Len(queue') /\ queue'[j - 1] = queue[j]
        BY <1>2, <1>3
      <4> QED BY <4>1, <4>2 DEF WrittenAfter
    <3> QED BY <3>1, <2>1, <1>2 DEF Shadow
  <2>2. ASSUME NEW i \in 1 .. Len(queue'), queue'[i].cmd = "erase"
        PROVE  Shadow(queue[i].at, i + 1)'
    <3>1. i + 1 \in 1 .. Len(queue) /\ queue'[i] = queue[i + 1]
      BY <1>2, <1>3
    <3>2. PICK y \in Request : y = queue[i + 1].at
      BY <3>1, QueueMessages DEF NvmInv
    <3>3. Shadow(y, i + 1 + 1)
      BY <2>2, <3>1, <3>2 DEF NvmInv, EraseShadow
    <3>4. Shadow(y, i + 1)'
      BY <3>3, <2>1, <3>1
    <3> QED BY <3>1, <3>2, <3>4
  <2>3. ASSUME Head(queue).cmd = "erase"
        PROVE  Shadow(Target, 1)'
    <3>1. PICK y : y = queue[1].at
      OBVIOUS
    <3>2. Shadow(y, 1 + 1)
      BY <2>3, <1>3, <3>1 DEF NvmInv, EraseShadow
    <3>3. Shadow(y, 1)'
      BY <3>2, <2>1
    <3> QED BY <3>1, <3>3, <1>3, <1>4
  <2> QED BY <2>2, <2>3, <1>2 DEF NvmInv, EraseShadow
<1>7. ImageCurrent'
  BY <1>2 DEF ImageCurrent, At
<1>8. BurningBacked'
  BY <1>2 DEF BurningBacked
<1>9. DirtyAccounted'
  <2>1. CallUnits' = CallUnits
    BY <1>2 DEF CallUnits
  <2> QED BY <1>2, <1>3, <1>4, <2>1 DEF NvmInv, DirtyAccounted, Settled, Agree, Cleared, InHand
<1> QED BY <1>1, <1>5, <1>6, <1>7, <1>8, <1>9 DEF NvmInv

(* The writer's own steps leave the queue, the mirror and the caller.      *)
LEMMA WriterStepShadow ==
    ASSUME NvmInv, UNCHANGED <<mirror, queue, caller>>,
           writer # Resting, writer'.msg = writer.msg
    PROVE  EraseShadow'
<1>1. Target' = Target
  BY DEF Target
<1> QED BY <1>1, SameQueue DEF NvmInv, EraseShadow, Shadow

LEMMA TakeKeeps ==
    ASSUME NvmInv, WriterTake
    PROVE  NvmInv'
<1>1. NvmTypeOK'
  BY NvmTypes DEF NvmInv, NvmNext
<1>2. /\ At("wait") /\ caller = NoCall /\ UNCHANGED <<mirror, flash, queue, caller>>
      /\ NvmTypeOK
      /\ writer.pc # "receive" /\ writer # Resting /\ writer \in Working
  BY WriterTypes DEF WriterTake, NvmInv, SemaphoreFree, At
<1>3. WriterUnits = Covered(Target) /\ CallUnits = {} /\ CallUnits' = {}
  BY <1>2, WriterUnitsAt DEF CallUnits, NoCall
<1>4. CASE Target.first = 0
  <2>1. /\ writer'.pc = IF writer.msg.cmd = "write" THEN "compare" ELSE "erase"
        /\ writer'.msg = writer.msg /\ writer'.block = writer.block
        /\ Target' = Target /\ From' = From
        /\ UNCHANGED <<state, lost>>
    BY <1>2, <1>4 DEF WriterTake, Working, Target, From
  <2>2. writer.msg.cmd \in {"write", "erase"}
    BY <1>2 DEF Working, Message
  <2>3. WriterUnits' = Covered(Target)
    <3>1. WriterUnits' = Remaining'
      BY <2>1, <2>2 DEF WriterUnits, At
    <3>2. From = 0
      BY <1>2, SizesAssumption DEF NvmInv, WriterAlone, From
    <3>3. \A u \in Covered(Target) : u[2] \in Nat
      BY <1>2, CoveredUnits, RequestAssumption DEF Working, Message, Target
    <3>4. Remaining' = {u \in Covered(Target) : u[2] >= From}
      BY <2>1 DEF Remaining, Covered
    <3> QED BY <3>1, <3>2, <3>3, <3>4
  <2>4. WriterAlone'
    BY <1>2, <1>4, <2>1, <2>2 DEF WriterAlone, WriterHolds, At
  <2>5. EraseShadow'
    BY <1>2, <2>1, WriterStepShadow
  <2>6. ImageCurrent'
    BY <2>1 DEF ImageCurrent, At
  <2>7. BurningBacked'
    BY <2>1 DEF BurningBacked
  <2>8. DirtyAccounted'
    BY <1>2, <1>3, <2>1, <2>3, SameQueue DEF NvmInv, DirtyAccounted, Settled, Agree, Cleared, InHand
  <2> QED BY <1>1, <2>4, <2>5, <2>6, <2>7, <2>8 DEF NvmInv
<1>5. CASE Target.first # 0
  <2>1. Finish("failed") /\ lost' = lost \cup Covered(Target)
    BY <1>5 DEF WriterTake, GiveUp, Reported
  <2>2. writer'.pc = "release" /\ writer'.msg = writer.msg /\ state' = "failed"
    BY <1>2, <2>1, Finishing
  <2>3. WriterUnits' = {}
    BY <2>2 DEF WriterUnits, At
  <2>4. WriterAlone' /\ ImageCurrent' /\ BurningBacked'
    BY <2>2 DEF WriterAlone, WriterHolds, ImageCurrent, BurningBacked, At
  <2>5. EraseShadow'
    BY <1>2, <2>2, WriterStepShadow
  <2>6. DirtyAccounted'
    BY <1>2, <1>3, <2>1, <2>3, SameQueue DEF NvmInv, DirtyAccounted, Settled, Agree, Cleared, InHand
  <2> QED BY <1>1, <2>4, <2>5, <2>6 DEF NvmInv
<1> QED BY <1>4, <1>5

(* The next block: what the message has left beyond this one is in hand.   *)
LEMMA Advance ==
    ASSUME NvmInv, WriterHolds,
           NEW top \in {"compare", "erase"}, NEW buf \in BOOLEAN,
           top = "erase" <=> At("erase"),
           NextBlock(top, buf), UNCHANGED <<mirror, queue, caller>>
    PROVE  /\ WriterAlone'
           /\ EraseShadow'
           /\ ImageCurrent'
           /\ BurningBacked'
           /\ \A u \in Remaining : u \in Asked \/ u \in WriterUnits'
<1>1. /\ NvmTypeOK
      /\ writer.pc # "receive" /\ writer # Resting /\ writer \in Working
      /\ caller = NoCall /\ Target.first = 0
  BY WriterTypes DEF NvmInv, WriterAlone, WriterHolds
<1>2. /\ writer'.msg = writer.msg
      /\ Target' = Target
      /\ \/ LastBlock /\ writer'.pc = "release" /\ state' = "success"
         \/ ~ LastBlock /\ writer'.pc = top /\ state' = state /\ From' = Upto
  BY <1>1, Onwards
<1>3. top # "program" /\ top # "wait" /\ (top = "erase" \/ top = "compare")
  OBVIOUS
<1>4. WriterAlone'
  BY <1>1, <1>2, <1>3 DEF NvmInv, WriterAlone, WriterHolds, At
<1>5. EraseShadow'
  BY <1>1, <1>2, WriterStepShadow
<1>6. ImageCurrent'
  BY <1>2, <1>3 DEF ImageCurrent, At
<1>7. BurningBacked'
  BY <1>2, <1>3 DEF BurningBacked
<1>8. ASSUME NEW u \in Remaining, u \notin Asked
      PROVE  u \in WriterUnits'
  <2>1. ~ LastBlock /\ u[2] >= Upto /\ u \in Covered(Target)
    BY <1>1, <1>8, BlockAtHand DEF Remaining
  <2>2. u \in Remaining'
    BY <1>2, <2>1 DEF Remaining, Covered
  <2>3. WriterUnits' = Remaining'
    BY <1>2, <1>3, <2>1 DEF WriterUnits, At
  <2> QED BY <2>2, <2>3
<1> QED BY <1>4, <1>5, <1>6, <1>7, <1>8

(* A message given up at a block: what it had left is lost.                *)
LEMMA GivenUp ==
    ASSUME NvmInv, WriterHolds, GiveUp(Remaining \cup BlockUnit),
           UNCHANGED <<mirror, queue, caller>>
    PROVE  /\ WriterAlone'
           /\ EraseShadow'
           /\ ImageCurrent'
           /\ BurningBacked'
           /\ lost' = lost \cup Remaining \cup BlockUnit
<1>1. /\ NvmTypeOK
      /\ writer.pc # "receive" /\ writer # Resting
      /\ Finish("failed")
      /\ lost' = lost \cup Remaining \cup BlockUnit
  BY WriterTypes DEF NvmInv, WriterHolds, GiveUp, Reported
<1>2. writer'.pc = "release" /\ writer'.msg = writer.msg /\ state' = "failed"
  BY <1>1, Finishing
<1>3. WriterAlone' /\ ImageCurrent' /\ BurningBacked'
  BY <1>2 DEF WriterAlone, WriterHolds, ImageCurrent, BurningBacked, At
<1>4. EraseShadow'
  BY <1>1, <1>2, WriterStepShadow
<1> QED BY <1>1, <1>3, <1>4

(* While the writer has the semaphore, a unit that does not agree is lost, *)
(* queued, or still the message's.                                         *)
LEMMA AtWork ==
    ASSUME NvmInv, WriterHolds
    PROVE  /\ writer \in Working /\ NvmTypeOK
           /\ CallUnits = {}
           /\ \A u \in Unit : \/ Settled(u)
                              \/ u \in lost \cup QueuedUnits \cup Remaining
                              \/ At("program") /\ u \in BlockUnit
<1>1. writer \in Working /\ NvmTypeOK /\ caller = NoCall
  BY WriterTypes DEF NvmInv, WriterAlone, WriterHolds
<1>2. CallUnits = {}
  BY <1>1 DEF CallUnits, NoCall
<1>3. WriterUnits = IF At("program") THEN Remaining \cup BlockUnit ELSE Remaining
  BY WriterUnitsAt DEF WriterHolds, At
<1> QED BY <1>1, <1>2, <1>3 DEF NvmInv, DirtyAccounted, Settled, InHand

LEMMA SkipKeeps ==
    ASSUME NvmInv, WriterSkip
    PROVE  NvmInv'
<1>1. NvmTypeOK'
  BY NvmTypes DEF NvmInv, NvmNext, WriterWork
<1>2. /\ WriterHolds /\ ~ At("program")
      /\ UNCHANGED <<mirror, flash, queue, caller>>
      /\ ~ At("erase")
  BY DEF WriterSkip, WriterHolds, At
<1>3. PICK buf \in BOOLEAN : NextBlock("compare", buf)
  BY DEF WriterSkip
<1>4. \A u \in Asked : u \in lost' \/ flash[u] = mirror[u]
  BY DEF WriterSkip, Silently
<1>5. lost \ Asked \subseteq lost'
  BY DEF WriterSkip, Silently, Stored
<1>6. /\ WriterAlone' /\ EraseShadow' /\ ImageCurrent' /\ BurningBacked'
      /\ (\A u \in Remaining : u \in Asked \/ u \in WriterUnits')
  <2>1. "compare" \in {"compare", "erase"} /\ ("compare" = "erase" <=> At("erase"))
    BY <1>2
  <2> QED BY <1>2, <1>3, <2>1, Advance
<1>7. DirtyAccounted'
  <2>1. ASSUME NEW u \in Unit
        PROVE  Settled(u)' \/ u \in (lost \cup InHand)'
    BY <2>1, <1>2, <1>4, <1>5, <1>6, AtWork, SameQueue DEF Settled, Agree, Cleared, InHand
  <2> QED BY <2>1 DEF DirtyAccounted, Settled, Unit, RegionUnit
<1> QED BY <1>1, <1>6, <1>7 DEF NvmInv

LEMMA ClearKeeps ==
    ASSUME NvmInv, WriterClear
    PROVE  NvmInv'
<1>1. NvmTypeOK'
  BY NvmTypes DEF NvmInv, NvmNext, WriterWork
<1>2. /\ WriterHolds /\ At("compare") /\ caller = NoCall /\ Target.first = 0
      /\ UNCHANGED <<mirror, queue, state, caller, lost>>
      /\ NvmTypeOK /\ writer \in Working /\ writer # Resting
      /\ Nothing \in [Unit -> Cell] /\ Blank \in [Unit -> Cell]
  BY WriterTypes DEF WriterClear, WriterHolds, At, NvmInv, WriterAlone
<1>3. /\ writer'.pc = "program" /\ writer'.msg = writer.msg
      /\ writer'.block = writer.block /\ writer'.image = Image
  BY <1>2 DEF WriterClear, Working
<1>4. /\ Target' = Target /\ From' = From /\ Upto' = Upto
      /\ BlockUnit' = BlockUnit /\ Asked' = Asked /\ Remaining' = Remaining
  BY <1>3 DEF Target, From, Upto, BlockUnit, Asked, Remaining
<1>5. \A u \in Unit : u \notin BlockUnit => flash'[u] = flash[u]
  BY <1>2, PutTypes DEF WriterClear
<1>6. WriterAlone'
  BY <1>2, <1>3, <1>4 DEF NvmInv, WriterAlone, WriterHolds, At
<1>7. EraseShadow'
  BY <1>2, <1>3, WriterStepShadow
<1>8. ImageCurrent'
  <2>1. ASSUME NEW u \in BlockUnit
        PROVE  \/ Image[u] = mirror[u]
               \/ /\ u \notin Asked
                  /\ \/ mirror[u] = Zero /\ Image[u] = Erased
                     \/ u \in lost \cup QueuedUnits
    <3>1. u \in Unit
      BY DEF BlockUnit
    <3>2. CASE u \in Asked
      BY <3>1, <3>2 DEF Image
    <3>3. CASE u \notin Asked
      <4>1. Image[u] = flash[u]
        BY <3>1, <3>3 DEF Image
      <4>2. u \notin Remaining
        <5>1. \A w \in Remaining : w \in Covered(Target)
          BY DEF Remaining
        <5> QED BY <5>1, <3>3 DEF Asked
      <4>3. ~ At("program")
        BY <1>2 DEF At
      <4> QED BY <4>1, <4>2, <4>3, <3>1, <3>3, <1>2, AtWork DEF Settled, Agree, Cleared
    <3> QED BY <3>2, <3>3
  <2> QED BY <2>1, <1>2, <1>3, <1>4, SameQueue DEF ImageCurrent
<1>9. BurningBacked'
  BY <1>3 DEF BurningBacked
<1>10. DirtyAccounted'
  <2>1. WriterUnits' = Remaining \cup BlockUnit
    BY <1>3, <1>4 DEF WriterUnits, At
  <2>2. ~ At("program")
    BY <1>2 DEF At
  <2>3. ASSUME NEW u \in Unit
        PROVE  Settled(u)' \/ u \in (lost \cup InHand)'
    BY <2>1, <2>2, <2>3, <1>2, <1>5, AtWork, SameQueue DEF Settled, Agree, Cleared, InHand
  <2> QED BY <2>3 DEF DirtyAccounted, Settled, Unit, RegionUnit
<1> QED BY <1>1, <1>6, <1>7, <1>8, <1>9, <1>10 DEF NvmInv

LEMMA ProgramKeeps ==
    ASSUME NvmInv, WriterProgram
    PROVE  NvmInv'
<1>1. NvmTypeOK'
  BY NvmTypes DEF NvmInv, NvmNext, WriterWork
<1>2. /\ WriterHolds /\ At("program")
      /\ UNCHANGED <<mirror, queue, caller>>
      /\ ~ At("erase")
      /\ writer \in Working /\ NvmTypeOK /\ Nothing \in [Unit -> Cell]
      /\ writer.image \in [Unit -> Cell]
  BY WriterTypes DEF WriterProgram, WriterHolds, At, NvmInv, Working
<1>3. \A u \in Unit : u \notin BlockUnit => flash'[u] = flash[u]
  <2>1. flash' = Put(writer.image) \/ flash' = Put(Nothing)
    BY DEF WriterProgram
  <2>2. \A cells \in [Unit -> Cell] : \A u \in Unit :
            u \notin BlockUnit => Put(cells)[u] = flash[u]
    BY <1>2, PutTypes
  <2> QED BY <2>1, <2>2, <1>2
<1>4. "compare" \in {"compare", "erase"} /\ ("compare" = "erase" <=> At("erase"))
  BY <1>2
<1>5. CASE /\ flash' = Put(writer.image)
           /\ NextBlock("compare", TRUE)
           /\ lost' = lost \ Asked
  <2>1. /\ WriterAlone' /\ EraseShadow' /\ ImageCurrent' /\ BurningBacked'
        /\ (\A u \in Remaining : u \in Asked \/ u \in WriterUnits')
    BY <1>2, <1>4, <1>5, Advance
  <2>2. ASSUME NEW u \in Unit
        PROVE  Settled(u)' \/ u \in (lost \cup InHand)'
    <3>1. CASE u \in BlockUnit
      <4>1. flash'[u] = writer.image[u]
        BY <3>1, <1>2, <1>5, PutTypes
      <4>2. \/ writer.image[u] = mirror[u]
            \/ /\ u \notin Asked
               /\ \/ mirror[u] = Zero /\ writer.image[u] = Erased
                  \/ u \in lost \cup QueuedUnits
        BY <3>1, <1>2 DEF NvmInv, ImageCurrent
      <4> QED BY <4>1, <4>2, <1>2, <1>5, SameQueue DEF Settled, Agree, Cleared, InHand
    <3>2. CASE u \notin BlockUnit
      BY <3>2, <2>1, <1>2, <1>3, <1>5, AtWork, SameQueue DEF Settled, Agree, Cleared, InHand, Asked
    <3> QED BY <3>1, <3>2
  <2>3. DirtyAccounted'
    BY <2>2 DEF DirtyAccounted, Settled, Unit, RegionUnit
  <2> QED BY <1>1, <2>1, <2>3 DEF NvmInv
<1>6. CASE NextBlock("compare", TRUE) /\ lost' = lost \cup BlockUnit
  <2>1. /\ WriterAlone' /\ EraseShadow' /\ ImageCurrent' /\ BurningBacked'
        /\ (\A u \in Remaining : u \in Asked \/ u \in WriterUnits')
    BY <1>2, <1>4, <1>6, Advance
  <2>2. ASSUME NEW u \in Unit
        PROVE  Settled(u)' \/ u \in (lost \cup InHand)'
    BY <2>1, <2>2, <1>2, <1>3, <1>6, AtWork, SameQueue DEF Settled, Agree, Cleared, InHand, Asked
  <2>3. DirtyAccounted'
    BY <2>2 DEF DirtyAccounted, Settled, Unit, RegionUnit
  <2> QED BY <1>1, <2>1, <2>3 DEF NvmInv
<1>7. CASE GiveUp(Remaining \cup BlockUnit)
  <2>1. /\ WriterAlone' /\ EraseShadow' /\ ImageCurrent' /\ BurningBacked'
        /\ lost' = lost \cup Remaining \cup BlockUnit
    BY <1>2, <1>7, GivenUp
  <2>2. ASSUME NEW u \in Unit
        PROVE  Settled(u)' \/ u \in (lost \cup InHand)'
    BY <2>1, <2>2, <1>2, <1>3, AtWork, SameQueue DEF Settled, Agree, Cleared, InHand
  <2>3. DirtyAccounted'
    BY <2>2 DEF DirtyAccounted, Settled, Unit, RegionUnit
  <2> QED BY <1>1, <2>1, <2>3 DEF NvmInv
<1> QED BY <1>5, <1>6, <1>7 DEF WriterProgram, Silently, Stored

LEMMA EraseKeeps ==
    ASSUME NvmInv, WriterErase
    PROVE  NvmInv'
<1>1. NvmTypeOK'
  BY NvmTypes DEF NvmInv, NvmNext, WriterWork
<1>2. /\ WriterHolds /\ At("erase") /\ ~ At("program")
      /\ UNCHANGED <<mirror, queue, caller>>
      /\ writer \in Working /\ writer # Resting /\ NvmTypeOK
      /\ Nothing \in [Unit -> Cell] /\ Blank \in [Unit -> Cell]
      /\ writer.msg.cmd = "erase"
  BY WriterTypes DEF WriterErase, WriterHolds, At, NvmInv, WriterAlone
<1>3. \A u \in Unit : u \notin BlockUnit => flash'[u] = flash[u]
  BY <1>2, PutTypes DEF WriterErase
<1>4. "erase" \in {"compare", "erase"} /\ ("erase" = "erase" <=> At("erase"))
  BY <1>2
<1>5. CASE /\ flash' = Put(Blank)
           /\ NextBlock("erase", FALSE)
           /\ lost' = (lost \ Asked) \cup (BlockUnit \ Asked)
  <2>1. /\ WriterAlone' /\ EraseShadow' /\ ImageCurrent' /\ BurningBacked'
        /\ (\A u \in Remaining : u \in Asked \/ u \in WriterUnits')
    BY <1>2, <1>4, <1>5, Advance
  <2>2. ASSUME NEW u \in Unit
        PROVE  Settled(u)' \/ u \in (lost \cup InHand)'
    <3>1. CASE u \in Asked
      <4>1. flash'[u] = Erased
        BY <3>1, <1>2, <1>5, PutTypes DEF Asked, Blank
      <4>2. mirror[u] = Zero \/ u \in QueuedUnits
        BY <3>1, <1>2, WrittenIsQueued DEF NvmInv, EraseShadow, Shadow, Asked
      <4> QED BY <4>1, <4>2, <1>2, SameQueue DEF Settled, Agree, Cleared, InHand
    <3>2. CASE u \in BlockUnit \ Asked
      BY <3>2, <1>5
    <3>3. CASE u \notin BlockUnit
      BY <3>3, <2>1, <1>2, <1>3, <1>5, AtWork, SameQueue DEF Settled, Agree, Cleared, InHand, Asked
    <3> QED BY <3>1, <3>2, <3>3
  <2>3. DirtyAccounted'
    BY <2>2 DEF DirtyAccounted, Settled, Unit, RegionUnit
  <2> QED BY <1>1, <2>1, <2>3 DEF NvmInv
<1>6. CASE GiveUp(Remaining \cup BlockUnit)
  <2>1. /\ WriterAlone' /\ EraseShadow' /\ ImageCurrent' /\ BurningBacked'
        /\ lost' = lost \cup Remaining \cup BlockUnit
    BY <1>2, <1>6, GivenUp
  <2>2. ASSUME NEW u \in Unit
        PROVE  Settled(u)' \/ u \in (lost \cup InHand)'
    BY <2>1, <2>2, <1>2, <1>3, AtWork, SameQueue DEF Settled, Agree, Cleared, InHand
  <2>3. DirtyAccounted'
    BY <2>2 DEF DirtyAccounted, Settled, Unit, RegionUnit
  <2> QED BY <1>1, <2>1, <2>3 DEF NvmInv
<1> QED BY <1>5, <1>6 DEF WriterErase

LEMMA ReleaseKeeps ==
    ASSUME NvmInv, WriterRelease
    PROVE  NvmInv'
<1>1. NvmTypeOK'
  BY NvmTypes DEF NvmInv, NvmNext, WriterWork
<1>2. /\ At("release") /\ writer' = Resting /\ writer'.pc = "receive"
      /\ UNCHANGED <<mirror, flash, queue, state, caller, lost>>
  BY DEF WriterRelease, Resting
<1>3. WriterUnits = {} /\ WriterUnits' = {} /\ CallUnits' = CallUnits
  BY <1>2 DEF WriterUnits, At, CallUnits
<1>4. WriterAlone' /\ ImageCurrent'
  BY <1>2 DEF WriterAlone, WriterHolds, ImageCurrent, At
<1>5. BurningBacked'
  BY <1>2 DEF NvmInv, BurningBacked, At
<1>6. EraseShadow'
  BY <1>2, SameQueue DEF NvmInv, EraseShadow, Shadow
<1>7. DirtyAccounted'
  BY <1>2, <1>3, SameQueue DEF NvmInv, DirtyAccounted, Settled, Agree, Cleared, InHand
<1> QED BY <1>1, <1>4, <1>5, <1>6, <1>7 DEF NvmInv

LEMMA PowerLossKeeps ==
    ASSUME NvmInv, PowerLoss
    PROVE  NvmInv'
<1>1. NvmTypeOK'
  BY NvmTypes DEF NvmInv, NvmNext
<1>2. /\ writer' = Resting /\ writer'.pc = "receive"
      /\ queue' = <<>> /\ Len(queue') = 0 /\ caller'.cmd = "none" /\ state' = "unknown"
      /\ mirror' = flash'
  BY DEF PowerLoss, Resting, NoCall
<1>3. WriterAlone' /\ EraseShadow' /\ ImageCurrent' /\ BurningBacked'
  BY <1>2 DEF WriterAlone, WriterHolds, EraseShadow, ImageCurrent, BurningBacked, At
<1>4. DirtyAccounted'
  BY <1>2 DEF DirtyAccounted, Settled, Agree, Cleared
<1> QED BY <1>1, <1>3, <1>4 DEF NvmInv

-----------------------------------------------------------------------------
(* The results.                                                            *)

LEMMA NvmInitInv == NvmInit => NvmInv
<1> SUFFICES ASSUME NvmInit PROVE NvmInv
  OBVIOUS
<1>1. /\ writer = Resting /\ writer.pc = "receive"
      /\ queue = <<>> /\ Len(queue) = 0 /\ caller.cmd = "none" /\ state = "unknown"
      /\ mirror = flash
  BY DEF NvmInit, Resting, NoCall
<1>2. NvmTypeOK
  BY DEF NvmInit, NvmTypeOK, Cell, Call
<1>3. WriterAlone /\ EraseShadow /\ ImageCurrent /\ BurningBacked
  BY <1>1 DEF WriterAlone, WriterHolds, EraseShadow, ImageCurrent, BurningBacked, At
<1>4. DirtyAccounted
  BY <1>1 DEF DirtyAccounted, Settled, Agree, Cleared
<1> QED BY <1>2, <1>3, <1>4 DEF NvmInv

LEMMA NvmStep == NvmInv /\ [NvmNext]_nvmVars => NvmInv'
<1> SUFFICES ASSUME NvmInv, [NvmNext]_nvmVars PROVE NvmInv'
  OBVIOUS
<1>1. CASE UNCHANGED nvmVars
  <2>1. NvmTypeOK'
    BY NvmTypes DEF NvmInv
  <2>2. CallUnits' = CallUnits
    BY <1>1 DEF nvmVars, CallUnits
  <2>3. EraseShadow'
    BY <1>1, SameWriter, SameQueue DEF nvmVars, NvmInv, EraseShadow, Shadow
  <2>4. WriterAlone' /\ BurningBacked'
    BY <1>1, SameWriter DEF nvmVars, NvmInv, WriterAlone, BurningBacked
  <2>5. ImageCurrent'
    BY <1>1, SameWriter, SameQueue DEF nvmVars, NvmInv, ImageCurrent
  <2>6. DirtyAccounted'
    BY <1>1, <2>2, SameWriter, SameQueue DEF nvmVars, NvmInv, DirtyAccounted, Settled, Agree, Cleared, InHand
  <2> QED BY <2>1, <2>3, <2>4, <2>5, <2>6 DEF NvmInv
<1>2. CASE (\E x \in Request, v \in Value : BurnCall(x, v)) \/ (\E x \in Erasure : EraseCall(x))
  BY <1>2, BurnCallKeeps, EraseCallKeeps
<1>3. CASE CallReturns
  BY <1>3, BurnQueuedKeeps, EraseQueuedKeeps, DroppedKeeps DEF CallReturns
<1>4. CASE WriterWork \/ WriterTake
  BY <1>4, ReceiveKeeps, TakeKeeps, SkipKeeps, ClearKeeps, ProgramKeeps, EraseKeeps,
     ReleaseKeeps DEF WriterWork
<1> QED BY <1>1, <1>2, <1>3, <1>4, PowerLossKeeps DEF NvmNext

(* The invariant holds of every behaviour of the storage.                  *)
THEOREM NvmInvariant == NvmSafety => []NvmInv
BY NvmInitInv, NvmStep, PTL DEF NvmSafety

(* Whatever the layout, the requests and the interleaving of calls, writer *)
(* and power losses, what a restart would load (the flash of               *)
(* eis_api_nvm.c) is what the browser reads (the mirror), except where an  *)
(* erasure was carried out, where a call, a message or the writer is still *)
(* going to write or erase, or where the code gave up.                     *)
THEOREM MirrorAccounted == NvmSafety => []DirtyAccounted
<1>1. NvmInv => DirtyAccounted
  BY DEF NvmInv
<1> QED BY <1>1, NvmInvariant, PTL

(* A BURNING answer of nvram_status always has a message behind it.        *)
THEOREM BurningHasMessage == NvmSafety => []BurningBacked
<1>1. NvmInv => BurningBacked
  BY DEF NvmInv
<1> QED BY <1>1, NvmInvariant, PTL

(* The storage's variables have their types, and the writer never goes     *)
(* past the end of its message.                                            *)
THEOREM NvmTypeCorrect == NvmSafety => []NvmTypeOK
<1>1. NvmInv => NvmTypeOK
  BY DEF NvmInv
<1> QED BY <1>1, NvmInvariant, PTL

-----------------------------------------------------------------------------
(* A browser that waits for each result has one request at a time.         *)

Busy == writer.pc \in {"wait", "compare", "program", "erase"}

OneRequest ==
    /\ caller # NoCall => state # "burning"
    /\ state # "burning" => queue = <<>> /\ ~ Busy
    /\ Busy => queue = <<>>
    /\ Len(queue) <= 1

LEMMA OneRequestStep ==
    ASSUME Patient, NvmInv, OneRequest, [NvmNext]_nvmVars
    PROVE  OneRequest'
<1>0. NvmTypeOK /\ queue \in Seq(Message)
  BY DEF NvmInv, NvmTypeOK
<1>1. CASE (\E x \in Request, v \in Value : BurnCall(x, v)) \/ (\E x \in Erasure : EraseCall(x))
  BY <1>1 DEF BurnCall, EraseCall, MayCall, OneRequest, Busy
<1>2. CASE BurnQueued \/ EraseQueued
  <2>1. caller # NoCall /\ caller' = NoCall /\ state' = "burning" /\ writer' = writer
    BY <1>2 DEF BurnQueued, EraseQueued, NoCall
  <2>2. PICK m : queue' = Append(queue, m)
    BY <1>2 DEF BurnQueued, EraseQueued
  <2>3. queue = <<>> /\ ~ Busy
    BY <2>1 DEF OneRequest
  <2>4. Len(queue') = 1
    BY <2>2, <2>3
  <2> QED BY <2>1, <2>3, <2>4 DEF OneRequest, Busy
<1>3. CASE BurnDropped \/ EraseDropped
  BY <1>3 DEF BurnDropped, EraseDropped, OneRequest, Busy
<1>4. CASE WriterReceive
  <2>1. /\ queue' = Tail(queue) /\ queue # <<>> /\ UNCHANGED <<state, caller>>
    BY <1>4 DEF WriterReceive
  <2>2. Len(queue) <= 1 /\ Len(queue) \in Nat
    BY <1>0 DEF OneRequest
  <2>3. queue' = <<>> /\ Len(queue') = 0
    <3>1. Len(queue) = 1 /\ Len(queue') = Len(queue) - 1 /\ queue' \in Seq(Message)
      BY <1>0, <2>1, <2>2, Taken
    <3> QED BY <3>1
  <2>4. state' = "burning" /\ caller' = NoCall
    BY <2>1 DEF OneRequest
  <2> QED BY <2>3, <2>4 DEF OneRequest
<1>5. CASE WriterTake \/ WriterSkip \/ WriterClear \/ WriterProgram \/ WriterErase
  <2>1. Busy /\ queue' = queue /\ caller' = caller
    BY <1>5 DEF WriterTake, WriterSkip, WriterClear, WriterProgram, WriterErase, At, Busy
  <2>2. state = "burning" /\ queue = <<>> /\ caller = NoCall
    BY <2>1 DEF OneRequest
  <2>3. state' # "burning" => ~ Busy'
    <3>1. CASE state' = state
      BY <3>1, <2>2
    <3>2. CASE \E result : Finish(result)
      <4>1. writer.pc # "receive"
        BY <2>1 DEF Busy
      <4>2. writer'.pc = "release"
        BY <3>2, <4>1, <1>0, Finishing
      <4> QED BY <4>2 DEF Busy
    <3>3. (\E result : Finish(result)) \/ state' = state
      BY <1>5 DEF WriterTake, WriterSkip, WriterClear, WriterProgram, WriterErase,
                  GiveUp, NextBlock
    <3> QED BY <3>1, <3>2, <3>3
  <2> QED BY <2>1, <2>2, <2>3 DEF OneRequest
<1>6. CASE WriterRelease
  BY <1>6 DEF WriterRelease, OneRequest, Busy, Resting, At
<1>7. CASE PowerLoss
  BY <1>7 DEF PowerLoss, OneRequest, Busy, Resting
<1>8. CASE UNCHANGED nvmVars
  BY <1>8 DEF nvmVars, OneRequest, Busy
<1> QED BY <1>1, <1>2, <1>3, <1>4, <1>5, <1>6, <1>7, <1>8 DEF NvmNext, CallReturns, WriterWork

(* An erasure that takes no block in part.                                 *)
WholeBlocks(x) ==
    x.first = 0 => \A b \in Nat : b * BlockSize < x.len => (b + 1) * BlockSize <= x.len

(* What the code relies on for a SUCCESS to be one: a browser that waits   *)
(* for each result and erases whole blocks, a second message, room for a   *)
(* block in the heap, and an erasure that does not fail, or else a device  *)
(* that reports every programming that did not take.                       *)
SuccessConditions ==
    /\ Patient
    /\ MaxMessage > 1
    /\ ~ HeapRefuses
    /\ DeviceFails => VerifiesAll
    /\ \A x \in Erasure : WholeBlocks(x)

(* Nothing is given up in silence, because no block is programmed that was *)
(* not erased without that being reported.                                 *)
NothingUnsaid ==
    /\ unsaid = {}
    /\ ~ DeviceFails /\ At("program") => \A u \in BlockUnit : flash[u] = Erased

(* An erasure of whole blocks covers every block it comes to.              *)
LEMMA ErasedWhole ==
    ASSUME SuccessConditions, NvmInv, At("erase")
    PROVE  BlockUnit \subseteq Asked
<1>1. /\ writer \in Working /\ writer.msg.cmd = "erase" /\ Target.first = 0
      /\ From < Target.len
  BY WriterTypes DEF NvmInv, WriterAlone, WriterHolds, At
<1>2. /\ writer.msg \in Message /\ writer.block \in Nat
      /\ Target \in Erasure /\ Target \in Request
  BY <1>1, RequestAssumption DEF Working, Message, Target
<1>3. Target \in Extent /\ Target.len \in Nat
  BY <1>2, CoveredUnits DEF Extent
<1>4. Upto <= Target.len
  BY <1>1, <1>2 DEF SuccessConditions, WholeBlocks, From, Upto
<1>5. From \in Nat /\ Upto \in Nat
  BY <1>1, BlockAtHand
<1>6. ASSUME NEW u \in BlockUnit
      PROVE  u \in Covered(Target)
  <2>1. u \in Unit /\ u[1] = Target.region /\ u[2] >= From /\ u[2] < Upto
    BY <1>6 DEF BlockUnit
  <2>2. PICK r \in Region : u \in {r} \X RegionUnit(r)
    BY <2>1 DEF Unit
  <2>3. u = <<u[1], u[2]>> /\ u[2] \in Nat
    BY <2>2, SizesAssumption DEF RegionUnit
  <2>4. u[2] \in 0 .. Target.len - 1
    BY <2>1, <2>3, <1>3, <1>4, <1>5
  <2>5. Covered(Target) = {Target.region} \X (0 .. Target.len - 1)
    BY <1>1, <1>3 DEF Covered
  <2> QED BY <2>1, <2>3, <2>4, <2>5
<1> QED BY <1>6 DEF Asked

LEMMA NothingUnsaidStep ==
    ASSUME SuccessConditions, NvmInv, OneRequest, NothingUnsaid, [NvmNext]_nvmVars
    PROVE  NothingUnsaid'
<1>0. NvmTypeOK
  BY DEF NvmInv
<1>1. CASE \/ \E x \in Request, v \in Value : BurnCall(x, v)
           \/ \E x \in Erasure : EraseCall(x)
           \/ BurnQueued \/ BurnDropped \/ EraseQueued
           \/ UNCHANGED nvmVars
  <2>1. UNCHANGED <<writer, flash, unsaid>>
    BY <1>1 DEF BurnCall, EraseCall, BurnQueued, BurnDropped, EraseQueued, nvmVars
  <2> QED BY <2>1, SameWriter DEF NothingUnsaid
<1>2. CASE EraseDropped
  <2>1. caller # NoCall /\ ~ MessageFree
    BY <1>2 DEF EraseDropped, NoCall
  <2>2. queue = <<>>
    BY <2>1 DEF OneRequest
  <2>3. Len(queue) = 0 /\ MaxMessage \in Nat
    BY <2>2, SizesAssumption
  <2> QED BY <2>1, <2>3 DEF MessageFree, SuccessConditions
<1>3. CASE WriterReceive \/ WriterRelease \/ PowerLoss
  <2>1. writer'.pc # "program" /\ unsaid' = {}
    BY <1>3 DEF WriterReceive, WriterRelease, PowerLoss, Resting, NothingUnsaid
  <2> QED BY <2>1 DEF NothingUnsaid, At
<1>4. CASE WriterTake
  <2>1. writer \in Working
    BY <1>0, <1>4, WriterTypes DEF WriterTake, At
  <2>2. CASE Target.first = 0
    <3>1. writer'.pc # "program" /\ unsaid' = unsaid
      BY <1>4, <2>1, <2>2 DEF WriterTake, Working
    <3> QED BY <3>1 DEF NothingUnsaid, At
  <2>3. CASE Target.first # 0
    <3>1. Finish("failed") /\ unsaid' = unsaid \ Covered(Target) /\ writer.pc # "receive"
      BY <1>4, <2>3 DEF WriterTake, GiveUp, Reported, At
    <3>2. writer'.pc # "program"
      BY <3>1, <1>0, Finishing
    <3> QED BY <3>1, <3>2 DEF NothingUnsaid, At
  <2> QED BY <2>2, <2>3
<1>5. CASE WriterSkip
  <2>1. /\ writer.pc # "receive" /\ Stored(Asked)
        /\ \E buf \in BOOLEAN : NextBlock("compare", buf)
    BY <1>5 DEF WriterSkip, At, SuccessConditions
  <2>2. writer'.pc # "program"
    BY <2>1, <1>0, Onwards
  <2> QED BY <2>1, <2>2 DEF NothingUnsaid, Stored, At
<1>6. CASE WriterClear
  <2>1. writer \in Working
    BY <1>0, <1>6, WriterTypes DEF WriterClear, At
  <2>2. BlockUnit' = BlockUnit
    BY <1>6, <2>1 DEF WriterClear, Working, BlockUnit, Target, From, Upto
  <2>3. ASSUME ~ DeviceFails, NEW u \in BlockUnit
        PROVE  flash'[u] = Erased
    <3>1. flash' = Put(Blank) /\ u \in Unit
      BY <1>6, <2>3 DEF WriterClear, BlockUnit
    <3> QED BY <3>1, <2>3, <1>0, WriterTypes, PutTypes DEF Blank
  <2> QED BY <1>6, <2>2, <2>3 DEF NothingUnsaid, WriterClear
<1>7. CASE WriterProgram
  <2>1. At("program") /\ writer.pc # "receive"
    BY <1>7 DEF WriterProgram, At
  <2>2. VerifiesAll \/ ~ (\E u \in BlockUnit : flash[u] # Erased)
    BY <2>1, SwitchAssumption DEF NothingUnsaid, SuccessConditions
  <2>3. /\ NextBlock("compare", TRUE) \/ Finish("failed")
        /\ unsaid' \subseteq unsaid
    BY <1>7, <2>2 DEF WriterProgram, GiveUp, Stored, Reported
  <2>4. writer'.pc # "program"
    BY <2>1, <2>3, <1>0, Onwards, Finishing
  <2> QED BY <2>3, <2>4 DEF NothingUnsaid, At
<1>8. CASE WriterErase
  <2>1. At("erase") /\ writer.pc # "receive"
    BY <1>8 DEF WriterErase, At
  <2>2. BlockUnit \ Asked = {}
    BY <2>1, ErasedWhole
  <2>3. /\ NextBlock("erase", FALSE) \/ Finish("failed")
        /\ unsaid' \subseteq unsaid \cup (BlockUnit \ Asked)
    BY <1>8 DEF WriterErase, GiveUp, Reported
  <2>4. writer'.pc # "program"
    BY <2>1, <2>3, <1>0, Onwards, Finishing
  <2> QED BY <2>2, <2>3, <2>4 DEF NothingUnsaid, At
<1> QED BY <1>1, <1>2, <1>3, <1>4, <1>5, <1>6, <1>7, <1>8
        DEF NvmNext, CallReturns, WriterWork

LEMMA SuccessAlone == NvmInv /\ OneRequest /\ NothingUnsaid => SuccessMeansWritten
<1> SUFFICES ASSUME NvmInv, OneRequest, NothingUnsaid, SemaphoreFree, state = "success",
                    NEW u \in Unit
             PROVE  Agree(u) \/ Cleared(u) \/ u \in lost \ unsaid
  BY DEF SuccessMeansWritten
<1>1. queue = <<>> /\ ~ Busy /\ caller = NoCall
  BY DEF OneRequest, SemaphoreFree
<1>2. QueuedUnits = {}
  BY <1>1 DEF QueuedUnits
<1>3. WriterUnits = {}
  BY <1>1 DEF WriterUnits, At, Busy
<1>4. CallUnits = {}
  BY <1>1 DEF CallUnits, NoCall
<1> QED BY <1>2, <1>3, <1>4 DEF NvmInv, DirtyAccounted, InHand, NothingUnsaid

(* Under the conditions above, and for every layout and every interleaving *)
(* with failures and power losses, a SUCCESS of nvram_status means what    *)
(* eis_api_nvm.c:902 says: but for what a FAILED has reported, everything  *)
(* burned is in the flash and everything erased is erased.                 *)
THEOREM PatientSuccess == SuccessConditions => (NvmSafety => []SuccessMeansWritten)
<1> SUFFICES ASSUME SuccessConditions PROVE NvmSafety => []SuccessMeansWritten
  OBVIOUS
<1>1. NvmInit => OneRequest /\ NothingUnsaid
  BY DEF NvmInit, OneRequest, NothingUnsaid, Busy, Resting, At
<1>2. NvmInv /\ OneRequest /\ NothingUnsaid /\ [NvmNext]_nvmVars
      => OneRequest' /\ NothingUnsaid'
  BY OneRequestStep, NothingUnsaidStep DEF SuccessConditions
<1> QED BY <1>1, <1>2, NvmInvariant, SuccessAlone, PTL DEF NvmSafety
=============================================================================
