------------------------------- MODULE EisNvm -------------------------------
(***************************************************************************)
(* The browser's non-volatile storage: eis_api_nvm.c over CH_FlashMid.c,   *)
(* built with CH_FLASH_MIRROR.                                             *)
(*                                                                         *)
(* Every region of the flash has a mirror in memory.  The browser reads    *)
(* the mirror, nvram_burn and nvram_erase change it and queue a message,   *)
(* and a thread of its own, the writer (Eis_NVM_Monitor), carries the      *)
(* messages out on the flash, block by block.  gpsema_eis_nvm excludes     *)
(* the calls from one another and from the writer's work, so at most one   *)
(* call is in progress: it waits, semaphore in hand, for a message.        *)
(* Flash and mirror are arrays of units; a block has BlockSize of them and *)
(* a request names the unit it starts at and the number it covers.         *)
(***************************************************************************)
EXTENDS Integers, Sequences, FiniteSets

CONSTANTS
    Region,         \* the regions nvram_info hands out
    Blocks,         \* the number of blocks of each
    BlockSize,      \* units of a block
    Request,        \* the extents the browser burns
    Erasure,        \* those of them that it erases too
    Value,          \* the data it burns
    Zero,           \* what nvram_erase leaves in the mirror
    Erased,         \* what an erased unit of the flash reads as
    Torn,           \* an erasure or a programming that did not complete
    MaxMessage,     \* messages of EisCmd_Message
    DeviceFails,    \* the flash may refuse an operation 1000 times
    VerifiesAll,    \* what a programming left is compared word by word
    HeapRefuses,    \* CHSysPartition may have no room for a block
    Patient         \* the browser waits for a result before the next call

RegionUnit(r) == 0 .. Blocks[r] * BlockSize - 1
Unit == UNION {{r} \X RegionUnit(r) : r \in Region}

(* The browser keeps within the region it was told of.                     *)
Extent == [region : Region, first : Nat, len : Nat \ {0}]
Fits(x) == x.first + x.len <= Blocks[x.region] * BlockSize
Covered(x) == {x.region} \X (x.first .. x.first + x.len - 1)

ASSUME SizesAssumption ==
    /\ Blocks \in [Region -> Nat \ {0}]
    /\ BlockSize \in Nat \ {0}
    /\ MaxMessage \in Nat \ {0}
ASSUME RequestAssumption ==
    /\ Request \subseteq Extent /\ \A x \in Request : Fits(x)
    /\ Erasure \subseteq Request
ASSUME SwitchAssumption ==
    {DeviceFails, VerifiesAll, HeapRefuses, Patient} \subseteq BOOLEAN
ASSUME CellAssumption ==
    /\ {Zero, Erased, Torn} \cap Value = {}
    /\ Zero # Erased /\ Zero # Torn /\ Erased # Torn

Cell == Value \cup {Zero, Erased, Torn}
Message == [cmd : {"write"}, at : Request] \cup [cmd : {"erase"}, at : Erasure]

VARIABLES
    mirror,     \* mirror_basic, mirror_appmgr, mirror_third, mirror_quick
    flash,      \* what a restart would load
    queue,      \* EisCmd_Message
    state,      \* eis_flash_state
    caller,     \* the call that holds the semaphore, or NoCall
    writer,     \* Eis_NVM_Monitor
    lost,       \* units whose burn or erasure the code gave up (a history)
    unsaid      \* those of them that no FAILED has reported (a history)

nvmVars == <<mirror, flash, queue, state, caller, writer, lost, unsaid>>

NoCall == [cmd |-> "none"]
Call == {NoCall} \cup [cmd : {"burn"}, at : Request, data : Value]
                 \cup [cmd : {"erase"}, at : Erasure]

(* The writer: where it is, its message, the block it is on, whether it    *)
(* has its buffer, and what it is about to program (Torn elsewhere).       *)
Resting == [pc |-> "receive"]
Nothing == [u \in Unit |-> Torn]
Working == [pc : {"wait", "compare", "program", "erase", "release"},
            msg : Message, block : Nat, buffer : BOOLEAN, image : [Unit -> Cell]]

At(place) == writer.pc = place
WriterHolds == writer.pc \in {"compare", "program", "erase"}
SemaphoreFree == caller = NoCall /\ ~ WriterHolds

Pack(cmd, x) == [cmd |-> cmd, at |-> x]

NvmInit ==
    /\ flash = [u \in Unit |-> Erased]
    /\ mirror = flash
    /\ queue = <<>>
    /\ state = "unknown"
    /\ caller = NoCall
    /\ writer = Resting
    /\ lost = {}
    /\ unsaid = {}

-----------------------------------------------------------------------------
(* The calls.  A message is taken until message_release, so the one the    *)
(* writer is on counts.                                                    *)

MessageFree == Len(queue) + (IF At("receive") THEN 0 ELSE 1) < MaxMessage

(* Units given up without a FAILED, with one, and units written or erased. *)
Silently(units) == lost' = lost \cup units /\ unsaid' = unsaid \cup units
Reported(units) == lost' = lost \cup units /\ unsaid' = unsaid \ units
Stored(units)   == lost' = lost \ units /\ unsaid' = unsaid \ units

MayCall == SemaphoreFree /\ (Patient => state # "burning")

BurnCall(x, v) ==
    /\ MayCall
    /\ caller' = [cmd |-> "burn", at |-> x, data |-> v]
    /\ UNCHANGED <<mirror, flash, queue, state, writer, lost, unsaid>>

(* The message's data pointer is the address burned, in the mirror.        *)
BurnQueued ==
    /\ caller.cmd = "burn"
    /\ MessageFree
    /\ mirror' = [u \in Unit |-> IF u \in Covered(caller.at) THEN caller.data
                                                             ELSE mirror[u]]
    /\ queue' = Append(queue, Pack("write", caller.at))
    /\ state' = "burning"
    /\ caller' = NoCall
    /\ UNCHANGED <<flash, writer, lost, unsaid>>

(* Mutant: a claim without a time limit.                                   *)
BurnWaits == caller.cmd = "burn" /\ ~ MessageFree /\ FALSE

(* Three seconds without a message: the data is dropped, IPANEL_OK.        *)
BurnDropped ==
    /\ caller.cmd = "burn"
    /\ ~ MessageFree
    /\ caller' = NoCall
    /\ UNCHANGED <<mirror, flash, queue, state, writer, lost, unsaid>>

EraseCall(x) ==
    /\ MayCall
    /\ caller' = [cmd |-> "erase", at |-> x]
    /\ mirror' = [u \in Unit |-> IF u \in Covered(x) THEN Zero ELSE mirror[u]]
    /\ UNCHANGED <<flash, queue, state, writer, lost, unsaid>>

EraseQueued ==
    /\ caller.cmd = "erase"
    /\ MessageFree
    /\ queue' = Append(queue, Pack("erase", caller.at))
    /\ state' = "burning"
    /\ caller' = NoCall
    /\ UNCHANGED <<mirror, flash, writer, lost, unsaid>>

EraseDropped ==
    /\ caller.cmd = "erase"
    /\ ~ MessageFree
    /\ caller' = NoCall
    /\ Silently(Covered(caller.at))
    /\ UNCHANGED <<mirror, flash, queue, state, writer>>

-----------------------------------------------------------------------------
(* The writer.                                                             *)

WriterReceive ==
    /\ At("receive")
    /\ queue # <<>>
    /\ writer' = [pc |-> "wait", msg |-> Head(queue), block |-> 0,
                  buffer |-> FALSE, image |-> Nothing]
    /\ queue' = Tail(queue)
    /\ UNCHANGED <<mirror, flash, state, caller, lost, unsaid>>

Target == writer.msg.at
From == writer.block * BlockSize
Upto == (writer.block + 1) * BlockSize
BlockUnit == {u \in Unit : u[1] = Target.region /\ u[2] >= From /\ u[2] < Upto}
Asked == Covered(Target) \cap BlockUnit

(* Mutants: one block too many; only whole blocks.                         *)
LastPassed == Upto > Target.len
LastWhole == Upto + BlockSize > Target.len

LastBlock == Upto >= Target.len

(* What the message still has to do, the block at hand included.           *)
Remaining == {u \in Covered(Target) : u[2] >= From}

Finish(result) == /\ state' = result
                  /\ writer' = [writer EXCEPT !.pc = "release", !.image = Nothing]

(* Mutant: result 0, the address refused, leaves the state as it was.      *)
GiveUpSilently(units) ==
    /\ writer' = [writer EXCEPT !.pc = "release", !.image = Nothing]
    /\ state' = state
    /\ Reported(units)

GiveUp(units) == Finish("failed") /\ Reported(units)

(* On to the next block, where the loop over the blocks starts again.      *)
NextBlock(top, buf) ==
    IF LastBlock THEN Finish("success")
    ELSE /\ writer' = [writer EXCEPT !.pc = top, !.block = @ + 1,
                                     !.buffer = buf, !.image = Nothing]
         /\ state' = state

(* EIS_Get_ActFALSHAddr knows the first address of a region, no other.     *)
WriterTake ==
    /\ At("wait")
    /\ SemaphoreFree
    /\ IF Target.first = 0
       THEN /\ writer' = [writer EXCEPT
                            !.pc = IF writer.msg.cmd = "write" THEN "compare" ELSE "erase"]
            /\ UNCHANGED <<state, lost, unsaid>>
       ELSE GiveUp(Covered(Target))
    /\ UNCHANGED <<mirror, flash, queue, caller>>

(* write_flash on a block: without a buffer, or when the block holds the   *)
(* data already, the block is passed over.                                 *)
WriterSkip ==
    /\ At("compare")
    /\ \/ /\ HeapRefuses /\ ~ writer.buffer
          /\ NextBlock("compare", FALSE)
          /\ Silently(Asked)
       \/ /\ \A u \in Asked : flash[u] = mirror[u]
          /\ NextBlock("compare", TRUE)
          /\ Stored(Asked)
    /\ UNCHANGED <<mirror, flash, queue, caller>>

(* The block with other contents.                                          *)
Put(cells) == [u \in Unit |-> IF u \in BlockUnit THEN cells[u] ELSE flash[u]]
Blank == [u \in Unit |-> Erased]

(* Mutant: the rest of the block is not read back.                         *)
ImageBare == [u \in Unit |-> IF u \in Asked THEN mirror[u]
                             ELSE IF u \in BlockUnit THEN Erased ELSE Torn]

(* The block as it is, overlaid with the data.                             *)
Image == [u \in Unit |-> IF u \in Asked THEN mirror[u]
                         ELSE IF u \in BlockUnit THEN flash[u] ELSE Torn]

NeedsUpdate == \E u \in Asked : flash[u] # mirror[u]

(* The block is erased first; the code does not look whether it was.       *)
WriterClear ==
    /\ At("compare")
    /\ NeedsUpdate
    /\ writer' = [writer EXCEPT !.pc = "program", !.buffer = TRUE, !.image = Image]
    /\ flash' \in {Put(Blank)} \cup (IF DeviceFails THEN {flash, Put(Nothing)} ELSE {})
    /\ UNCHANGED <<mirror, queue, state, caller, lost, unsaid>>

(* On a block that was not erased something else may be left and success   *)
(* reported: one word in sixteen is read back (lld.c:640).  A success at   *)
(* the last try counts as a failure.                                       *)
WriterProgram ==
    /\ At("program")
    /\ \/ /\ flash' = Put(writer.image)
          /\ NextBlock("compare", TRUE)
          /\ Stored(Asked)
       \/ /\ ~ VerifiesAll
          /\ \E u \in BlockUnit : flash[u] # Erased
          /\ flash' = Put(Nothing)
          /\ NextBlock("compare", TRUE)
          /\ Silently(BlockUnit)
       \/ /\ DeviceFails
          /\ flash' \in {Put(writer.image), Put(Nothing)}
          /\ GiveUp(Remaining \cup BlockUnit)
    /\ UNCHANGED <<mirror, queue, caller>>

(* erase_flash on a block: whole blocks, whatever length was asked.        *)
WriterErase ==
    /\ At("erase")
    /\ \/ /\ flash' = Put(Blank)
          /\ NextBlock("erase", FALSE)
          /\ lost' = (lost \ Asked) \cup (BlockUnit \ Asked)
          /\ unsaid' = (unsaid \ Asked) \cup (BlockUnit \ Asked)
       \/ /\ DeviceFails
          /\ flash' \in {flash, Put(Blank), Put(Nothing)}
          /\ GiveUp(Remaining \cup BlockUnit)
    /\ UNCHANGED <<mirror, queue, caller>>

WriterRelease ==
    /\ At("release")
    /\ writer' = Resting
    /\ UNCHANGED <<mirror, flash, queue, state, caller, lost, unsaid>>

-----------------------------------------------------------------------------
(* Power can go at any time; the box starts again with the mirrors loaded  *)
(* from the flash (init_nvm).  A block being changed may be left Torn.     *)

BlockAtRisk == \/ At("compare") /\ NeedsUpdate
               \/ At("program")
               \/ At("erase")

PowerLoss ==
    /\ flash' \in {flash} \cup (IF BlockAtRisk THEN {Put(Nothing)} ELSE {})
    /\ mirror' = flash'
    /\ queue' = <<>>
    /\ state' = "unknown"
    /\ caller' = NoCall
    /\ writer' = Resting
    /\ lost' = {}
    /\ unsaid' = {}

-----------------------------------------------------------------------------

CallReturns == BurnQueued \/ BurnDropped \/ EraseQueued \/ EraseDropped
WriterWork  == \/ WriterReceive \/ WriterSkip \/ WriterClear
               \/ WriterProgram \/ WriterErase \/ WriterRelease

NvmNext ==
    \/ \E x \in Request, v \in Value : BurnCall(x, v)
    \/ \E x \in Erasure : EraseCall(x)
    \/ CallReturns
    \/ WriterWork
    \/ WriterTake
    \/ PowerLoss

NvmSafety == NvmInit /\ [][NvmNext]_nvmVars

(* A call waits for a message three seconds at most; the writer runs, and  *)
(* gpsema_eis_nvm is a FIFO semaphore, so no stream of calls keeps the     *)
(* writer from its turn.                                                   *)
NvmSpec == /\ NvmSafety
           /\ WF_nvmVars(CallReturns)
           /\ WF_nvmVars(WriterWork)
           /\ SF_nvmVars(WriterTake)

-----------------------------------------------------------------------------

NvmTypeOK ==
    /\ mirror \in [Unit -> Cell]
    /\ flash \in [Unit -> Cell]
    /\ queue \in Seq(Message)
    /\ state \in {"unknown", "burning", "success", "failed"}
    /\ caller \in Call
    /\ writer \in {Resting} \cup Working
    /\ writer # Resting => From < Target.len
    /\ unsaid \subseteq lost /\ lost \subseteq Unit

(* What reads the same after a restart.                                    *)
Agree(u) == mirror[u] = flash[u]

(* What was erased: it reads zero (memset, eis_api_nvm.c:858) until the    *)
(* restart, and what an erasure leaves in the flash after it.              *)
Cleared(u) == mirror[u] = Zero /\ flash[u] = Erased
Settled(u) == Agree(u) \/ Cleared(u)

QueuedUnits == UNION {Covered(queue[i].at) : i \in 1 .. Len(queue)}
WriterUnits == CASE At("wait")               -> Covered(Target)
                 [] At("compare")            -> Remaining
                 [] At("erase")              -> Remaining
                 [] At("program")            -> Remaining \cup BlockUnit
                 [] OTHER                    -> {}
CallUnits == IF caller.cmd = "erase" THEN Covered(caller.at) ELSE {}
InHand == QueuedUnits \cup WriterUnits \cup CallUnits

(* A unit would not read the same after a restart only where an erasure    *)
(* was carried out, where a call, a message or the writer is still going   *)
(* to write or erase it, or where the code gave up: an erasure without a   *)
(* message, an address that is not a region's, a block without a buffer, a *)
(* device failure, the rest of a block of which a part was to be erased.   *)
(* Whatever the order of burns, erasures and the writer's steps, a later   *)
(* one finds the mirror's newest data (eis_api_nvm.c:297-424, the          *)
(* message's pointer is the mirror).                                       *)
DirtyAccounted ==
    \A u \in Unit : Agree(u) \/ Cleared(u) \/ u \in lost \cup InHand

(* BURNING is never left behind: some message stands for it.               *)
BurningBacked ==
    state = "burning" =>
        queue # <<>> \/ writer.pc \in {"wait", "compare", "program", "erase"}

(* A poll of nvram_status that answers SUCCESS (eis_api_nvm.c:894-903,     *)
(* "written successfully") means that everything burned is in the flash    *)
(* and everything erased is erased, but for what an earlier FAILED has     *)
(* reported.  What the code gave up in silence is not excepted.  It holds  *)
(* for a browser that waits for each result before the next call and       *)
(* erases whole blocks, while the heap has room for a block and no block   *)
(* that was not erased is reported programmed; write_flash looks at        *)
(* neither of the latter (eis_api_nvm.c:350, :385), and returns 1.         *)
SuccessMeansWritten ==
    SemaphoreFree /\ state = "success" =>
        \A u \in Unit : Agree(u) \/ Cleared(u) \/ u \in lost \ unsaid

(* A poller that waits for BURNING to end (eis_api_device.c:506) is not    *)
(* kept waiting, and the two sides of the semaphore do not block one       *)
(* another: a call that finds no message holds the semaphore the writer    *)
(* needs to release one.                                                   *)
BurnSettles == state = "burning" ~> state # "burning"

(* Once the calls stop, what was not given up reaches the flash and stays: *)
(* burned data as it is in the mirror, an erased unit erased.              *)
EventuallyDurable ==
    <>[](caller = NoCall) => <>[](\A u \in Unit \ lost : Settled(u))
=============================================================================
