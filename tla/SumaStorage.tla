----------------------------- MODULE SumaStorage -----------------------------
(***************************************************************************)
(* The area the security module keeps in the flash: stb_tsm.c, the branch   *)
(* SUMA_SECURITY of eis_api_nvm.c and two status bytes in the EEPROM.       *)
(*                                                                          *)
(* The module reads and writes a copy in memory.  WriteFlash sends the      *)
(* storage's writer thread (Eis_NVM_Monitor) a message for each of two      *)
(* blocks of the flash, the main copy and the spare one; a status byte says *)
(* of each whether it is valid.  After a restart GetFlashAddr loads the     *)
(* main copy if it is valid, and restores it from the spare one first if    *)
(* only that one is.                                                        *)
(* The copy's data is the number of the write that put it there, unit by    *)
(* unit: what a write leaves alone is the same in both versions.            *)
(***************************************************************************)
EXTENDS Integers, Sequences

CONSTANTS
    Unit,           \* the bytes of the area
    MaxWrite,       \* bound: the writes that are made
    Torn            \* what a unit erased or half programmed reads as

ASSUME UnitAssumption == Unit # {}
ASSUME TornAssumption == Torn \notin Nat

VARIABLES
    memory,     \* SumaSecure_memory
    temp,       \* tempbuf of CH_CheckSecurityDataStatus, or Freed
    flash,      \* the blocks at FLASH_SECURITY_ADDR and ..._SPARE
    status,     \* "valid" is 0x8A in the EEPROM, "invalid" anything else
    queue,      \* EisCmd_Message: where to, and the buffer the data is in
    module,     \* the security module's thread
    writer,     \* Eis_NVM_Monitor
    written,    \* number of the last write
    backedUp,   \* both copies have been valid at once (a history)
    trouble     \* the worst that has happened, power losses apart (a history)

disk == <<flash, status>>
histories == <<written, backedUp, trouble>>
vars == <<memory, temp, disk, queue, module, writer, histories>>

Copy == {"main", "spare"}
Data == Nat \cup {Torn}
Image == [Unit -> Data]
All(d) == [u \in Unit |-> d]
Intact(image) == \A u, v \in Unit : image[u] = image[v] /\ image[u] # Torn

Freed == [u \in {} |-> Torn]
Message == [to : Copy, from : {"memory", "temp"}]

(* Where the module's thread is: in GetFlashAddr, between calls, in a       *)
(* WriteFlash that has some units left to copy or is at one of the copies.  *)
Starting == {"start", "restore", "resend", "wait", "recheck", "load"}
Place(p) == [at |-> p, to |-> "main", left |-> {}]
ModulePlace == [at : Starting \cup {"idle", "copy", "flag", "send"},
                to : Copy, left : SUBSET Unit]

Resting == [at |-> "receive"]
WriterPlace == {Resting}
    \cup [at : {"compare", "flag"}, msg : Message]
    \cup [at : {"program"}, msg : Message, image : Image, erased : BOOLEAN]
Pending == queue # <<>> \/ writer # Resting

(* "given up": a burn that was not made or not flagged, so that the copy    *)
(* stays invalid.  "unsound": a copy was flagged valid for what was not     *)
(* written to it or stayed flagged for what is to be overwritten, or the    *)
(* module did not leave the writer time.                                    *)
GiveUp == trouble' = IF trouble = "none" THEN "given up" ELSE trouble
Unsound == trouble' = "unsound"

Init ==
    /\ memory = All(0)
    /\ temp = Freed
    /\ flash = [c \in Copy |-> All(Torn)]
    /\ status = [c \in Copy |-> "invalid"]
    /\ queue = <<>>
    /\ module = Place("start")
    /\ writer = Resting
    /\ written = 0
    /\ backedUp = FALSE
    /\ trouble = "none"

-----------------------------------------------------------------------------
(* SumaSTBSecure_WriteFlash.                                               *)

(* Nothing tells the module when the writer is done.                       *)
WriteFlash ==
    /\ module.at = "idle"
    /\ written < MaxWrite
    /\ written' = written + 1
    /\ module' = [at |-> "copy", to |-> "main", left |-> Unit]
    /\ IF Pending THEN Unsound ELSE UNCHANGED trouble
    /\ UNCHANGED <<memory, temp, disk, queue, writer, backedUp>>

(* Mutant: the copy does not end.                                          *)
CopyOn(u) ==
    /\ module.at = "copy"
    /\ memory' = [memory EXCEPT ![u] = written]
    /\ module' = [module EXCEPT !.left = @ \ {u}]
    /\ UNCHANGED <<temp, disk, queue, writer, histories>>

(* The copy takes no semaphore, although the writer reads the memory under  *)
(* p_SumaMemorySema.                                                       *)
CopyUnit(u) ==
    /\ module.at = "copy"
    /\ u \in module.left
    /\ memory' = [memory EXCEPT ![u] = written]
    /\ module' = IF module.left = {u}
                 THEN Place("flag")
                 ELSE [module EXCEPT !.left = @ \ {u}]
    /\ UNCHANGED <<temp, disk, queue, writer, histories>>

(* CH_SetSecurityFlashStatus and ..Spare..: the EEPROM is written once, and *)
(* when it refuses nobody looks and the burn is sent all the same.         *)
FlagInvalid ==
    /\ module.at = "flag"
    /\ module' = [module EXCEPT !.at = "send"]
    /\ \/ /\ status' = [status EXCEPT ![module.to] = "invalid"]
          /\ UNCHANGED trouble
       \/ /\ UNCHANGED status
          /\ IF status[module.to] = "valid" THEN Unsound ELSE UNCHANGED trouble
    /\ UNCHANGED <<memory, temp, flash, queue, writer, written, backedUp>>

(* CH_Security_Flash_burn: the queue is the browser's too, and when no      *)
(* message comes free in three seconds the burn is dropped; its result is   *)
(* not looked at.                                                          *)
Burn(c, buffer) ==
    \/ /\ queue' = Append(queue, [to |-> c, from |-> buffer])
       /\ UNCHANGED trouble
    \/ /\ GiveUp
       /\ UNCHANGED queue

(* Mutant: both messages name the spare copy.                              *)
SpareTwice(c) == "spare"

Address(c) == c

SendBurn ==
    /\ module.at = "send"
    /\ Burn(Address(module.to), "memory")
    /\ module' = IF module.to = "main"
                 THEN [at |-> "flag", to |-> "spare", left |-> {}]
                 ELSE Place("idle")
    /\ UNCHANGED <<memory, temp, disk, writer, written, backedUp>>

-----------------------------------------------------------------------------
(* The writer: SumaSecurity_write_flash on the one block of a copy.        *)

Target == writer.msg.to

(* What the message's pointer reads; the heap's new owner, if it was freed. *)
Source == IF writer.msg.from = "memory" THEN memory
          ELSE IF temp = Freed THEN All(Torn) ELSE temp

WriterReceive ==
    /\ writer = Resting
    /\ queue # <<>>
    /\ writer' = [at |-> "compare", msg |-> Head(queue)]
    /\ queue' = Tail(queue)
    /\ UNCHANGED <<memory, temp, disk, module, histories>>

Flagging == writer' = [at |-> "flag", msg |-> writer.msg]

(* The block holds the data already, or CHSysPartition has no room for a    *)
(* block: it is passed over, and the result is success.                    *)
WriterPassOver ==
    /\ writer.at = "compare"
    /\ Flagging
    /\ IF flash[Target] = Source THEN UNCHANGED trouble ELSE Unsound
    /\ UNCHANGED <<memory, temp, disk, queue, module, written, backedUp>>

(* The data is taken into a buffer and the block erased; whether it was is  *)
(* not looked at.                                                          *)
WriterErase ==
    /\ writer.at = "compare"
    /\ flash[Target] # Source
    /\ \E erased \in BOOLEAN :
        /\ writer' = [at |-> "program", msg |-> writer.msg,
                      image |-> Source, erased |-> erased]
        /\ flash' \in {[flash EXCEPT ![Target] = All(Torn)]}
                      \cup (IF erased THEN {} ELSE {flash})
    /\ UNCHANGED <<memory, temp, status, queue, module, histories>>

(* The device may report success on a block that was not erased.           *)
WriterProgram ==
    /\ writer.at = "program"
    /\ \/ /\ flash' = [flash EXCEPT ![Target] = writer.image]
          /\ Flagging
          /\ UNCHANGED trouble
       \/ /\ ~writer.erased
          /\ flash' = [flash EXCEPT ![Target] = All(Torn)]
          /\ Flagging
          /\ Unsound
    /\ UNCHANGED <<memory, temp, status, queue, module, written, backedUp>>

(* Mutant: the copy is flagged after a program that failed as well.         *)
FailsAnyway ==
    /\ writer.at = "program"
    /\ \E image \in {writer.image, All(Torn)} :
            flash' = [flash EXCEPT ![Target] = image]
    /\ Flagging
    /\ GiveUp
    /\ UNCHANGED <<memory, temp, status, queue, module, written, backedUp>>

(* A thousand tries, the last of which may have been successful.           *)
WriterFails ==
    /\ writer.at = "program"
    /\ \E image \in {writer.image, All(Torn)} :
            flash' = [flash EXCEPT ![Target] = image]
    /\ writer' = Resting
    /\ GiveUp
    /\ UNCHANGED <<memory, temp, status, queue, module, written, backedUp>>

(* Mutant: the branch for the spare address is missing.                    *)
FlagMain ==
    /\ writer.at = "flag"
    /\ status' = [status EXCEPT !["main"] = IF Target = "main" THEN "valid" ELSE @]
    /\ backedUp' = (backedUp \/ \A c \in Copy : status'[c] = "valid")
    /\ writer' = Resting
    /\ UNCHANGED <<memory, temp, flash, queue, module, written, trouble>>

WriterFlag ==
    /\ writer.at = "flag"
    /\ status' = [status EXCEPT ![Target] = "valid"]
    /\ backedUp' = (backedUp \/ \A c \in Copy : status'[c] = "valid")
    /\ writer' = Resting
    /\ UNCHANGED <<memory, temp, flash, queue, module, written, trouble>>

(* The EEPROM refuses, and nobody looks.                                   *)
WriterFlagRefused ==
    /\ writer.at = "flag"
    /\ writer' = Resting
    /\ GiveUp
    /\ UNCHANGED <<memory, temp, disk, queue, module, written, backedUp>>

-----------------------------------------------------------------------------
(* SumaSTBSecure_GetFlashAddr after a restart.                             *)

CH_CheckSecurityDataStatus ==
    /\ module.at = "start"
    /\ module' = Place(IF status["main"] # "valid" /\ status["spare"] = "valid"
                       THEN "restore" ELSE "recheck")
    /\ UNCHANGED <<memory, temp, disk, queue, writer, histories>>

(* The writer holds gpsema_eis_nvm from the message to the flag, and        *)
(* ipanel_porting_nvram_read waits for it.                                 *)
FlashReadable == writer = Resting

RestoreRead ==
    /\ module.at = "restore"
    /\ \/ /\ FlashReadable
          /\ temp' = flash["spare"]
          /\ module' = Place("resend")
          /\ UNCHANGED trouble
       \/ /\ module' = Place("recheck")     \* no room for tempbuf
          /\ GiveUp
          /\ UNCHANGED temp
    /\ UNCHANGED <<memory, disk, queue, writer, written, backedUp>>

RestoreSend ==
    /\ module.at = "resend"
    /\ Burn("main", "temp")
    /\ module' = Place("wait")
    /\ UNCHANGED <<memory, temp, disk, writer, written, backedUp>>

(* The main copy is valid, or three seconds have passed; the buffer is      *)
(* freed, whether or not the writer has read it.                           *)
RestoreEnds ==
    /\ module.at = "wait"
    /\ temp' = Freed
    /\ module' = Place("recheck")
    /\ CASE status["main"] = "valid"                   -> UNCHANGED trouble
         [] queue # <<>> \/ writer.at = "compare"      -> Unsound
         [] OTHER                                      -> GiveUp
    /\ UNCHANGED <<memory, disk, queue, writer, written, backedUp>>

(* Mutant: the main copy is loaded whatever its status.                    *)
MainAnyway == TRUE

MainIsValid == status["main"] = "valid"

Recheck ==
    /\ module.at = "recheck"
    /\ module' = Place(IF MainIsValid THEN "load" ELSE "idle")
    /\ UNCHANGED <<memory, temp, disk, queue, writer, histories>>

LoadMain ==
    /\ module.at = "load"
    /\ FlashReadable
    /\ memory' = flash["main"]
    /\ module' = Place("idle")
    /\ UNCHANGED <<temp, disk, queue, writer, histories>>

-----------------------------------------------------------------------------
(* A block in the writer's hands is Torn already.                          *)
PowerLoss ==
    /\ memory' = All(0)
    /\ temp' = Freed
    /\ queue' = <<>>
    /\ module' = Place("start")
    /\ writer' = Resting
    /\ UNCHANGED <<disk, histories>>

ModuleRuns ==
    \/ \E u \in Unit : CopyUnit(u)
    \/ FlagInvalid \/ SendBurn
    \/ CH_CheckSecurityDataStatus \/ RestoreRead \/ RestoreSend
    \/ RestoreEnds \/ Recheck \/ LoadMain

WriterRuns ==
    \/ WriterReceive \/ WriterPassOver \/ WriterErase
    \/ WriterProgram \/ WriterFails
    \/ WriterFlag \/ WriterFlagRefused

Next == WriteFlash \/ ModuleRuns \/ WriterRuns \/ PowerLoss

Safety == Init /\ [][Next]_vars

(* Both threads run: no call of the module waits more than three seconds,   *)
(* and the writer's device calls have retry limits.  Nobody has to write.   *)
Spec == Safety /\ WF_vars(ModuleRuns) /\ WF_vars(WriterRuns)

-----------------------------------------------------------------------------
TypeOK ==
    /\ memory \in Image
    /\ temp \in Image \cup {Freed}
    /\ flash \in [Copy -> Image]
    /\ status \in [Copy -> {"valid", "invalid"}]
    /\ queue \in Seq(Message)
    /\ module \in ModulePlace
    /\ writer \in WriterPlace
    /\ written \in Nat
    /\ backedUp \in BOOLEAN
    /\ trouble \in {"none", "given up", "unsound"}
    /\ module.at = "copy" => module.left # {}

(* A copy flagged valid holds one write, whole, whenever the power goes     *)
(* ("the backup is valid", eis_api_nvm.c:1121): the flag goes before the    *)
(* first change of the block and comes back after the last.  Not claimed    *)
(* after something unsound: when the EEPROM refuses the former (st_nvm.c:   *)
(* 1230), power lost during the burn leaves half a block flagged valid.    *)
ValidIsIntact ==
    trouble # "unsound" =>
        \A c \in Copy : status[c] = "valid" => Intact(flash[c])

(* What the security module reads is one write, or the zeros of an area     *)
(* that was never written, also after a restart in the middle of a restore  *)
(* (stb_tsm.c:84-95); only its own WriteFlash sees it in between.           *)
MemoryIntact ==
    trouble # "unsound" /\ module.at # "copy" => Intact(memory)

(* The spare copy is given up for a new one only when the main copy is      *)
(* whole: the order of the two messages, kept across restarts, makes a      *)
(* backup of it.                                                           *)
SpareLast ==
    trouble = "none" /\ writer.at = "program" /\ Target = "spare" =>
        Intact(flash["main"])

(* A write reaches both copies and their flags, although WriteFlash looks   *)
(* at no result, unless the power goes or a burn is given up.              *)
BothCurrent == \A c \in Copy : status[c] = "valid" /\ flash[c] = memory
Saved ==
    module.at = "send" ~>
        BothCurrent \/ module.at = "start" \/ trouble # "none"

(* WriteFlash writes a backup (stb_tsm.c:174): once there is one, a restart *)
(* finds a valid copy.                                                     *)
RestartFindsCopy ==
    backedUp /\ trouble = "none" /\ module.at = "start" =>
        \E c \in Copy : status[c] = "valid"
=============================================================================
