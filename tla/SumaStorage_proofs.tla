------------------------- MODULE SumaStorage_proofs -------------------------
(***************************************************************************)
(* Theorems about SumaStorage, for every area and any number of writes and  *)
(* power losses.                                                            *)
(***************************************************************************)
EXTENDS SumaStorage, TLAPS

Sound == trouble # "unsound"

(* A message in the queue for a copy, and the writer at work on one.        *)
InQueue(c) == \E i \in 1 .. Len(queue) : queue[i].to = c
AtWriter(c) == writer # Resting /\ writer.msg.to = c

(* The restore's buffer, while a message points to it.                     *)
TempReady == module.at = "wait" /\ temp \in Image /\ Intact(temp)
Readable(m) == m.from = "temp" => m.to = "main" /\ TempReady

(* A copy that has a message is not flagged valid, and what the message     *)
(* points to is whole.                                                     *)
QueueReady ==
    \A i \in 1 .. Len(queue) :
        status[queue[i].to] = "invalid" /\ Readable(queue[i])

(* A copy has one message at most.                                         *)
OneEach ==
    /\ \A i, j \in 1 .. Len(queue) : i # j => queue[i].to # queue[j].to
    /\ \A i \in 1 .. Len(queue) : ~AtWriter(queue[i].to)

WriterReady ==
    /\ writer.at \in {"compare", "program"} => status[Target] = "invalid"
    /\ writer.at = "compare" => Readable(writer.msg)
    /\ writer.at = "program" => Intact(writer.image)
    /\ writer.at = "flag" => Intact(flash[Target])

(* What the module's thread can count on where it is.                      *)
ModuleReady ==
    /\ module.at \in {"start", "restore", "resend", "copy"} => ~Pending
    /\ module.at = "copy" =>
          \A v \in Unit : v \in module.left \/ memory[v] = written
    /\ module.at \in {"flag", "send"} =>
          IF module.to = "main" THEN ~Pending
          ELSE ~InQueue("spare") /\ ~AtWriter("spare")
    /\ module.at = "send" => status[module.to] = "invalid"
    /\ module.at = "restore" => /\ status["main"] = "invalid"
                                /\ status["spare"] = "valid"
    /\ module.at = "resend" => /\ status["main"] = "invalid"
                               /\ temp \in Image /\ Intact(temp)
    /\ module.at = "load" => status["main"] = "valid"

Ready == QueueReady /\ OneEach /\ WriterReady /\ ModuleReady

(* The main copy comes first.                                              *)
MainIntact == Intact(flash["main"])
MainFirst ==
    /\ module.at \in {"flag", "send"} /\ module.to = "spare" =>
          MainIntact \/ AtWriter("main") \/ InQueue("main")
    /\ \A i \in 1 .. Len(queue) : queue[i].to = "spare" =>
          \/ MainIntact \/ AtWriter("main")
          \/ \E j \in 1 .. i - 1 : queue[j].to = "main"
    /\ AtWriter("spare") => MainIntact

SumaInv ==
    /\ TypeOK
    /\ ValidIsIntact
    /\ MemoryIntact
    /\ Sound => Ready
    /\ trouble = "none" => MainFirst

-----------------------------------------------------------------------------
(* Facts about images, places and queues.                                  *)

LEMMA NotFreed == ASSUME NEW i \in Image PROVE i # Freed
<1>1. DOMAIN i = Unit /\ DOMAIN Freed = {}
  BY DEF Image, Freed
<1> QED BY <1>1, UnitAssumption

LEMMA AllIsImage == ASSUME NEW d \in Data PROVE All(d) \in Image
BY DEF All, Image

LEMMA NumberIsIntact == ASSUME NEW n \in Nat PROVE Intact(All(n))
BY TornAssumption DEF All, Intact

LEMMA PlaceTyped ==
    ASSUME NEW p \in Starting \cup {"idle", "flag", "send"}
    PROVE  /\ Place(p) \in ModulePlace
           /\ Place(p).at = p /\ Place(p).to = "main"
BY DEF Place, ModulePlace, Copy

LEMMA SparePlace == [at |-> "flag", to |-> "spare", left |-> {}] \in ModulePlace
BY DEF ModulePlace, Copy

LEMMA WriterCases ==
    ASSUME writer \in WriterPlace
    PROVE  /\ writer = Resting <=> writer.at = "receive"
           /\ writer.at \in {"receive", "compare", "program", "flag"}
           /\ writer # Resting => writer.msg \in Message
           /\ writer.at = "program" => writer.image \in Image
BY DEF WriterPlace, Resting

LEMMA WriterAtWork ==
    ASSUME NEW m \in Message
    PROVE  /\ \A p \in {"compare", "flag"} :
                /\ [at |-> p, msg |-> m] \in WriterPlace
                /\ [at |-> p, msg |-> m] # Resting
           /\ \A i \in Image, e \in BOOLEAN :
                /\ [at |-> "program", msg |-> m, image |-> i, erased |-> e] \in WriterPlace
                /\ [at |-> "program", msg |-> m, image |-> i, erased |-> e] # Resting
BY DEF WriterPlace, Resting

LEMMA SourceTyped ==
    ASSUME TypeOK, writer # Resting PROVE Source \in Image
BY AllIsImage, WriterCases DEF TypeOK, Source, Data

LEMMA Appended ==
    ASSUME NEW q \in Seq(Message), NEW m \in Message
    PROVE  /\ Append(q, m) \in Seq(Message)
           /\ Len(Append(q, m)) = Len(q) + 1
           /\ Len(q) \in Nat
           /\ Append(q, m)[Len(q) + 1] = m
           /\ \A i \in 1 .. Len(q) : Append(q, m)[i] = q[i] /\ q[i] \in Message
BY SMT

LEMMA Received ==
    ASSUME NEW q \in Seq(Message), q # <<>>
    PROVE  /\ Tail(q) \in Seq(Message)
           /\ Head(q) \in Message /\ Head(q) = q[1]
           /\ Len(q) \in Nat /\ Len(q) >= 1 /\ Len(Tail(q)) = Len(q) - 1
           /\ \A i \in 1 .. Len(q) - 1 : Tail(q)[i] = q[i + 1]
BY SMT

LEMMA QueueTyped ==
    ASSUME NEW q \in Seq(Message)
    PROVE  \A i \in 1 .. Len(q) : q[i] \in Message /\ q[i].to \in Copy
<1>1. \A i \in 1 .. Len(q) : q[i] \in Message
  BY SMT
<1>2. \A m \in Message : m.to \in Copy
  BY DEF Message
<1> QED BY <1>1, <1>2

(* Loss of soundness is for good, and so is any trouble.                   *)
LEMMA TroubleLasts ==
    ASSUME TypeOK, [Next]_vars
    PROVE  /\ Sound' => Sound
           /\ trouble' = "none" => trouble = "none"
           /\ trouble' \in {"none", "given up", "unsound"}
BY Zenon DEF TypeOK, Sound, Next, ModuleRuns, WriterRuns, WriteFlash, CopyUnit,
   FlagInvalid, SendBurn, Burn, CH_CheckSecurityDataStatus, RestoreRead,
   RestoreSend, RestoreEnds, Recheck, LoadMain, WriterReceive,
   WriterPassOver, WriterErase, WriterProgram, WriterFails, WriterFlag,
   WriterFlagRefused, PowerLoss, GiveUp, Unsound, histories, vars

-----------------------------------------------------------------------------
(* Types.                                                                  *)

LEMMA BurnTyped ==
    ASSUME TypeOK, NEW c \in Copy, NEW b \in {"memory", "temp"}, Burn(c, b)
    PROVE  queue' \in Seq(Message)
<1>1. [to |-> c, from |-> b] \in Message
  BY DEF Message
<1>2. queue \in Seq(Message)
  BY DEF TypeOK
<1>3. Append(queue, [to |-> c, from |-> b]) \in Seq(Message)
  BY <1>1, <1>2, Appended
<1> QED BY <1>2, <1>3 DEF Burn

LEMMA CallTyped == TypeOK /\ WriteFlash => TypeOK'
<1> SUFFICES ASSUME TypeOK, WriteFlash PROVE TypeOK'
  OBVIOUS
<1>1. module' \in ModulePlace /\ module'.left # {}
  BY UnitAssumption DEF WriteFlash, Place, ModulePlace, Copy
<1>2. trouble' \in {"none", "given up", "unsound"}
  BY TroubleLasts DEF Next
<1>3. written' \in Nat
  <2>1. written \in Nat /\ written' = written + 1
    BY DEF TypeOK, WriteFlash
  <2> QED BY <2>1, SMT
<1>4. UNCHANGED <<memory, temp, flash, status, queue, writer, backedUp>>
  BY DEF WriteFlash, disk
<1> QED BY <1>1, <1>2, <1>3, <1>4 DEF TypeOK

LEMMA CopyTyped ==
    ASSUME TypeOK, NEW u \in Unit, CopyUnit(u)
    PROVE  TypeOK'
<1>1. memory' \in Image
  BY DEF CopyUnit, TypeOK, Image, Data
<1>2. module.left = {u} => module' = Place("flag")
  BY DEF CopyUnit
<1>3. module.left # {u} =>
          /\ module' \in ModulePlace /\ module'.at = "copy"
          /\ module'.left = module.left \ {u}
  BY DEF CopyUnit, TypeOK, ModulePlace
<1>4. module.left # {u} => module.left \ {u} # {}
  BY DEF CopyUnit
<1>5. module' \in ModulePlace /\ (module'.at = "copy" => module'.left # {})
  BY <1>2, <1>3, <1>4, PlaceTyped
<1> QED BY <1>1, <1>5 DEF TypeOK, CopyUnit, disk, histories

LEMMA SendTyped == TypeOK /\ (FlagInvalid \/ SendBurn) => TypeOK'
<1> SUFFICES ASSUME TypeOK, FlagInvalid \/ SendBurn PROVE TypeOK'
  OBVIOUS
<1>1. trouble' \in {"none", "given up", "unsound"}
  BY TroubleLasts DEF Next, ModuleRuns
<1>2. CASE FlagInvalid
  <2>1. module' \in ModulePlace /\ module'.at = "send"
    BY <1>2 DEF FlagInvalid, TypeOK, ModulePlace
  <2>2. status' \in [Copy -> {"valid", "invalid"}]
    BY <1>2 DEF FlagInvalid, TypeOK
  <2> QED BY <1>1, <1>2, <2>1, <2>2 DEF FlagInvalid, TypeOK
<1>3. CASE SendBurn
  <2>1. module.to \in Copy
    BY DEF TypeOK, ModulePlace
  <2>2. queue' \in Seq(Message)
    BY <1>3, <2>1, BurnTyped DEF SendBurn, Address
  <2>3. module' \in ModulePlace /\ module'.at # "copy"
    BY <1>3, PlaceTyped, SparePlace DEF SendBurn
  <2> QED BY <1>1, <1>3, <2>2, <2>3 DEF SendBurn, TypeOK, disk
<1> QED BY <1>2, <1>3

LEMMA RestartTyped ==
    TypeOK /\ (\/ CH_CheckSecurityDataStatus \/ RestoreRead \/ RestoreSend
               \/ RestoreEnds \/ Recheck \/ LoadMain) => TypeOK'
<1> SUFFICES ASSUME TypeOK,
                    \/ CH_CheckSecurityDataStatus \/ RestoreRead \/ RestoreSend
                    \/ RestoreEnds \/ Recheck \/ LoadMain
             PROVE  TypeOK'
  OBVIOUS
<1>1. trouble' \in {"none", "given up", "unsound"}
  BY TroubleLasts DEF Next, ModuleRuns
<1>2. \E p \in Starting \cup {"idle"} : module' = Place(p)
  BY DEF CH_CheckSecurityDataStatus, RestoreRead, RestoreSend, RestoreEnds,
         Recheck, LoadMain, Starting
<1>3. module' \in ModulePlace /\ module'.at # "copy"
  BY <1>2, PlaceTyped DEF Starting
<1>4. flash["main"] \in Image /\ flash["spare"] \in Image
  BY DEF TypeOK, Copy
<1>5. queue' \in Seq(Message)
  BY BurnTyped DEF CH_CheckSecurityDataStatus, RestoreRead, RestoreSend,
     RestoreEnds, Recheck, LoadMain, TypeOK, Copy
<1> QED BY <1>1, <1>3, <1>4, <1>5, Zenon
        DEF TypeOK, CH_CheckSecurityDataStatus, RestoreRead, RestoreSend,
            RestoreEnds, Recheck, LoadMain, disk, histories

LEMMA FlashPut ==
    ASSUME TypeOK, NEW c \in Copy, NEW i \in Image
    PROVE  [flash EXCEPT ![c] = i] \in [Copy -> Image]
BY DEF TypeOK

LEMMA WriterTyped == TypeOK /\ WriterRuns => TypeOK'
<1> SUFFICES ASSUME TypeOK, WriterRuns PROVE TypeOK'
  OBVIOUS
<1>1. trouble' \in {"none", "given up", "unsound"}
  BY TroubleLasts DEF Next
<1>2. writer.at # "receive" => writer.msg \in Message /\ Target \in Copy
  BY WriterCases DEF TypeOK, Message, Target
<1>3. All(Torn) \in Image
  BY AllIsImage DEF Data
<1>4. Resting \in WriterPlace
  BY DEF WriterPlace
<1>5. CASE WriterReceive
  <2>1. queue' \in Seq(Message) /\ writer' \in WriterPlace
    BY <1>5, Received, WriterAtWork DEF WriterReceive, TypeOK
  <2> QED BY <1>5, <2>1 DEF WriterReceive, TypeOK, disk, histories
<1>6. CASE WriterPassOver
  <2>1. writer' \in WriterPlace
    BY <1>2, <1>6, WriterAtWork DEF WriterPassOver, Flagging
  <2> QED BY <1>1, <1>6, <2>1 DEF WriterPassOver, TypeOK, disk
<1>7. CASE WriterErase
  <2>1. writer # Resting /\ Source \in Image
    BY <1>7, SourceTyped, WriterCases DEF WriterErase, TypeOK
  <2>2. writer' \in WriterPlace
    BY <1>2, <1>7, <2>1, WriterAtWork DEF WriterErase
  <2>3. flash' \in [Copy -> Image]
    BY <1>2, <1>3, <1>7, FlashPut DEF WriterErase, TypeOK
  <2> QED BY <1>7, <2>2, <2>3 DEF WriterErase, TypeOK, histories
<1>8. CASE WriterProgram \/ WriterFails
  <2>1. writer.image \in Image
    BY <1>8, WriterCases DEF WriterProgram, WriterFails, TypeOK
  <2>2. writer' \in WriterPlace
    BY <1>2, <1>4, <1>8, WriterAtWork DEF WriterProgram, WriterFails, Flagging
  <2>3. flash' \in [Copy -> Image]
    BY <1>2, <1>3, <1>8, <2>1, FlashPut DEF WriterProgram, WriterFails
  <2> QED BY <1>1, <1>8, <2>2, <2>3 DEF WriterProgram, WriterFails, TypeOK
<1>9. CASE WriterFlag
  <2>1. status' \in [Copy -> {"valid", "invalid"}]
    BY <1>9 DEF WriterFlag, TypeOK
  <2> QED BY <1>4, <1>9, <2>1 DEF WriterFlag, TypeOK
<1>10. CASE WriterFlagRefused
  BY <1>1, <1>4, <1>10 DEF WriterFlagRefused, TypeOK, disk
<1> QED BY <1>5, <1>6, <1>7, <1>8, <1>9, <1>10 DEF WriterRuns

LEMMA PowerTyped == TypeOK /\ PowerLoss => TypeOK'
<1> SUFFICES ASSUME TypeOK, PowerLoss PROVE TypeOK'
  OBVIOUS
<1>1. memory' \in Image
  BY AllIsImage DEF PowerLoss, Data
<1>2. module' \in ModulePlace /\ module'.at # "copy"
  BY PlaceTyped DEF PowerLoss, Starting
<1>3. queue' \in Seq(Message) /\ writer' \in WriterPlace
  BY DEF PowerLoss, WriterPlace
<1> QED BY <1>1, <1>2, <1>3 DEF PowerLoss, TypeOK, disk, histories

LEMMA TypeStep == TypeOK /\ [Next]_vars => TypeOK'
<1>1. TypeOK /\ UNCHANGED vars => TypeOK'
  BY DEF TypeOK, vars, disk, histories
<1>2. TypeOK /\ ModuleRuns => TypeOK'
  BY CopyTyped, SendTyped, RestartTyped DEF ModuleRuns
<1> QED BY <1>1, <1>2, CallTyped, WriterTyped, PowerTyped DEF Next

-----------------------------------------------------------------------------
(* Valid copies stay whole.                                                *)

LEMMA OutsideWriter ==
    ASSUME TypeOK, [Next]_vars, ~WriterRuns
    PROVE  /\ flash' = flash
           /\ \A c \in Copy : status'[c] = "valid" => status[c] = "valid"
<1>1. flash' = flash /\ (status' = status \/ FlagInvalid)
  BY DEF Next, ModuleRuns, WriteFlash, CopyUnit, FlagInvalid, SendBurn,
         CH_CheckSecurityDataStatus, RestoreRead, RestoreSend, RestoreEnds,
         Recheck, LoadMain, PowerLoss, disk, vars
<1>2. FlagInvalid => \A c \in Copy : status'[c] = "valid" => status[c] = "valid"
  BY DEF FlagInvalid, TypeOK
<1> QED BY <1>1, <1>2

(* The writer changes the block it is on, and a flag only at the end.       *)
LEMMA WriterTouches ==
    ASSUME TypeOK, WriterRuns
    PROVE  /\ \A c \in Copy : c # Target => flash'[c] = flash[c]
           /\ WriterReceive => flash' = flash
           /\ WriterFlag \/ WriterFlagRefused => flash' = flash
           /\ WriterPassOver => flash' = flash
           /\ ~WriterFlag => status' = status
BY DEF WriterRuns, WriterReceive, WriterPassOver, WriterErase, WriterProgram,
       WriterFails, WriterFlag, WriterFlagRefused, disk, TypeOK

LEMMA ValidStep == SumaInv /\ [Next]_vars => ValidIsIntact'
<1> SUFFICES ASSUME SumaInv, [Next]_vars, Sound',
                    NEW c \in Copy, status'[c] = "valid"
             PROVE  Intact(flash'[c])
  BY DEF ValidIsIntact, Sound
<1>1. TypeOK /\ Sound /\ Ready
  BY TroubleLasts DEF SumaInv
<1>2. status[c] = "valid" => Intact(flash[c])
  BY <1>1 DEF SumaInv, ValidIsIntact, Sound
<1>3. CASE ~WriterRuns
  BY <1>1, <1>2, <1>3, OutsideWriter
<1>4. CASE WriterRuns /\ c # Target
  <2>1. flash'[c] = flash[c]
    BY <1>1, <1>4, WriterTouches
  <2>2. status'[c] = status[c]
    BY <1>1, <1>4, WriterTouches DEF WriterFlag, TypeOK
  <2> QED BY <1>2, <2>1, <2>2
<1>5. CASE WriterRuns /\ c = Target
  <2>1. CASE WriterFlag
    BY <1>1, <1>5, <2>1, WriterTouches DEF WriterFlag, Ready, WriterReady
  <2>2. CASE WriterReceive \/ WriterPassOver \/ WriterFlagRefused
    BY <1>1, <1>2, <1>5, <2>2, WriterTouches
    DEF WriterReceive, WriterPassOver, WriterFlagRefused, disk
  <2>3. CASE WriterErase \/ WriterProgram \/ WriterFails
    <3>1. status[Target] = "invalid" /\ status' = status
      BY <1>1, <2>3 DEF WriterErase, WriterProgram, WriterFails, Ready, WriterReady
    <3> QED BY <1>5, <3>1
  <2> QED BY <1>5, <2>1, <2>2, <2>3 DEF WriterRuns
<1> QED BY <1>3, <1>4, <1>5

-----------------------------------------------------------------------------
(* The module reads one write.                                             *)

LEMMA MemoryStep == SumaInv /\ [Next]_vars => MemoryIntact'
<1> SUFFICES ASSUME SumaInv, [Next]_vars, Sound', module'.at # "copy"
             PROVE  Intact(memory')
  BY DEF MemoryIntact, Sound
<1>1. TypeOK /\ Sound /\ Ready /\ ValidIsIntact
  BY TroubleLasts DEF SumaInv
<1>2. module.at # "copy" => Intact(memory)
  BY <1>1 DEF SumaInv, MemoryIntact, Sound
<1>3. CASE \E u \in Unit : CopyUnit(u)
  <2>1. PICK u \in Unit : CopyUnit(u)
    BY <1>3
  <2>2. module.left = {u} /\ module.at = "copy" /\ memory' = [memory EXCEPT ![u] = written]
    BY <2>1 DEF CopyUnit
  <2>3. \A v \in Unit : memory'[v] = written
    BY <1>1, <2>2 DEF Ready, ModuleReady, TypeOK, Image
  <2>4. written # Torn
    BY <1>1, TornAssumption DEF TypeOK
  <2> QED BY <2>3, <2>4 DEF Intact
<1>4. CASE LoadMain
  BY <1>1, <1>4 DEF LoadMain, Ready, ModuleReady, ValidIsIntact, Sound, Copy
<1>5. CASE PowerLoss
  BY <1>5, NumberIsIntact DEF PowerLoss
<1>6. CASE /\ ~ \E u \in Unit : CopyUnit(u)
           /\ ~ LoadMain /\ ~ PowerLoss
  <2>1. memory' = memory
    BY <1>6 DEF Next, ModuleRuns, WriterRuns, WriteFlash, FlagInvalid, SendBurn,
       CH_CheckSecurityDataStatus, RestoreRead, RestoreSend, RestoreEnds,
       Recheck, WriterReceive, WriterPassOver, WriterErase, WriterProgram,
       WriterFails, WriterFlag, WriterFlagRefused, vars
  <2>2. module.at # "copy"
    BY <1>6 DEF Next, ModuleRuns, WriterRuns, WriteFlash, FlagInvalid, SendBurn,
       CH_CheckSecurityDataStatus, RestoreRead, RestoreSend, RestoreEnds,
       Recheck, WriterReceive, WriterPassOver, WriterErase, WriterProgram,
       WriterFails, WriterFlag, WriterFlagRefused, vars
  <2> QED BY <1>2, <2>1, <2>2
<1> QED BY <1>3, <1>4, <1>5, <1>6

-----------------------------------------------------------------------------
(* What the two threads can count on.                                      *)

LEMMA NothingPending ==
    ASSUME queue' = <<>>, writer' = Resting
    PROVE  /\ QueueReady' /\ OneEach' /\ WriterReady'
           /\ ~Pending'
           /\ \A c \in Copy : ~InQueue(c)' /\ ~AtWriter(c)'
BY DEF QueueReady, OneEach, WriterReady, Pending, InQueue, AtWriter, Resting

LEMMA PlaceIs ==
    ASSUME NEW p
    PROVE  Place(p).at = p /\ Place(p).to = "main"
BY DEF Place

(* Steps of the module's thread that no message can be behind.              *)
LEMMA AloneReady ==
    ASSUME SumaInv, Sound, ~Pending,
           \/ WriteFlash \/ (\E u \in Unit : CopyUnit(u))
           \/ CH_CheckSecurityDataStatus \/ RestoreRead
    PROVE  Ready'
<1>1. queue' = <<>> /\ writer' = Resting
  BY DEF Pending, WriteFlash, CopyUnit, CH_CheckSecurityDataStatus, RestoreRead
<1>2. /\ QueueReady' /\ OneEach' /\ WriterReady' /\ ~Pending'
  BY <1>1, NothingPending
<1>3. TypeOK /\ Ready /\ ValidIsIntact
  BY DEF SumaInv
<1>4. CASE WriteFlash
  <2>1. module'.at = "copy" /\ module'.left = Unit
    BY <1>4 DEF WriteFlash
  <2> QED BY <1>2, <2>1 DEF Ready, ModuleReady
<1>5. CASE \E u \in Unit : CopyUnit(u)
  <2>1. PICK u \in Unit : CopyUnit(u)
    BY <1>5
  <2>2. CASE module.left = {u}
    <3>1. module'.at = "flag" /\ module'.to = "main"
      BY <2>1, <2>2, PlaceIs DEF CopyUnit
    <3> QED BY <1>2, <3>1 DEF Ready, ModuleReady
  <2>3. CASE module.left # {u}
    <3>1. module'.at = "copy" /\ module'.left = module.left \ {u}
      BY <1>3, <2>1, <2>3 DEF CopyUnit, TypeOK, ModulePlace
    <3>2. memory' = [memory EXCEPT ![u] = written] /\ written' = written
      BY <2>1 DEF CopyUnit, histories
    <3>3. \A v \in Unit : v \in module.left \/ memory[v] = written
      BY <1>3, <2>1 DEF Ready, ModuleReady, CopyUnit
    <3>4. \A v \in Unit : v \in module'.left \/ memory'[v] = written'
      BY <1>3, <3>1, <3>2, <3>3 DEF TypeOK, Image
    <3> QED BY <1>2, <3>1, <3>4 DEF Ready, ModuleReady
  <2> QED BY <2>2, <2>3
<1>6. CASE CH_CheckSecurityDataStatus
  <2>1. \/ module' = Place("recheck")
        \/ /\ module' = Place("restore")
           /\ status["main"] # "valid" /\ status["spare"] = "valid"
    BY <1>6 DEF CH_CheckSecurityDataStatus
  <2>2. status["main"] # "valid" => status["main"] = "invalid"
    BY <1>3 DEF TypeOK, Copy
  <2>3. status' = status
    BY <1>6 DEF CH_CheckSecurityDataStatus, disk
  <2>4. \/ module'.at = "recheck"
        \/ /\ module'.at = "restore"
           /\ status'["main"] = "invalid" /\ status'["spare"] = "valid"
    BY <2>1, <2>2, <2>3, PlaceIs
  <2> QED BY <1>2, <2>4 DEF Ready, ModuleReady
<1>7. CASE RestoreRead
  <2>1. status["main"] = "invalid" /\ Intact(flash["spare"]) /\ flash["spare"] \in Image
    BY <1>3, <1>7 DEF RestoreRead, Ready, ModuleReady, ValidIsIntact, Sound,
       Copy, TypeOK
  <2>2. \/ module'.at = "recheck"
        \/ module'.at = "resend" /\ temp' = flash["spare"]
    BY <1>7, PlaceIs DEF RestoreRead
  <2>3. status' = status
    BY <1>7 DEF RestoreRead, disk
  <2> QED BY <1>2, <2>1, <2>2, <2>3 DEF Ready, ModuleReady
<1> QED BY <1>4, <1>5, <1>6, <1>7

(* A message read outside the wait is from the memory.                     *)
LEMMA FromMemory ==
    ASSUME NEW m, Readable(m), module.at # "wait" PROVE Readable(m)'
BY DEF Readable, TempReady

(* Steps that leave the queue, the writer and the block contents alone and  *)
(* flag nothing valid.                                                     *)
LEMMA QuietReady ==
    ASSUME SumaInv, Sound, module.at # "wait",
           UNCHANGED <<queue, writer, flash>>,
           \A c \in Copy : status[c] = "invalid" => status'[c] = "invalid"
    PROVE  QueueReady' /\ OneEach' /\ WriterReady'
<1>1. TypeOK /\ QueueReady /\ OneEach /\ WriterReady
  BY DEF SumaInv, Ready
<1>2. \A i \in 1 .. Len(queue) : queue[i] \in Message /\ queue[i].to \in Copy
  BY <1>1, QueueTyped DEF TypeOK
<1>3. QueueReady'
  BY <1>1, <1>2, FromMemory DEF QueueReady
<1>4. OneEach'
  BY <1>1 DEF OneEach, AtWriter
<1>5. writer.at # "receive" => Target \in Copy
  BY <1>1, WriterCases DEF TypeOK, Target, Message
<1>6. WriterReady'
  BY <1>1, <1>5, FromMemory DEF WriterReady, Target
<1> QED BY <1>3, <1>4, <1>6

LEMMA FlagReady == SumaInv /\ Sound /\ Sound' /\ FlagInvalid => Ready'
<1> SUFFICES ASSUME SumaInv, Sound, Sound', FlagInvalid PROVE Ready'
  OBVIOUS
<1>1. TypeOK /\ Ready
  BY DEF SumaInv
<1>2. /\ UNCHANGED <<queue, writer, flash>>
      /\ module.at = "flag" /\ module.to \in Copy
      /\ module'.at = "send" /\ module'.to = module.to
  BY <1>1 DEF FlagInvalid, TypeOK, ModulePlace
<1>3. /\ status'[module.to] = "invalid"
      /\ \A c \in Copy : status[c] = "invalid" => status'[c] = "invalid"
  <2>1. \/ status' = [status EXCEPT ![module.to] = "invalid"]
        \/ status' = status /\ status[module.to] # "valid"
    BY DEF FlagInvalid, Unsound, Sound
  <2> QED BY <1>1, <1>2, <2>1 DEF TypeOK
<1>4. QueueReady' /\ OneEach' /\ WriterReady'
  BY <1>2, <1>3, QuietReady
<1>5. ModuleReady'
  BY <1>1, <1>2, <1>3 DEF Ready, ModuleReady, Pending, InQueue, AtWriter
<1> QED BY <1>4, <1>5 DEF Ready

(* A message for a copy that has none and is flagged invalid.               *)
LEMMA AppendReady ==
    ASSUME SumaInv, Sound, NEW m \in Message,
           queue' = Append(queue, m), UNCHANGED <<writer, flash, status>>,
           module.at # "wait", Readable(m)',
           status[m.to] = "invalid", ~InQueue(m.to), ~AtWriter(m.to)
    PROVE  QueueReady' /\ OneEach' /\ WriterReady'
<1>1. TypeOK /\ QueueReady /\ OneEach /\ WriterReady /\ queue \in Seq(Message)
  BY DEF SumaInv, Ready, TypeOK
<1>2. /\ Len(queue') = Len(queue) + 1 /\ Len(queue) \in Nat
      /\ queue'[Len(queue) + 1] = m
      /\ \A i \in 1 .. Len(queue) : queue'[i] = queue[i]
  BY <1>1, Appended
<1>3. \A i \in 1 .. Len(queue') : i \in 1 .. Len(queue) \/ i = Len(queue) + 1
  BY <1>2, SMT
<1>4. QueueReady'
  <2> SUFFICES ASSUME NEW i \in 1 .. Len(queue')
               PROVE  (status[queue[i].to] = "invalid" /\ Readable(queue[i]))'
    BY DEF QueueReady
  <2>1. CASE i \in 1 .. Len(queue)
    <3>1. PICK x : x = queue[i]
      OBVIOUS
    <3>2. status[x.to] = "invalid" /\ Readable(x)'
      BY <1>1, <2>1, <3>1, FromMemory DEF QueueReady
    <3>3. queue'[i] = x
      BY <1>2, <2>1, <3>1
    <3> QED BY <3>2, <3>3
  <2>2. CASE i = Len(queue) + 1
    BY <1>2, <2>2
  <2> QED BY <1>3, <2>1, <2>2
<1>5. OneEach'
  <2>1. \A i \in 1 .. Len(queue) : queue[i].to # m.to
    BY DEF InQueue
  <2>2. \A i, j \in 1 .. Len(queue') : i # j => queue'[i].to # queue'[j].to
    BY <1>1, <1>2, <1>3, <2>1 DEF OneEach
  <2>3. \A i \in 1 .. Len(queue') : ~AtWriter(queue'[i].to)
    BY <1>1, <1>2, <1>3 DEF OneEach
  <2>4. (\A i \in 1 .. Len(queue) : ~AtWriter(queue[i].to))'
    BY <2>3 DEF AtWriter
  <2> QED BY <2>2, <2>4 DEF OneEach
<1>6. WriterReady'
  BY <1>1, FromMemory DEF WriterReady, Target
<1> QED BY <1>4, <1>5, <1>6

LEMMA SendReady == SumaInv /\ Sound /\ SendBurn => Ready'
<1> SUFFICES ASSUME SumaInv, Sound, SendBurn PROVE Ready'
  OBVIOUS
<1>0. PICK m : m = [to |-> module.to, from |-> "memory"]
  OBVIOUS
<1>1. TypeOK /\ Ready /\ module.to \in Copy /\ module.at = "send"
  BY DEF SumaInv, SendBurn, TypeOK, ModulePlace
<1>2. UNCHANGED <<memory, temp, flash, status, writer>>
  BY DEF SendBurn, disk
<1>3. status[module.to] = "invalid" /\ ~InQueue(module.to) /\ ~AtWriter(module.to)
  <2>1. module.to = "main" => queue = <<>> /\ writer = Resting
    BY <1>1 DEF Ready, ModuleReady, Pending
  <2>2. module.to = "main" => ~InQueue("main") /\ ~AtWriter("main")
    BY <2>1 DEF InQueue, AtWriter
  <2> QED BY <1>1, <2>2 DEF Ready, ModuleReady, Copy
<1>4. \/ /\ module.to = "main" /\ module'.at = "flag" /\ module'.to = "spare"
      \/ /\ module.to = "spare" /\ module'.at = "idle"
  BY <1>1, PlaceIs DEF SendBurn, Copy
<1>5. CASE queue' = Append(queue, m)
  <2>1. m \in Message /\ m.to = module.to /\ m.from = "memory"
    BY <1>0, <1>1 DEF Message
  <2>2. Readable(m)'
    BY <2>1 DEF Readable
  <2>3. QueueReady' /\ OneEach' /\ WriterReady'
    BY <1>1, <1>2, <1>3, <1>5, <2>1, <2>2, AppendReady
  <2>4. module.to = "main" => ~InQueue("spare")' /\ ~AtWriter("spare")'
    <3> SUFFICES ASSUME module.to = "main" PROVE ~InQueue("spare")' /\ ~AtWriter("spare")'
      OBVIOUS
    <3>1. queue = <<>> /\ writer = Resting
      BY <1>1 DEF Ready, ModuleReady, Pending
    <3>2. queue' = <<m>>
      BY <1>5, <3>1, SMT
    <3>3. Len(queue') = 1 /\ queue'[1] = m
      BY <3>2, SMT
    <3>4. \A i \in 1 .. Len(queue') : queue'[i] = m
      BY <3>3, SMT
    <3>5. ~InQueue("spare")'
      BY <2>1, <3>4 DEF InQueue
    <3> QED BY <1>2, <3>1, <3>5 DEF AtWriter
  <2>5. ModuleReady'
    BY <1>4, <2>4 DEF ModuleReady
  <2> QED BY <2>3, <2>5 DEF Ready
<1>6. CASE queue' = queue
  <2>1. QueueReady' /\ OneEach' /\ WriterReady'
    BY <1>1, <1>2, <1>6, QuietReady
  <2>2. module.to = "main" => ~InQueue("spare")' /\ ~AtWriter("spare")'
    BY <1>1, <1>2, <1>6 DEF Ready, ModuleReady, Pending, InQueue, AtWriter
  <2>3. ModuleReady'
    BY <1>4, <2>2 DEF ModuleReady
  <2> QED BY <2>1, <2>3 DEF Ready
<1> QED BY <1>0, <1>5, <1>6 DEF SendBurn, Burn, Address

LEMMA ResendReady == SumaInv /\ Sound /\ RestoreSend => Ready'
<1> SUFFICES ASSUME SumaInv, Sound, RestoreSend PROVE Ready'
  OBVIOUS
<1>0. PICK m : m = [to |-> "main", from |-> "temp"]
  OBVIOUS
<1>1. TypeOK /\ Ready
  BY DEF SumaInv
<1>2. UNCHANGED <<memory, temp, flash, status, writer>> /\ module.at = "resend"
  BY DEF RestoreSend, disk
<1>3. /\ status["main"] = "invalid" /\ temp \in Image /\ Intact(temp)
      /\ queue = <<>> /\ writer = Resting
  BY <1>1, <1>2 DEF Ready, ModuleReady, Pending
<1>4. module'.at = "wait"
  BY PlaceIs DEF RestoreSend
<1>5. ModuleReady'
  BY <1>4 DEF ModuleReady
<1>6. CASE queue' = Append(queue, m)
  <2>1. m \in Message /\ m.to = "main"
    BY <1>0 DEF Message, Copy
  <2>2. Readable(m)'
    BY <1>2, <1>3, <1>4, <2>1 DEF Readable, TempReady, Intact
  <2>3. ~InQueue(m.to) /\ ~AtWriter(m.to)
    BY <1>3 DEF InQueue, AtWriter
  <2>4. QueueReady' /\ OneEach' /\ WriterReady'
    BY <1>2, <1>3, <1>6, <2>1, <2>2, <2>3, AppendReady
  <2> QED BY <1>5, <2>4 DEF Ready
<1>7. CASE queue' = queue
  BY <1>2, <1>3, <1>5, <1>7, NothingPending DEF Ready
<1> QED BY <1>0, <1>6, <1>7 DEF RestoreSend, Burn

(* The buffer is freed only when nothing points to it any more, unless      *)
(* soundness is lost.                                                      *)
LEMMA RestoreEndsReady == SumaInv /\ Sound /\ RestoreEnds /\ Sound' => Ready'
<1> SUFFICES ASSUME SumaInv, Sound, RestoreEnds, Sound' PROVE Ready'
  OBVIOUS
<1>1. TypeOK /\ Ready
  BY DEF SumaInv
<1>2. UNCHANGED <<queue, writer, flash, status, memory>> /\ module'.at = "recheck"
  BY PlaceIs DEF RestoreEnds, disk
<1>3. status["main"] = "valid" \/ (queue = <<>> /\ writer.at # "compare")
  BY DEF RestoreEnds, Unsound, Sound
<1>4. \A i \in 1 .. Len(queue) : queue[i].from # "temp"
  BY <1>1, <1>3 DEF Ready, QueueReady, Readable
<1>5. writer.at = "compare" => writer.msg.from # "temp"
  BY <1>1, <1>3 DEF Ready, WriterReady, Readable, Target
<1>6. QueueReady'
  BY <1>1, <1>2, <1>4 DEF Ready, QueueReady, Readable
<1>7. WriterReady'
  BY <1>1, <1>2, <1>5 DEF Ready, WriterReady, Readable, Target
<1>8. OneEach'
  BY <1>1, <1>2 DEF Ready, OneEach, AtWriter
<1>9. ModuleReady'
  BY <1>2 DEF ModuleReady
<1> QED BY <1>6, <1>7, <1>8, <1>9 DEF Ready

LEMMA LoadReady == SumaInv /\ Sound /\ (Recheck \/ LoadMain) => Ready'
<1> SUFFICES ASSUME SumaInv, Sound, Recheck \/ LoadMain PROVE Ready'
  OBVIOUS
<1>1. UNCHANGED <<queue, writer, flash, status>> /\ module.at # "wait"
  BY DEF Recheck, LoadMain, disk
<1>2. QueueReady' /\ OneEach' /\ WriterReady'
  BY <1>1, QuietReady
<1>3. \/ module'.at = "idle"
      \/ module'.at = "load" /\ status["main"] = "valid"
  BY PlaceIs DEF Recheck, LoadMain, MainIsValid
<1>4. ModuleReady'
  BY <1>1, <1>3 DEF ModuleReady
<1> QED BY <1>2, <1>4 DEF Ready

(* The first message becomes the writer's.                                 *)
LEMMA ReceiveReady == SumaInv /\ Sound /\ WriterReceive => Ready'
<1> SUFFICES ASSUME SumaInv, Sound, WriterReceive PROVE Ready'
  OBVIOUS
<1>1. TypeOK /\ Ready /\ queue \in Seq(Message) /\ queue # <<>>
  BY DEF SumaInv, TypeOK, WriterReceive
<1>2. PICK m : m = queue[1]
  OBVIOUS
<1>3. UNCHANGED <<module, temp, memory, flash, status, written>>
  BY DEF WriterReceive, disk, histories
<1>4. /\ Len(queue) \in Nat /\ Len(queue) >= 1 /\ Len(queue') = Len(queue) - 1
      /\ \A i \in 1 .. Len(queue) - 1 : queue'[i] = queue[i + 1]
      /\ m \in Message /\ writer' = [at |-> "compare", msg |-> m]
  BY <1>1, <1>2, Received DEF WriterReceive
<1>5. writer' # Resting /\ writer'.at = "compare" /\ writer'.msg = m
  BY <1>4 DEF Resting
<1>6. 1 \in 1 .. Len(queue)
  BY <1>4, SMT
<1>7. \A i \in 1 .. Len(queue') :
          i + 1 \in 1 .. Len(queue) /\ queue'[i] = queue[i + 1] /\ i + 1 # 1
  BY <1>4, SMT
<1>8. \A n : Readable(n) => Readable(n)'
  BY <1>3 DEF Readable, TempReady, Intact
<1>9. QueueReady'
  <2> SUFFICES ASSUME NEW i \in 1 .. Len(queue')
               PROVE  (status[queue[i].to] = "invalid" /\ Readable(queue[i]))'
    BY DEF QueueReady
  <2>1. PICK x : x = queue[i + 1]
    OBVIOUS
  <2>2. status[x.to] = "invalid" /\ Readable(x)'
    BY <1>1, <1>7, <1>8, <2>1 DEF Ready, QueueReady
  <2> QED BY <1>3, <1>7, <2>1, <2>2
<1>10. \A i \in 1 .. Len(queue') : queue'[i].to # m.to
  BY <1>1, <1>2, <1>6, <1>7 DEF Ready, OneEach
<1>11. \A i, j \in 1 .. Len(queue') : i # j => queue'[i].to # queue'[j].to
  <2> TAKE i, j \in 1 .. Len(queue')
  <2>1. i # j => i + 1 # j + 1
    BY SMT
  <2> QED BY <1>1, <1>7, <2>1 DEF Ready, OneEach
<1>12. OneEach'
  <2>1. (\A i \in 1 .. Len(queue) : ~AtWriter(queue[i].to))'
    BY <1>5, <1>10 DEF AtWriter
  <2> QED BY <1>11, <2>1 DEF OneEach
<1>13. WriterReady'
  <2>1. status[m.to] = "invalid" /\ Readable(m)
    BY <1>1, <1>2, <1>6 DEF Ready, QueueReady
  <2>2. Readable(m)'
    BY <1>8, <2>1
  <2> QED BY <1>3, <1>5, <2>1, <2>2 DEF WriterReady, Target
<1>14. ModuleReady'
  <2>1. Pending
    BY <1>1 DEF Pending
  <2>2. ~InQueue("spare") => ~InQueue("spare")' /\ ~AtWriter("spare")'
    BY <1>2, <1>5, <1>6, <1>7 DEF InQueue, AtWriter
  <2> QED BY <1>1, <1>3, <2>1, <2>2 DEF Ready, ModuleReady
<1> QED BY <1>9, <1>12, <1>13, <1>14 DEF Ready

(* The writer works on one message: the others and the module's thread see  *)
(* at most the status of its copy become valid.                            *)
LEMMA OthersReady ==
    ASSUME SumaInv, Sound, writer # Resting,
           UNCHANGED <<queue, module, temp, memory, written>>,
           writer' = Resting \/ (writer' # Resting /\ writer'.msg = writer.msg),
           status'[Target] \in {status[Target], "valid"},
           \A c \in Copy : c # Target => status'[c] = status[c]
    PROVE  QueueReady' /\ OneEach' /\ ModuleReady'
<1>1. TypeOK /\ Ready /\ Pending /\ writer.msg = writer.msg
  BY DEF SumaInv, Pending
<1>2. \A c : AtWriter(c)' => AtWriter(c)
  BY DEF AtWriter
<1>3. \A i \in 1 .. Len(queue) : queue[i].to \in Copy /\ queue[i].to # Target
  BY <1>1, QueueTyped DEF TypeOK, Ready, OneEach, AtWriter, Target
<1>4. QueueReady'
  <2> SUFFICES ASSUME NEW i \in 1 .. Len(queue)
               PROVE  (status[queue[i].to] = "invalid" /\ Readable(queue[i]))'
    BY DEF QueueReady
  <2>1. PICK x : x = queue[i]
    OBVIOUS
  <2>2. status[x.to] = "invalid" /\ Readable(x) /\ status'[x.to] = status[x.to]
    BY <1>1, <1>3, <2>1 DEF Ready, QueueReady
  <2>3. Readable(x)'
    BY <2>2 DEF Readable, TempReady, Intact
  <2> QED BY <2>1, <2>2, <2>3
<1>5. OneEach'
  <2>1. \A i \in 1 .. Len(queue) : ~AtWriter(queue[i].to)
    BY <1>1 DEF Ready, OneEach
  <2>2. (\A i \in 1 .. Len(queue) : ~AtWriter(queue[i].to))'
    BY <2>1 DEF AtWriter
  <2> QED BY <1>1, <2>2 DEF Ready, OneEach
<1>6. ModuleReady'
  <2>1. module.at \notin {"start", "restore", "resend", "copy"}
    BY <1>1 DEF Ready, ModuleReady
  <2>2. module.at \in {"flag", "send"} =>
            /\ module.to = "spare" /\ Target # "spare"
            /\ ~InQueue("spare")' /\ ~AtWriter("spare")'
    <3> SUFFICES ASSUME module.at \in {"flag", "send"}
                 PROVE  /\ module.to = "spare" /\ Target # "spare"
                        /\ ~InQueue("spare")' /\ ~AtWriter("spare")'
      OBVIOUS
    <3>1. module.to = "spare" /\ ~InQueue("spare") /\ ~AtWriter("spare")
      BY <1>1 DEF Ready, ModuleReady, TypeOK, ModulePlace, Copy
    <3> QED BY <1>2, <3>1 DEF InQueue, AtWriter, Target
  <2>3. module.at = "send" => status'[module.to] = "invalid"
    BY <1>1, <2>2 DEF Ready, ModuleReady, Copy
  <2>4. module.at = "load" => status'["main"] = "valid"
    BY <1>1 DEF Ready, ModuleReady, Copy
  <2> QED BY <2>1, <2>2, <2>3, <2>4 DEF ModuleReady
<1> QED BY <1>4, <1>5, <1>6

LEMMA SourceIntact ==
    ASSUME SumaInv, Sound, writer.at = "compare" PROVE Intact(Source)
<1>1. TypeOK /\ Ready /\ writer # Resting
  BY DEF SumaInv, Resting
<1>2. module.at # "copy"
  BY <1>1 DEF Ready, ModuleReady, Pending
<1>3. CASE writer.msg.from = "memory"
  BY <1>2, <1>3 DEF SumaInv, MemoryIntact, Sound, Source
<1>4. CASE writer.msg.from = "temp"
  <2>1. temp \in Image /\ Intact(temp)
    BY <1>1, <1>4 DEF Ready, WriterReady, Readable, TempReady
  <2> QED BY <1>4, <2>1, NotFreed DEF Source
<1>5. writer.msg.from \in {"memory", "temp"}
  BY <1>1, WriterCases DEF TypeOK, Message
<1> QED BY <1>3, <1>4, <1>5

LEMMA WorkReady ==
    SumaInv /\ Sound /\ Sound' /\ (WriterPassOver \/ WriterErase \/ WriterProgram)
        => Ready'
<1> SUFFICES ASSUME SumaInv, Sound, Sound', WriterPassOver \/ WriterErase \/ WriterProgram
             PROVE  Ready'
  OBVIOUS
<1>1. /\ TypeOK /\ Ready /\ writer # Resting
      /\ writer.msg \in Message /\ Target \in Copy
  BY WriterCases DEF SumaInv, TypeOK, WriterPassOver, WriterErase, WriterProgram,
     Resting, Message, Target
<1>2. UNCHANGED <<queue, module, temp, memory, written, status>>
  BY DEF WriterPassOver, WriterErase, WriterProgram, disk, histories
<1>3. writer' # Resting /\ writer'.msg = writer.msg
  BY DEF WriterPassOver, WriterErase, WriterProgram, Flagging, Resting
<1>4. QueueReady' /\ OneEach' /\ ModuleReady'
  BY <1>1, <1>2, <1>3, OthersReady
<1>5. CASE WriterPassOver
  <2>1. Intact(flash[Target])
    BY <1>5, SourceIntact DEF WriterPassOver, Sound, Unsound
  <2>2. writer'.at = "flag" /\ flash' = flash
    BY <1>5 DEF WriterPassOver, Flagging, disk
  <2>3. WriterReady'
    BY <1>3, <2>1, <2>2 DEF WriterReady, Target
  <2> QED BY <1>4, <2>3 DEF Ready
<1>6. CASE WriterErase
  <2>1. Intact(Source) /\ status[Target] = "invalid"
    BY <1>1, <1>6, SourceIntact DEF WriterErase, Ready, WriterReady
  <2>2. PICK i : i = Source
    OBVIOUS
  <2>3. writer'.at = "program" /\ writer'.image = i
    BY <1>6, <2>2 DEF WriterErase
  <2>4. WriterReady'
    BY <1>2, <1>3, <2>1, <2>2, <2>3 DEF WriterReady, Target
  <2> QED BY <1>4, <2>4 DEF Ready
<1>7. CASE WriterProgram
  <2>1. flash' = [flash EXCEPT ![Target] = writer.image] /\ writer'.at = "flag"
    BY <1>7 DEF WriterProgram, Flagging, Sound, Unsound
  <2>2. flash'[Target] = writer.image /\ Intact(writer.image)
    BY <1>1, <1>7, <2>1 DEF WriterProgram, TypeOK, Ready, WriterReady
  <2>3. WriterReady'
    BY <1>3, <2>1, <2>2 DEF WriterReady, Target, Intact
  <2> QED BY <1>4, <2>3 DEF Ready
<1> QED BY <1>5, <1>6, <1>7

LEMMA DoneReady ==
    SumaInv /\ Sound /\ (WriterFails \/ WriterFlag \/ WriterFlagRefused)
        => Ready'
<1> SUFFICES ASSUME SumaInv, Sound, WriterFails \/ WriterFlag \/ WriterFlagRefused
             PROVE  Ready'
  OBVIOUS
<1>1. TypeOK /\ writer # Resting /\ writer' = Resting
  BY DEF SumaInv, WriterFails, WriterFlag, WriterFlagRefused, Resting
<1>2. UNCHANGED <<queue, module, temp, memory, written>>
  BY DEF WriterFails, WriterFlag, WriterFlagRefused
<1>3. Target \in Copy
  BY <1>1, WriterCases DEF TypeOK, Message, Target
<1>4. /\ status'[Target] \in {status[Target], "valid"}
      /\ \A c \in Copy : c # Target => status'[c] = status[c]
  BY <1>1, <1>3 DEF WriterFails, WriterFlag, WriterFlagRefused, TypeOK, disk
<1>5. QueueReady' /\ OneEach' /\ ModuleReady'
  BY <1>1, <1>2, <1>4, OthersReady
<1>6. WriterReady'
  BY <1>1 DEF WriterReady, Resting
<1> QED BY <1>5, <1>6 DEF Ready

LEMMA ReadyStep == SumaInv /\ [Next]_vars /\ Sound' => Ready'
<1> SUFFICES ASSUME SumaInv, [Next]_vars, Sound' PROVE Ready'
  OBVIOUS
<1>1. TypeOK /\ Sound /\ Ready
  BY TroubleLasts DEF SumaInv
<1>2. CASE WriteFlash \/ (\E u \in Unit : CopyUnit(u)) \/ CH_CheckSecurityDataStatus
           \/ RestoreRead
  <2>1. ~Pending
    BY <1>1, <1>2 DEF WriteFlash, CopyUnit, CH_CheckSecurityDataStatus, RestoreRead,
       Ready, ModuleReady, Sound, Unsound
  <2> QED BY <1>1, <1>2, <2>1, AloneReady
<1>3. CASE PowerLoss
  <2>1. queue' = <<>> /\ writer' = Resting /\ module'.at = "start"
    BY <1>3, PlaceIs DEF PowerLoss
  <2> QED BY <2>1, NothingPending DEF Ready, ModuleReady
<1>4. CASE UNCHANGED vars
  BY <1>1, <1>4 DEF vars, disk, histories, Ready, QueueReady, OneEach, WriterReady,
     ModuleReady, Pending, InQueue, AtWriter, Readable, TempReady, Target
<1> QED BY <1>1, <1>2, <1>3, <1>4, FlagReady, SendReady, ResendReady,
           RestoreEndsReady, LoadReady, ReceiveReady, WorkReady, DoneReady
        DEF Next, ModuleRuns, WriterRuns

-----------------------------------------------------------------------------
(* The main copy comes first, while nothing is given up.                   *)

(* What the writer does with the main copy ends in a whole one.             *)
LEMMA MainKept ==
    ASSUME SumaInv, Sound, trouble' = "none", [Next]_vars, ~PowerLoss,
           MainIntact \/ AtWriter("main")
    PROVE  MainIntact' \/ AtWriter("main")'
<1>1. TypeOK /\ Ready
  BY DEF SumaInv
<1>2. CASE flash' = flash /\ (writer' = writer \/ writer = Resting)
  BY <1>2 DEF MainIntact, AtWriter
<1>3. CASE WriterPassOver \/ WriterErase
  <2>1. writer # Resting /\ writer' # Resting /\ writer'.msg = writer.msg
    BY <1>3 DEF WriterPassOver, WriterErase, Flagging, Resting
  <2>2. CASE AtWriter("main")
    BY <2>1, <2>2 DEF AtWriter
  <2>3. CASE ~AtWriter("main")
    <3>1. Target # "main"
      BY <2>1, <2>3 DEF AtWriter, Target
    <3>2. flash'["main"] = flash["main"]
      BY <1>1, <1>3, <3>1, WriterTouches DEF WriterRuns, Copy
    <3> QED BY <2>3, <3>2 DEF MainIntact
  <2> QED BY <2>2, <2>3
<1>4. CASE WriterProgram
  <2>1. flash' = [flash EXCEPT ![Target] = writer.image]
    BY <1>4 DEF WriterProgram, Unsound
  <2>2. Intact(writer.image) /\ writer # Resting
    BY <1>1, <1>4 DEF WriterProgram, Ready, WriterReady, Resting
  <2>3. MainIntact'
    BY <1>1, <2>1, <2>2 DEF TypeOK, Copy, MainIntact, AtWriter, Target
  <2> QED BY <2>3
<1>5. CASE WriterFlag
  BY <1>1, <1>5 DEF WriterFlag, Ready, WriterReady, MainIntact, AtWriter, Target
<1>6. ~WriterFails /\ ~WriterFlagRefused
  BY <1>1 DEF WriterFails, WriterFlagRefused, GiveUp, TypeOK
<1>7. WriterReceive \/ ~WriterRuns => flash' = flash /\ (writer' = writer \/ writer = Resting)
  BY DEF Next, ModuleRuns, WriteFlash, CopyUnit, FlagInvalid, SendBurn,
         CH_CheckSecurityDataStatus, RestoreRead, RestoreSend, RestoreEnds,
         Recheck, LoadMain, WriterReceive, disk, vars
<1> QED BY <1>2, <1>3, <1>4, <1>5, <1>6, <1>7 DEF WriterRuns

(* Steps of the module's thread that send nothing.                         *)
LEMMA QuietFirst ==
    ASSUME MainFirst, UNCHANGED <<queue, writer, flash>>,
           module'.at \in {"flag", "send"} /\ module'.to = "spare" =>
               module.at \in {"flag", "send"} /\ module.to = "spare"
    PROVE  MainFirst'
BY DEF MainFirst, MainIntact, AtWriter, InQueue

LEMMA AppendFirst ==
    ASSUME MainFirst, queue \in Seq(Message), UNCHANGED <<writer, flash>>,
           NEW m \in Message, queue' = Append(queue, m),
           m.to = "spare" => MainIntact \/ AtWriter("main") \/ InQueue("main"),
           module'.at \in {"flag", "send"} /\ module'.to = "spare" => m.to = "main"
    PROVE  MainFirst'
<1>1. /\ Len(queue') = Len(queue) + 1 /\ Len(queue) \in Nat
      /\ queue'[Len(queue) + 1] = m
      /\ \A i \in 1 .. Len(queue) : queue'[i] = queue[i]
  BY Appended
<1>2. \A i \in 1 .. Len(queue') :
        /\ i \in 1 .. Len(queue) \/ i = Len(queue) + 1
        /\ \A j \in 1 .. i - 1 : j \in 1 .. Len(queue)
  BY <1>1, SMT
<1>3. /\ MainIntact' <=> MainIntact
      /\ \A c : AtWriter(c)' <=> AtWriter(c)
  BY DEF MainIntact, AtWriter
<1>4. InQueue("main")' \/ m.to # "main"
  <2>1. Len(queue) + 1 \in 1 .. Len(queue')
    BY <1>1, SMT
  <2> QED BY <1>1, <2>1 DEF InQueue
<1>5. ASSUME NEW i \in 1 .. Len(queue'), queue'[i].to = "spare"
      PROVE  \/ MainIntact' \/ AtWriter("main")'
             \/ \E j \in 1 .. i - 1 : queue'[j].to = "main"
  <2>1. CASE i \in 1 .. Len(queue)
    <3>1. \/ MainIntact \/ AtWriter("main")
          \/ \E j \in 1 .. i - 1 : queue[j].to = "main"
      BY <1>1, <1>5, <2>1 DEF MainFirst
    <3> QED BY <1>1, <1>2, <1>3, <3>1
  <2>2. CASE i = Len(queue) + 1
    <3>1. MainIntact \/ AtWriter("main") \/ InQueue("main")
      BY <1>1, <1>5, <2>2
    <3>2. 1 .. i - 1 = 1 .. Len(queue)
      BY <1>1, <2>2, SMT
    <3> QED BY <1>1, <1>3, <3>1, <3>2 DEF InQueue
  <2> QED BY <1>2, <2>1, <2>2
<1>6. (\A i \in 1 .. Len(queue) : queue[i].to = "spare" =>
            \/ MainIntact \/ AtWriter("main")
            \/ \E j \in 1 .. i - 1 : queue[j].to = "main")'
  BY <1>5
<1> QED BY <1>3, <1>4, <1>6 DEF MainFirst

LEMMA ReceiveFirst == SumaInv /\ MainFirst /\ WriterReceive => MainFirst'
<1> SUFFICES ASSUME SumaInv, MainFirst, WriterReceive PROVE MainFirst'
  OBVIOUS
<1>1. TypeOK /\ queue \in Seq(Message) /\ queue # <<>> /\ writer = Resting
  BY DEF SumaInv, TypeOK, WriterReceive
<1>2. PICK m : m = queue[1]
  OBVIOUS
<1>3. /\ Len(queue) \in Nat /\ Len(queue) >= 1 /\ Len(queue') = Len(queue) - 1
      /\ \A i \in 1 .. Len(queue) - 1 : queue'[i] = queue[i + 1]
      /\ m \in Message /\ writer' = [at |-> "compare", msg |-> m]
  BY <1>1, <1>2, Received DEF WriterReceive
<1>4. \A c : AtWriter(c)' <=> m.to = c
  BY <1>3 DEF AtWriter, Resting
<1>5. (MainIntact' <=> MainIntact) /\ module' = module
  BY DEF WriterReceive, disk, MainIntact
<1>6. \A i \in 1 .. Len(queue') :
        /\ i + 1 \in 1 .. Len(queue) /\ queue'[i] = queue[i + 1]
        /\ \A j \in 1 .. (i + 1) - 1 :
             j = 1 \/ (j - 1 \in 1 .. i - 1 /\ queue'[j - 1] = queue[j])
  BY <1>3, SMT
<1>7. \A j \in 1 .. Len(queue) :
        j = 1 \/ (j - 1 \in 1 .. Len(queue') /\ queue'[j - 1] = queue[j])
  BY <1>3, SMT
<1>8. InQueue("main") => AtWriter("main")' \/ InQueue("main")'
  BY <1>2, <1>4, <1>7 DEF InQueue
<1>9. ~AtWriter("main")
  BY <1>1 DEF AtWriter
<1>10. ASSUME NEW i \in 1 .. Len(queue'), queue'[i].to = "spare"
       PROVE  \/ MainIntact' \/ AtWriter("main")'
              \/ \E j \in 1 .. i - 1 : queue'[j].to = "main"
  <2>1. MainIntact \/ \E j \in 1 .. (i + 1) - 1 : queue[j].to = "main"
    BY <1>6, <1>9, <1>10 DEF MainFirst
  <2> QED BY <1>2, <1>4, <1>5, <1>6, <2>1
<1>11. (\A i \in 1 .. Len(queue) : queue[i].to = "spare" =>
            \/ MainIntact \/ AtWriter("main")
            \/ \E j \in 1 .. i - 1 : queue[j].to = "main")'
  BY <1>10
<1>12. m.to = "spare" => MainIntact
  <2>1. 1 \in 1 .. Len(queue) /\ 1 .. 1 - 1 = {}
    BY <1>3, SMT
  <2> QED BY <1>2, <1>9, <2>1 DEF MainFirst
<1> QED BY <1>4, <1>5, <1>8, <1>9, <1>11, <1>12 DEF MainFirst

LEMMA FirstStep == SumaInv /\ [Next]_vars /\ trouble' = "none" => MainFirst'
<1> SUFFICES ASSUME SumaInv, [Next]_vars, trouble' = "none" PROVE MainFirst'
  OBVIOUS
<1>1. TypeOK /\ Sound /\ trouble = "none" /\ MainFirst /\ queue \in Seq(Message)
  BY TroubleLasts DEF SumaInv, Sound, TypeOK
<1>2. CASE \/ WriteFlash \/ (\E u \in Unit : CopyUnit(u)) \/ FlagInvalid
           \/ CH_CheckSecurityDataStatus \/ RestoreRead \/ RestoreEnds
           \/ Recheck \/ LoadMain \/ UNCHANGED vars
  <2>1. UNCHANGED <<queue, writer, flash>>
    BY <1>2 DEF WriteFlash, CopyUnit, FlagInvalid, CH_CheckSecurityDataStatus,
       RestoreRead, RestoreEnds, Recheck, LoadMain, disk, vars
  <2>2. \/ FlagInvalid \/ UNCHANGED vars
        \/ module'.at \notin {"flag", "send"} \/ module'.to = "main"
    BY <1>1, <1>2, PlaceIs DEF WriteFlash, CopyUnit, CH_CheckSecurityDataStatus,
       RestoreRead, RestoreEnds, Recheck, LoadMain, TypeOK, ModulePlace
  <2>3. FlagInvalid => module.at = "flag" /\ module'.to = module.to
    BY <1>1 DEF FlagInvalid, TypeOK, ModulePlace
  <2>4. module'.at \in {"flag", "send"} /\ module'.to = "spare" =>
            module.at \in {"flag", "send"} /\ module.to = "spare"
    BY <2>2, <2>3 DEF vars
  <2> QED BY <1>1, <2>1, <2>4, QuietFirst
<1>3. CASE SendBurn
  <2>1. PICK m : m = [to |-> module.to, from |-> "memory"]
    OBVIOUS
  <2>2. m \in Message /\ m.to = module.to /\ module.to \in Copy /\ module.at = "send"
    BY <1>1, <1>3, <2>1 DEF Message, TypeOK, ModulePlace, SendBurn
  <2>3. queue' = Append(queue, m) /\ UNCHANGED <<writer, flash>>
    BY <1>1, <1>3, <2>1 DEF SendBurn, Burn, Address, GiveUp, disk
  <2>4. m.to = "spare" => MainIntact \/ AtWriter("main") \/ InQueue("main")
    BY <1>1, <2>2 DEF MainFirst
  <2>5. module'.at \in {"flag", "send"} => m.to = "main"
    BY <1>3, <2>2, PlaceIs DEF SendBurn
  <2> QED BY <1>1, <2>2, <2>3, <2>4, <2>5, AppendFirst
<1>4. CASE RestoreSend
  <2>1. PICK m : m = [to |-> "main", from |-> "temp"]
    OBVIOUS
  <2>2. m \in Message /\ m.to = "main"
    BY <2>1 DEF Message, Copy
  <2>3. queue' = Append(queue, m) /\ UNCHANGED <<writer, flash>>
    BY <1>1, <1>4, <2>1 DEF RestoreSend, Burn, GiveUp, disk
  <2>4. module'.at = "wait"
    BY <1>4, PlaceIs DEF RestoreSend
  <2> QED BY <1>1, <2>2, <2>3, <2>4, AppendFirst
<1>5. CASE WriterReceive
  BY <1>1, <1>5, ReceiveFirst
<1>6. CASE WriterPassOver \/ WriterErase \/ WriterProgram \/ WriterFails
           \/ WriterFlag \/ WriterFlagRefused
  <2>1. UNCHANGED <<queue, module>> /\ ~PowerLoss
    <3>1. UNCHANGED <<queue, module>> /\ Pending
      BY <1>6 DEF WriterPassOver, WriterErase, WriterProgram, WriterFails,
         WriterFlag, WriterFlagRefused, Pending, Resting
    <3>2. module.at # "start"
      BY <1>1, <3>1 DEF SumaInv, Ready, ModuleReady
    <3> QED BY <3>1, <3>2, PlaceIs DEF PowerLoss
  <2>2. MainIntact \/ AtWriter("main") => MainIntact' \/ AtWriter("main")'
    BY <1>1, <2>1, MainKept
  <2>3. AtWriter("spare")' => AtWriter("spare")
    BY <1>6 DEF WriterPassOver, WriterErase, WriterProgram, WriterFails,
       WriterFlag, WriterFlagRefused, AtWriter, Flagging, Resting
  <2>4. AtWriter("spare")' => flash'["main"] = flash["main"]
    <3> SUFFICES ASSUME AtWriter("spare")' PROVE flash'["main"] = flash["main"]
      OBVIOUS
    <3>1. Target # "main"
      BY <2>3 DEF AtWriter, Target
    <3> QED BY <1>1, <1>6, <3>1, WriterTouches DEF WriterRuns, Copy
  <2>5. (\A i \in 1 .. Len(queue) : queue[i].to = "spare" =>
            \/ MainIntact \/ AtWriter("main")
            \/ \E j \in 1 .. i - 1 : queue[j].to = "main")'
    BY <1>1, <2>1, <2>2 DEF MainFirst
  <2>6. InQueue("main") => InQueue("main")'
    BY <2>1 DEF InQueue
  <2> QED BY <1>1, <2>1, <2>2, <2>3, <2>4, <2>5, <2>6 DEF MainFirst, MainIntact
<1>7. CASE PowerLoss
  <2>1. queue' = <<>> /\ writer' = Resting /\ module'.at = "start"
    BY <1>7, PlaceIs DEF PowerLoss
  <2> QED BY <2>1 DEF MainFirst, AtWriter
<1> QED BY <1>2, <1>3, <1>4, <1>5, <1>6, <1>7 DEF Next, ModuleRuns, WriterRuns

-----------------------------------------------------------------------------
LEMMA InitTyped == Init => TypeOK
<1> SUFFICES ASSUME Init PROVE TypeOK
  OBVIOUS
<1>1. All(0) \in Image /\ All(Torn) \in Image
  BY AllIsImage DEF Data
<1>2. flash \in [Copy -> Image] /\ status \in [Copy -> {"valid", "invalid"}]
  BY <1>1 DEF Init
<1>3. queue \in Seq(Message) /\ writer \in WriterPlace
  BY DEF Init, WriterPlace
<1>4. memory \in Image /\ temp = Freed /\ written \in Nat /\ backedUp \in BOOLEAN
  BY <1>1 DEF Init
<1>5. module \in ModulePlace /\ module.at # "copy" /\ trouble = "none"
  BY PlaceTyped DEF Init, Starting
<1> QED BY <1>2, <1>3, <1>4, <1>5 DEF TypeOK

LEMMA Initial == Init => SumaInv
<1> SUFFICES ASSUME Init PROVE SumaInv
  OBVIOUS
<1>1. /\ queue = <<>> /\ writer = Resting
      /\ module.at = "start" /\ module \in ModulePlace
      /\ \A c \in Copy : status[c] = "invalid"
  <2>1. \A c \in Copy : [d \in Copy |-> "invalid"][c] = "invalid"
    OBVIOUS
  <2>2. Place("start") \in ModulePlace /\ Place("start").at = "start"
    BY PlaceTyped DEF Starting
  <2> QED BY <2>1, <2>2 DEF Init
<1>2. All(0) \in Image /\ All(Torn) \in Image /\ Intact(All(0))
  BY AllIsImage, NumberIsIntact DEF Data
<1>3. TypeOK
  BY InitTyped
<1>4. ValidIsIntact /\ MemoryIntact
  BY <1>1, <1>2 DEF Init, ValidIsIntact, MemoryIntact
<1>5. Ready
  BY <1>1 DEF Ready, QueueReady, OneEach, WriterReady, ModuleReady, Pending,
     AtWriter, Resting
<1>6. MainFirst
  BY <1>1 DEF MainFirst, AtWriter
<1> QED BY <1>3, <1>4, <1>5, <1>6 DEF SumaInv

LEMMA InvStep == SumaInv /\ [Next]_vars => SumaInv'
<1> SUFFICES ASSUME SumaInv, [Next]_vars PROVE SumaInv'
  OBVIOUS
<1>1. TypeOK' /\ ValidIsIntact' /\ MemoryIntact'
  BY TypeStep, ValidStep, MemoryStep DEF SumaInv
<1> QED BY <1>1, ReadyStep, FirstStep DEF SumaInv

(* What the two threads can count on holds throughout, whatever the order   *)
(* of their steps and whenever the power goes.                             *)
THEOREM SumaInvariant == Safety => []SumaInv
<1> QED BY Initial, InvStep, PTL DEF Safety

(* The storage is well typed.                                              *)
THEOREM SumaTypeCorrect == Safety => []TypeOK
<1> QED BY InitTyped, TypeStep, PTL DEF Safety

(* A copy flagged valid holds one write, whole.                            *)
THEOREM ValidCopiesIntact == Safety => []ValidIsIntact
<1>1. SumaInv => ValidIsIntact
  BY DEF SumaInv
<1> QED BY <1>1, SumaInvariant, PTL

(* The security module never reads a mixture of two writes.                *)
THEOREM MemoryStaysIntact == Safety => []MemoryIntact
<1>1. SumaInv => MemoryIntact
  BY DEF SumaInv
<1> QED BY <1>1, SumaInvariant, PTL

(* The spare copy is rewritten only behind a whole main copy.              *)
THEOREM SpareIsLast == Safety => []SpareLast
<1>1. SumaInv => SpareLast
  BY DEF SumaInv, SpareLast, MainFirst, MainIntact, AtWriter, Target, Resting
<1> QED BY <1>1, SumaInvariant, PTL
=============================================================================
