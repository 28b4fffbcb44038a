# Verification of the set-top-box software

The repository is the application software of a Changhong ST7101 cable receiver:
the firmware under `src/chsrc`, which runs the iPanel browser and a
conditional-access (CA) kernel on OS21, over the ST driver set under
`src/apilib`. This directory holds a TLA+ model of its core, the TLC runs that
check it and the proofs that TLAPS checks.

## 1. The system

| Part | Source | State | Operations |
|---|---|---|---|
| Section demultiplexer tables | `chdemux/chdemux.c`, `sectionbase/sectionbase.c` | `SectionSlot[48]`, `SectionFilter[32]`: rows that map the indexes clients hold to driver objects, with a status, a PID and a count of filters | allocate, free, start, stop, associate, set, find, from any client thread, under a semaphore |
| Packet transport interface (PTI) driver | `apilib/src/stpti4` | slot, buffer and filter objects, their associations, the PID each slot collects | `STPTI_` calls, under the driver's lock; captured sections are signalled to a waiting thread |
| Browser demultiplexer interface | `eis/eis_api_demux.c` | `eis_slot_state` (started flags), the callback | `ipanel_porting_demux_*`, called by the browser thread; `Eis_DMX_SectionMonitor`, a thread that delivers sections |
| CA demultiplexer client | `MgDDI/MgSSourceDrv.c`, `ChCABase/ChDmux.c` | `FDmxFlterInfo`: slot, activity and PID of each CA filter | allocate, set, start, stop, free a filter; it shares slots by PID and frees them by count |
| Browser storage | `eis/eis_api_nvm.c` | a RAM mirror, a 50-message queue, a global status | read, burn, erase, poll; a writer thread that compares, erases a block and writes |
| Security module's storage | `ch_security/stb_tsm.c`, the same `eis_api_nvm.c`, two bytes of `dbase/st_nvm.c` | a copy in memory, two blocks of flash, a status byte for each | write, load after a restart, restore from the spare; the same queue and writer thread |
| CA base: entitlements (EMM) | `ChCABase/ChDmux.c`, `ChProg.c`, `ChCard.c` | a hand-over buffer, a ring, a message queue, stop and card flags | capture, hand over, deliver; stop, start and reset by the PMT and card threads |
| CA base: control words (ECM) | the same files | a buffer and a lock for each filter, a message queue | capture, re-program for the other parity, deliver; set, start, stop, free by the kernel |
| Browser OS porting | `eis/eis_api_os.c` | task slots, queues, a clock | create, destroy, send, receive, wait, `time_ms` |
| Browser sockets | `eis/ipanel_socket.c` | a 16-entry table | create, find, idle, close |
| CA base: the rest | `ChCABase/*.c` | timers, mutexes, program state | events from the CA kernel, expiry callbacks |
| Everything else | see PROJECT.json | drivers, graphics, A/V, USB, start-up | sequences of driver calls with little state |

How they interact: both clients call the tables, the tables call the driver. A
client's operation is several table calls, and the tables' lock is free between
them. The driver captures sections in hardware and signals the client's thread,
which reads the tables to find who the section is for. The browser polls the
storage status; the writer thread changes it, and serves the security module's
burns from the same queue.

What is hard, and what each part owes (the full list, with lines, is
`hazards` in PROJECT.json):

- *Tables.* Driver objects are reused at once (the driver hands out its lowest
  free handle), so any stale copy of a handle becomes valid again for something
  else. Freeing a slot leaves its filters' rows pointing at it. Allocation can
  fail half way. Owed: every driver object is named by one row, a FREE row names
  none, nothing freed goes on running, sections are attributed to the slot that
  captured them.
- *Browser interface.* Each function is a sequence of calls; starting a channel
  may take the PID over from another; two flags say what was done and may
  disagree with the driver. Owed: channels are the slots in use, filters stay on
  their channel, the CAT (PID 1) is left to the CA.
- *Delivery thread.* Its lookups take no lock (the semaphore calls around them
  are commented out). Owed: a section goes to the filter it matched, under the
  channel that filter was created on.
- *CA client.* Slot sharing by PID, an error path that leaves a filter in
  place, a count that decides who frees the slot, the browser's calls in
  between. Owed: a row belongs to one client, a slot is freed once, with its
  last filter, and what the kernel started goes on running.
- *EMM path.* Five threads, one buffer, messages that name a filter and no
  section, sends whose failure is ignored, resets that take no message back.
  Owed: no section waits with nothing to move it on, each is delivered once, in
  order and for its filter, and a full ring keeps the newest.
- *ECM path.* A filter is locked by one thread and unlocked by another, which
  also re-programs it for the next parity, whatever the kernel did meanwhile.
  Owed: no started filter stays locked, and keys of both parities keep coming.
- *Storage.* Crash between erase and write, one status for several operations,
  a dropped request reported as accepted. Owed: after success the flash holds
  what was burnt; a request is eventually done.
- *Security module's storage.* Two threads, two flags, two blocks, burns that
  may be dropped, and power that goes in between. Owed: a copy flagged valid is
  one whole write, and the spare is there when the main copy is not.

## 2. Modules

| Module | Models |
|---|---|
| `Pti` | the driver: a record of sets, and one function from state to state for each `STPTI_` call |
| `HandlePool` | abstract: a pool of objects, each held by at most one row |
| `ChDemux` | the tables: one action for each `CH6_` function, over `Pti`; `DemuxNext` lets any client call anything |
| `EisDemux` | the browser thread over `ChDemux`: one action for each `CH6_` call of an `ipanel_porting_demux_` function |
| `EisMonitor` | `EisDemux` with the hardware and the delivery thread |
| `MgDmxFilter` | the CA client over `ChDemux`: one action for each `CH6_` call of an `MGDDISrc` filter operation |
| `DemuxClients` | `EisDemux` and `MgDmxFilter` on the same tables, interleaved |
| `EisNvm` | the browser's storage: mirror, flash, message queue, status, the call in progress and the writer thread |
| `SumaStorage` | the security module's storage: the copy in memory, the two blocks and their flags, both threads, the restart |
| `BoundedFifo` | abstract: a bounded queue that displaces its oldest |
| `MgEmmQueue` | the way of an EMM from the capturing thread to the kernel |
| `MgEcmFilter` | the way of an ECM, and the lock and parity of its filter |
| `*_proofs` | theorems about the module they are named after |
| `MC*` | values of the constants for TLC |

**Driver calls are functions, table operations are actions.** An `STPTI_` call
runs under the driver's lock and a `CH6_` function under the tables' semaphore,
from its first table access to its return, so a `CH6_` function is one action
that composes driver calls. `pti` is the driver's state; `SectionSlot` and
`SectionFilter` keep the columns of the C tables that control anything. An
operation's last parameter is its result. `-1` handles are `NoHandle`, the PID
`0xffff` is `NoPid`; the U8 `FilterCount` is counted modulo `CountMod`.

**Driver refusals** are nondeterministic where the driver can refuse (no object
left, no list block left for an association); a refusal that needs an invalid
handle happens exactly when the model's handle is invalid. Two error paths
collapse on that: a link the driver has made and `CH6_Associate_Slot_Filter`
leaves in place when a later call fails (`chdemux.c:964-969`), and the returns of
`CHCA_ResetECMFilter` when setting or starting the filter fails
(`ChProg.c:2905-2922`), which unlock the section but leave the filter's own lock
set. The driver refuses neither of these calls for a valid handle.

**Where a thread is** is kept in `call` (browser) and `monitor` (delivery), with
the locals it reads later. `channels` and `channelOf` are the browser's own
knowledge, the numbers it was given. The browser uses only those numbers: it
does not call with a number it has destroyed. It may destroy a channel before
its filters, unless `Orderly`: then it destroys the filters first, and sets a
channel's PID before it starts it. `BrowserPid` are the PIDs it uses. The model takes the product's build, with
`CH_IPANEL_MGCA` defined.

`EisMonitor` delivers one matched filter for each section; the code's loop over
several repeats the same lookup. `src` in `monitor` is a history variable: the
filter the section belongs to, until it or its channel is destroyed.

### The storage

`EisNvm` shares nothing with the tables. It is modelled in units: a region is
`Blocks` flash blocks of `BlockSize` units, a request covers some units from a
first one, and `mirror` and `flash` map every unit to what it holds.

| Model | Code |
|---|---|
| `mirror`, `flash` | `mirror_basic` and its three siblings; what `init_nvm` reads at a start |
| `queue`, `MessageFree` | `EisCmd_Message`, a queue of `CH_Eis_FlashCmd`; a message is taken from its claim to its release, so the one the writer is on counts |
| `state` | `eis_flash_state`, one for the whole storage |
| `caller` | a call of `nvram_burn` or `nvram_erase` that holds `gpsema_eis_nvm` and waits for a message |
| `writer` | `Eis_NVM_Monitor` and the locals of `write_flash` and `erase_flash`: its message, the block it is on, whether its buffer is allocated, what it is about to program |
| `BurnCall`, `EraseCall` | a call up to the claim: the burn has changed nothing, the erasure has cleared the mirror |
| `BurnQueued`, `EraseQueued` | a message claimed and sent, the burn's data in the mirror |
| `BurnDropped`, `EraseDropped` | three seconds without a message |
| `WriterReceive`, `WriterTake` | the message received; the semaphore taken, the address looked up |
| `WriterSkip`, `WriterClear`, `WriterProgram` | `write_flash` on a block: passed over, erased, programmed |
| `WriterErase`, `WriterRelease` | `erase_flash` on a block; the message released |
| `PowerLoss` | power gone between any two steps or in the middle of a block, and the restart |

A call takes no step while the writer holds the semaphore and the other way
round; a poll of the status takes it too, so it sees only the states where it is
free (`SemaphoreFree`, the condition of `SuccessMeansWritten`). The device may
refuse an operation (`DeviceFails`) and the heap a block (`HeapRefuses`).
`VerifiesAll` is a driver that compares what it programmed word by word; the
code's compares the word it polls, one in sixteen (`lld.c:640`). `Patient` is the
browser that reads a result before it calls again; `Erasure` are the requests it
erases as well as burns.

A unit *agrees* when the mirror and the flash have the same, so that it reads the
same after a restart. An erased unit does not: `nvram_erase` clears the mirror to
zero, an erasure leaves 0xFF in the flash, and the restart loads that. Such a
unit is `Cleared`, which the properties name beside `Agree`.

`lost` is a history variable: the units whose burn or erasure the code itself
gave up. Some are followed by a status of FAILED: those of an address that is not
a region's first, which `EIS_Get_ActFALSHAddr` does not know, and of a failure of
the device. The others are given up in silence and are in `unsaid` as well: an
erasure without a message; a block passed over for want of a buffer; a block that
was not erased and is reported programmed; the rest of a block of which a part
was to be erased. A later success on the unit takes it out of both. What a dropped
burn was given is nowhere, so there is nothing to account for.

### The conditional-access client

`MgDmxFilter` has the kernel call one operation at a time
(`CHCA_SectionDataAccess_Lock`); `ddi` says where in it the operation is, since
the tables' lock is free between two `CH6_` calls. `FDmxFlterInfo` keeps the
columns of the C array that decide anything, `held` the filters the kernel was
given. `AssociationFails` says whether the driver may refuse the kernel's
association. `DemuxClients` lets any step of one client come between two of the
other's. Setting a filter again after a stop is refused as busy, although the
function's comment allows it (`MgSSourceDrv.c:1634-1638`, `:2103-2105`): a stop
leaves `InUsed` set.

The CA base itself changes the kernel's rows and filters in three ways.
`StopAllEcmFilter` (`ChProg.c:3139-3170`, called when a programme is left, `:2259`
and `:2294`) clears `InUsed` and `bdmxactived` of every ECM filter and does nothing
to the filters, which stay allocated, associated and armed, since the
`FreeAllMgCaFilter` after it (`:2299`) is commented out; the model clears any set
of the kernel's filters. `CHCA_MgFilterDelayCheck` clears `bdmxactived` alone.
`reset_set`, between a stop and a start, is the re-programming of a filter; here
the kernel may come in between, in the code it waits for the lock. A row that
was dropped so can be set again and is then associated a second time: `SetsAgain`
says whether the kernel does that or frees the filter first. `defined` is a
history: the row was associated since its allocation. `CHMG_SectionReq` and
`CHMG_FreeSectionReq`, which use the same array, are built for `PMTDATA_TEST` only
(`ChProg.c:2693`).

### The way of a section to the kernel

| Model | Code |
|---|---|
| `current`, `ring`, `messages` of `MgEmmQueue` | `MgEmmFilterData`, the ring with `sFront` and `sRear`, `pstCHCAEMMMsgQueue` (a message is taken from its claim to its release) |
| `capture`, `emm`, `pmt`, `card` | where the capturing, EMM, PMT and card threads are, with what they have read |
| `InsertAtOnce`, `InsertBehind` | `ChInsertMgEmmBuffer` with the buffer free or in use |
| `CopySection`, `CHCA_MgEmmSectionUnlock`, `CheckCard`, `CallKernel` | the steps of `CHMG_EMMDataProcess` |
| `StartDelivery`, `StopDelivery`, `FinishStartOrStop`, `ChangeTransponder` | the cases of `ChDVBPMTMonitor`: the flag first, the reset later |
| `Lock`, `DataBuffer`, `running`, `active`, `notify`, `row` of `MgEcmFilter` | the columns of a filter |
| `ReadSection`, `PassOver`, `ChInsertMgData`, `ClaimSucceeds`, `ClaimFails` | the capturing thread, which waits a second for a message with the section semaphore in hand |
| `CopySection`, `CHCA_ResetECMFilter`, `CallKernel`, `UpdateContent`, `ReleaseMessage` | `CHCA_EcmDataProcess` and what it calls |
| `StopAllEcmFilter`, `MoveCard` | the PMT and card threads |

A section is its number, the filter it matched and, for an EMM, whether its
second byte has one of the high four bits set; for an ECM, its parity.
`overtaken` in `MgEmmQueue` is a history: a reset has left a message behind.
`MgEcmFilter` gives every filter a slot of its own; sharing is the subject of
`DemuxClients`.

### The security module's storage

What the area holds is, unit by unit, the number of the write that put it there:
the model tells apart only whole writes, mixtures of two, and blocks erased or
half programmed (`Torn`). A write that leaves part of the area alone is a new
version of it all the same.

| Model | Code |
|---|---|
| `memory`, `temp`, `flash`, `status` | `SumaSecure_memory`; `tempbuf` of the restore; the blocks at `FLASH_SECURITY_ADDR` and `..._SPARE`; the two status bytes, `0x8A` or not |
| `queue`, `writer` | `EisCmd_Message` and `Eis_NVM_Monitor`, as far as they serve this module; a message may always find the queue full of the browser's |
| `WriteFlash`, `CopyUnit`, `FlagInvalid`, `SendBurn` | `SumaSTBSecure_WriteFlash`, the last two for the main and then for the spare copy |
| `WriterReceive`, `WriterPassOver`, `WriterErase`, `WriterProgram`, `WriterFails`, `WriterFlag`, `WriterFlagRefused` | the writer's branch for these messages with `SumaSecurity_write_flash` |
| `CH_CheckSecurityDataStatus`, `RestoreRead`, `RestoreSend`, `RestoreEnds`, `Recheck`, `LoadMain` | `SumaSTBSecure_GetFlashAddr` after a restart |
| `PowerLoss` | power gone between any two steps, or within a block, which is `Torn` from its erasure on |

Both flags are written by `CH_SetSecurityFlashStatus` and its sister for the
spare, which write the EEPROM once and discard whether it took the byte
(`st_nvm.c:1227-1244`, `:804-820`); either write may be refused. A refused 0x8A
leaves a good copy invalid (`WriterFlagRefused`). A refused 0x8B
(`FlagInvalid`) leaves a copy flagged valid over a block about to be erased.
Reads of the EEPROM are taken to succeed (`CH_GetSecurityFlashStatus` returns
an uninitialised byte when one fails).

`trouble` is a history of the worst that has happened. "given up": a burn that
was not made (no message in three seconds, the device failed, no buffer or no
time for a restore) or not flagged, so the copy stays flagged invalid.
"unsound": a copy was flagged valid for what was not written to it (a block
passed over for want of a buffer, a block that was not erased and reported
programmed), a copy about to be burnt stayed flagged valid because the EEPROM
refused to take the flag back, the restore's buffer was freed under its message,
or the module wrote again while its last write was still in the queue, which nothing
in the interface tells it. After the latter the claims are not made: a second
`WriteFlash` changes the memory the writer is reading (stb_tsm.c:164 takes no
semaphore), and the older message then flags valid what the newer one is still
to write.

## 3. Runs

| Run | Instance | Shows |
|---|---|---|
| `demux_tables` | 2 slots, 2 filters, 2 objects of each kind, 2 PIDs, counts mod 3, symmetric | the five invariants of the tables, for any client; the slot, buffer and filter columns implement `HandlePool` |
| `eis_client` | 2 slots, 2 filters, one PID and the CAT, any order of calls | the browser's invariants; `EisSpec` implements `DemuxSpec` |
| `eis_delivery` | 2 slots, 2 filters, 1 PID, 1 waiting section, flags shorter than the table | sections reach their owner |
| `clients` | 2 slots, 2 filters, a PID of the browser's, one of the kernel's and the CAT, counts mod 3, an orderly browser, no refused association, a kernel that frees a dropped filter before it sets it again | rows and slots are divided between the clients, a started filter of the kernel's is fed, counts are the associations, `Accounts` (the invariant these are proved from) holds, and both together implement `DemuxSpec` |
| `clients_reset` | the same, a kernel that does set a dropped filter again | violated: counts are the associations |
| `nvm_parts` | 1 region of 2 blocks of 2 units, 3 requests, one of which (a part of the region) is erased too, 1 data value, 2 messages, all failures; fairness | mirror and flash differ only where that is accounted for; BURNING has a message behind it, and ends; when the calls stop, the flash catches up |
| `nvm_heap` | a region of 2 blocks and one of 1, 4 requests, erasures of whole blocks, 2 data values, a patient browser, a device that never fails, a heap that refuses | violated: SUCCESS means written |
| `suma` | 2 units, 3 writes, power losses, an EEPROM that may refuse; fairness | a copy flagged valid is whole, and so is what the module reads; the spare is rewritten last; a write without trouble reaches both |
| `suma_spare` | the same | violated: a restart finds a valid copy once there have been two |
| `emm_queue` | 2 filters, a ring of 3, 2 messages, 4 sections of which the second may match either filter and the third may be flagged; fairness | a backlog has a hand to move it on, the kernel gets what was captured, the ring implements `BoundedFifo` and, full, keeps the newest; no section stays in it for ever |
| `emm_flagged` | 1 filter, 2 sections, each flagged or not | violated: a newcomer is put into the ring |
| `ecm` | 1 filter, any pattern of parities, 2 messages; fairness | locks are backed and end; keys of both parities keep coming |

Why the bounds are enough. *Tables:* every scan stops at the first match, so two rows give
a match before, at and after a row; two objects of each kind are enough for an
object to be freed and handed to another row while a stale copy of it survives,
and as many objects as rows makes both run out; the third state of the counter
is enough for it to wrap and to differ from both 0 and 1. In `eis_delivery` the
counter, which that property does not read, has one value. With two slots and two
filters in `clients` either client can take everything, both kernel filters can
share a slot, and each can lose a race for the last row.
Symmetry permutes driver objects (and PIDs or the browser's data in the runs
that name no particular one), which the code compares for equality only. The
temporal properties checked under symmetry are safety: an initial condition and
a box action. The runs with liveness have no symmetry.

*Storage:* the requests of `nvm_parts` are the three ways to lie in a region of two
blocks: whole blocks, a part of the last one, and a start that is no region's
first address. Only the second of them is erased, the one whose erasure takes the
rest of a block with it and of which every other is a part or an extension;
`nvm_heap` erases the other two. Two blocks of two units give a last block that is partial, a
block that is not the last, and a rest of a block to preserve; one data value,
zero, and what an erasure leaves are enough to differ. The code has 50
messages and the models two: with the writer on one message
and one queued, a call finds none left, and the queued message can be older or
newer than the writer's; a third queued one brings no new relation between
two messages.

*Security module:* two units are what it takes for a mixture. The third write
comes after a restart and a restore from the second.

*EMM and ECM:* a ring of 3 holds two sections, so that it has an oldest, a
newest and a limit; with a third in the hand-over buffer the fourth meets it
full. `Stream` says what section n may match and whether it may be flagged: the
filters are alike, so the first may as well match `f1`; sections of one filter and
of both follow each other, and a flagged one meets a backlog. Two messages are
the fewest with which one is in work, one queued, and a send fails. The ECM filter alone can use both up, by being stopped and
started while its messages wait.

The proofs of section 4 have none of these bounds.

**Fairness.** The runs of the tables and their clients are safety checks and
have none. `NvmSpec`: a call that waits for a message returns (the claim has a
time limit of three seconds); the writer thread runs (a priority of its own, and
retry limits in its device calls); the writer gets the semaphore if it comes
free again and again (strong, since calls take it in between: OS21's FIFO
semaphore, `semaphore_create_fifo`, queues its waiters). `BurnSettles` rests on
the time limit: its mutant claims without one, and the call then waits for a
message while the writer, holding the only one, waits for the semaphore.
`EventuallyDurable` assumes that the calls stop, and excepts `lost`; of an erased
unit it says that it ends erased.
`Spec` of `SumaStorage`: both threads run, for the same reasons. `FairSpec` of
`MgEmmQueue`: the EMM thread runs when it has something to do, and the PMT
thread carries a start or a stop through to its reset. `EcmSpec`: the ECM
thread gets the section semaphore if it comes free again and again (strong, FIFO
again); the capturing thread deals with what it has read, within the second that
its claim may take; and each parity of a programme, broadcast again and again,
is read some time while the filter is open and a message free (strong). Nowhere
is anybody made to call, to capture an EMM or to move the card.

**Claims that the code does not keep** have a run and a finding each.

- `clients_reset`: `StopAllEcmFilter` takes a filter out of use without taking it
  out of the tables, and the two columns it clears are all that
  `MGDDISrcSetDmxFltr` tests (`MgSSourceDrv.c:1700`). The kernel may then set the
  filter again: with the same PID it is counted twice on one slot, which then is
  not freed with its last filter; with another PID its slot is forgotten.
- `nvm_heap`: without a block buffer `write_flash` passes over the block and
  returns success (`eis_api_nvm.c:350`, `:422`), and `nvram_status` says
  "written successfully" (`:902`).
- `suma_spare`: `WriteFlash` queues the main burn and at once flags the spare copy
  invalid, so that power lost before the main burn ends leaves no copy a restart
  accepts; the module is given zeros while the spare block still holds the last
  write.
- `emm_flagged`: `ChEnMgBuffer` reads a section's length with the high bits of its
  second byte, refuses it as too long, and nobody looks at the refusal.

**Others, met while modelling**, are described here without a run of their own.

- *Browser.* Starting an already flagged channel does nothing and returns
  `IPANEL_OK`, so a PID set later is never collected (and a channel whose PID
  another takes over stays flagged). A failed `create_filter` keeps its filter
  row. A count can wrap when a channel is destroyed before its filters
  (`Orderly = FALSE` in `clients`: `CountIsAssociations` fails). A callback can
  name channel 0 or a channel not in use, if the channel was destroyed during
  the lookups. `eis_slot_state` has 32 elements and slot indexes reach 47
  (`EIS_SLOT_SUM` and `EIS_FILTER_SUM` have the tables' sizes swapped;
  `WriteState` treats a write beyond the array as none, which makes
  `eis_delivery`, whose array is shorter than its table, a check of those
  channels too).
- *Both clients.* With the CAT as a PID of both, `RunningIsFed` fails:
  `MGDDISrcSetDmxFltr` takes whatever row has its PID, the browser's CAT channel
  included (`MgSSourceDrv.c:1810`), and the browser's `destroy_channel` stops
  and frees that row, although `eis_api_demux.c:296` and `:339` say the CAT is
  left alone to avoid a conflict. It also fails for a browser that starts a
  channel without a PID: the take-over looks for another row with 0xffff and may
  stop the kernel's. A filter allocated and freed without having been set is
  refused by the free and never comes back. When the driver refuses the
  association the filter keeps a slot whose count does not include it, and
  the free then frees the slot under another filter, or loses it. After a
  dropped filter was set again (`SetsAgain`), the other properties of `clients` that
  rest on one association for each filter fail with the counts.
- *Browser storage.* `write_flash` does not look at the result of the erasure
  (`eis_api_nvm.c:385`), and the driver verifies one word in sixteen, so a block
  that was not erased may be reported written: with room in the heap, a device
  that fails and `VerifiesAll = FALSE` TLC finds `SuccessMeansWritten` violated. What was erased reads zero until the restart and 0xFF after
  it. An erasure that ends inside a block erases the rest of the block too, in
  the flash and not in the mirror, and reports SUCCESS (`eis_api_nvm.c:249`). A burn that finds no message keeps nothing of its data and
  returns `IPANEL_OK`. `nvram_erase` is documented as synchronous and queues a
  message. `nvram_status` takes an address and answers for the whole storage, so
  for a browser that does not wait (`Patient = FALSE`) `SuccessMeansWritten`
  fails: the first request's result is read as the second's. (With a single message
  it fails for a patient one too, whose erasure may find none while the status is
  the last SUCCESS; the code has 50.) `nvram_burn` and
  `nvram_erase` accept eight blocks for any region (`eis_api_nvm.c:738`).
- *Security module.* When the EEPROM refuses the byte that takes a copy's flag
  back (`st_nvm.c:1230`, `:1243`), `WriteFlash` sends the burn all the same; power
  lost during it leaves half a block under a flag that says "the backup is valid"
  (`eis_api_nvm.c:1121`). `ValidIsIntact` is violated so when a refused clearing
  is not counted as unsound. After power lost between the two burns of a write, the
  restart leaves the spare copy as it is, invalid; the next write's main burn
  then runs with no other copy. `SpareLast` holds, "one copy is always whole"
  does not.
- *EMM and ECM.* A stop cancels no section already captured: the kernel may be
  called for a stopped or freed filter, against the comment at
  `MgSSourceDrv.c:2128`. For ECMs, `CHCA_ResetECMFilter` (`ChProg.c:2894`) then
  starts the stopped filter again, if the stop came between the capture and the
  reset. Starting an active filter returns early and leaves its lock as it is.

## 4. Proofs

`ChDemux_proofs` proves, for every number of slots, filters, objects, PIDs and
counter values (`PtiAssumption`, `ChDemuxAssumption`: the sizes are positive and
the null values are no objects or PIDs):

- `DemuxInvariant`: `DemuxInv`, the conjunction of the five table invariants, is
  inductive. `GuardsAgree`, `NoHandleLost`, `CapturesAttributed`, `FreedIsQuiet`
  and `DemuxTypeCorrect` are its parts. No part is inductive alone: that an
  object has one owner needs the guards to agree (an operation that tests the
  status writes the handle), and that nothing runs unowned needs both.
- `PoolsRefined`: the refinement of `HandlePool`.

The argument: most operations are *quiet* (they change neither who owns what
nor make the driver do more for an unowned object), and `QuietStep` does them
all at once. The five that are not (allocate and free of a slot and of a filter,
and associate) each get a lemma, and `AccountedKept` derives the ownership
property of all three columns from one lemma about the moves of an abstract
pool (`PoolStep`: none, one object acquired, one released).
Associating needs the client's promise that a filter is associated once
(`NotYetAssociated`), a guard of `DemuxNext`.

`EisDemux_proofs` discharges that promise for the browser: `FreshRows` proves
`EisInv` (free filter rows, and the one `create_filter` holds between its calls,
carry no slot), `BrowserImplementsDemux` the refinement, and
`TablesSoundUnderBrowser` carries the tables' theorems over. With `EisInv` and
`DemuxInv` at hand, two more inductive invariants give what the browser relies
on, for every size of the tables and an orderly browser or not:

- `CatIsLeftAlone`: only `CH6_Start_Slot` makes the driver collect what it did
  not (`OnlyStartCollects`), and while `start_channel` is at work its channel is
  not set to the CAT (`StartingNoCat`): the test at its beginning still holds
  after the lock was released, because the browser, alone here, calls from one
  thread.
- `ChannelsHeld`, `FiltersStayAttached`: `HeldInv` adds that a channel being
  destroyed is in the table and no longer the browser's, and that a filter of
  the browser's has a row in use. `AttachedStays` is the lemma they turn on: an
  operation that frees neither of two rows leaves them linked, because no other
  row names their objects (`NamedObjects`).

`EisMonitor_proofs` proves `SectionsDelivered` (`DeliveredToOwner`) for tables of
every size, any number of waiting sections and any interleaving of the delivery
thread with the browser. `MonitorIInv` adds to the tables' and the browser's
invariants that the scans stay in their tables (`Scanning`) and `OwnerFound`:
while the filter of the section being handled and its channel live, the filter's
row has the section's handle until it is found, and the scan of the slots has
not passed the channel's row after. The rows do not move under the thread
(`BrowserLeavesOwner`, from `FilterStays` and `AttachedStays`), and no other row
ever has their handles (`OwnersRows`), so the scan cannot stop too early either.
The thread needs no lock for this; it would for the sections of an owner that is
destroyed meanwhile, of which the property says nothing.

`EisNvm_proofs` proves, for every layout of regions and blocks, every set of
requests that lie within their region, every set of data and every length of the
queue (`SizesAssumption`, `RequestAssumption`, `SwitchAssumption`,
`CellAssumption`), with failures and power loss:

- `NvmInvariant`: `NvmInv` is inductive. Its parts are `NvmTypeCorrect`,
  `MirrorAccounted` and `BurningHasMessage`, and three facts that
  `DirtyAccounted` needs to be inductive. `WriterAlone`: no call is in progress
  while the writer holds the semaphore, so the mirror does not change under it.
  `ImageCurrent`: what is about to be programmed is the mirror's data over the
  block as it was read. `EraseShadow`: a unit that an erase message still
  covers reads zero in the mirror unless a later message writes it, so an
  erasure that the writer carries out late destroys nothing that no later
  message restores; the order of the queue is what makes it true.
- `MirrorAccounted` says that a restart would read what the browser reads except
  where an erasure was carried out, where something is still to be written or
  erased, and where the code gave up; it takes no assumption on heap or device.
- `PatientSuccess`: a patient browser has at most one request on its way
  (`OneRequest`, inductive with `NvmInv`), and then a status of SUCCESS leaves
  nothing in hand. With `NothingUnsaid` (nothing was given up in silence) only what
  a FAILED has reported may differ. It holds under `SuccessConditions`, each of
  which the code needs: a patient browser, two messages, room in the heap, a
  device that either does not fail or has all it programmed verified, and
  erasures of whole blocks (`ErasedWhole`). `nvm_heap` shows what goes wrong
  without the third, section 3 without the fourth. TLC has no run of the claim
  where it holds: before it was proved, it was checked on the instance of
  `nvm_heap` with room in the heap and a device that fails and is verified
  (811,000 states).

The argument is one lemma for each action and, shared by the writer's actions,
`BlockAtHand` (a block's units and those beyond are all a message still has to
do), `Advance` (going on to the next block) and `GivenUp`.

`DemuxClients_proofs` proves, for every size of the tables and any two sets of
PIDs, with and without refused associations and an orderly browser
(`EisDemuxAssumption`, `MgDmxFilterAssumption`), programmes left, filters timed out
and re-programmed, for a kernel that frees a dropped filter before it sets it again
(`~SetsAgain`, without which they do not hold): `ClientsInvariant`,
`ClientsDivided` (no filter row is both clients', none in use was freed) and
`ClientsImplement`, from which `TablesSoundUnderClients` follows. The inductive
invariant adds `DdiPlaced`, what the kernel's operation relies on at each of its
places. A table call moves the filter rows in one of four ways (`NoneMoved`,
`Taken`, `GivenBack`, `Associated`); each client's invariant is shown to survive
each way the other can move them, instead of each pair of actions.

The same module proves that the clients do not disturb each other, for every
size of the tables and any sets of PIDs, under the hypothesis `Apart`: an
`Orderly` browser, no refused association of the kernel's, no dropped filter set
again, no PID of both clients, and more values of `FilterCount` than filters (256 and 32 in the code).
The run `clients` is such an instance, and under *Both clients* and *Browser*
above it is said what goes wrong where a part of `Apart` does not hold: these
are conditions of the code, not of the proof.

- `SlotsStayDivided`: a slot in use is the browser's or the kernel's, never both,
  and none is lost; so the kernel, which decides by a count in one table call
  and frees in another, never frees a slot that has come to be somebody else's.
- `CountsStayRight`: `FilterCount` is the number of the driver's associations.
- `RunningStaysFed`: a filter the kernel started is armed and linked to a slot
  that collects its PID.

None of the three is inductive, alone or together. `AccountsInvariant` proves the
invariant they follow from, `Accounts` in `DemuxClients`, which the run checks
too: the *ledger* of what each client means its filters to be on (`SlotOf`), with
which links (`LinksMeant`), counts (`CountsMeant`) and PIDs (`PidsDivided`) agree
at every place an operation can be in; what the kernel's operation has read and
still relies on after the lock was free (`KernelKnows`: the count it decides by,
the absence of a row with its PID); and, for `RunningStaysFed`, that what the
driver collects under a PID of the kernel's is the kernel's slot (`Collected`),
that the browser's take-over aims at the browser's slots (`BrowserAims`), and
what is started or about to be stopped (`ActiveFed`). The argument follows the
same plan: a table call moves the ledger in one of six ways (nothing, a slot
more, its PID, a filter more, a filter less, a slot less), `MovesDivide`,
`MovesLink` and `MovesCount` show what each does to the parts, `BrowserKeepsKernel`
that no move of the browser's touches what the kernel knows, and one lemma for
each operation of the kernel (`...Ledger`, `...Feeds`) that it goes where it may
stand. `Recounted` and the lemmas after it are about a count modulo `CountMod`
and the cardinality it stands for.

`MgEmmQueue_proofs` proves, for every ring, queue, number of filters and of
sections (`RingAssumption`, `MessageAssumption`, `SectionAssumption`), whatever `Stream`:
`BacklogIsServed`, `NewestKept`, `DeliveredInOrder`, and `RingImplementsFifo`, the
refinement of `BoundedFifo`. `EmmInv` is `TypeOK`, `BacklogServed` and `SectionsInHand` (a
thread past its reading has a section, a message finds one in the buffer, and
what lies between the ring's indices are sections). The arithmetic of the two indices is in lemmas about `Contents`:
what `ChEnMgBuffer` and `ChOutMgBuffer` do to the sequence a ring stands for.
`DeliveredInOrder` needs two things more. `StreamOrder`, which holds through every
reset: hand-over buffer and ring ascend in the order of capture (`Ascends`), and
only the section in the capturing thread's hand is newer. `InStep`, while no
reset has left a message behind: at most one message is outstanding, and it, or
the EMM thread until it has passed the next section on, is about the section in
the buffer (`OneAnnounced`), which is why a message need not name it;
`HandedInOrder` places the section in the thread's hand between the last one
delivered and the buffer's. TLC checked both, with one filter and two, before they were proved.

`MgEcmFilter_proofs` proves `NoFilterDeaf` (`LockBacked`) for every number of
filters and messages and every set of patterns. `EcmInv` adds only that what a
thread is at work on is a filter (`AtWork`): the lock is set in the step in
which the message is sent.

`SumaStorage_proofs` proves, for every area, any number of writes, power lost at
any step and an EEPROM that may refuse either flag: `ValidCopiesIntact`, `MemoryStaysIntact`, `SpareIsLast`. None is
inductive alone. `SumaInv` adds `Ready`, what holds while nothing unsound has
happened: a copy with a message is flagged invalid and has one message only, in
the queue or at the writer (`OneEach`); what a message points to is whole, and
the restore's buffer allocated while a message points to it (`QueueReady`,
`WriterReady`); the module's thread sends only for a copy that has none and
changes the memory only when nothing is pending (`ModuleReady`). And
`MainFirst`, while nothing was given up: a spare message in the queue has a whole main
copy, or its message, in front of it. A power loss empties queue and writer, and
with them every obligation of `Ready`; that is why no order of losses breaks it.

Every safety invariant, every action property and every refinement that a passing
run checks is proved. Only model-checked: liveness (`BurnSettles`,
`EventuallyDurable`, `BacklogMoves`, `LockEnds`, `EveryKey`, `Saved`). Out of the
prover's reach: liveness under fairness, `ENABLED`, and induction over data.

## 5. Not modelled

`CH6_SectionReq`, `CH6_SectionReq2` and the `CH6_Free...Req` family of
`sectionbase.c` (no built file calls them); `CH6_Flush_Slot_Buffer`; section
contents, match patterns, lengths and buffer sizes (but for the flagged byte of
an EMM: `ChInsertMgEmmBuffer` itself masks those bits at `ChDmux.c:718`, in an
expression that adds 3 before the bytes are joined); `ioctl`, `set_notify` and the
audio, video and PCR channel numbers, which touch no table. Of the CA base: the
CAT and PMT paths, the kernel's timers, mutexes and memory, the card's protocol,
the semaphore of its entry points (`pSemMgApiAccess`), and the reset of an ECM
filter whose row was freed and given to the browser in the meantime
(`MgEcmFilter` has only the kernel's rows). Of the storage: a
start without memory for a mirror or for the security module's area, the builds
without `CH_FLASH_MIRROR`, requests that
leave their region (`nvram_burn` accepts them, the browser does not make them),
and `ipanel_nvram_erase_by_hand`, which is not called. The other
components, with the reason for each, are in PROJECT.json.

## 6. Plan

Done: the tables, their two clients and the composition; the delivery thread;
the browser's and the security module's storage; the EMM and ECM paths; proofs
of their main invariants and refinements. Left, in the order of what it adds:

1. `MgEcmFilter` over `DemuxClients`, for the reset of a reallocated row.
2. `EisOs` (the millisecond clock modulo 2^32, task slots), `EisSocket` (the
   table of sockets).
3. The accounts of both clients without the parts of `Apart` that only some of
   the three properties need.
