# hal-st: models, checks and proofs

hal-st implements the HAL interfaces of EmbeddedInfraLib on STM32
microcontrollers: peripheral drivers, a Bluetooth Low Energy middleware on top
of ST's wireless stacks, and a host side for ST's bootloader. This directory
holds TLA+ modules that model its parts, TLC configurations that check them on
small instances, and proofs for TLAPS. `PROJECT.json` lists the runs, which
lines of the source each definition models, the hazards, the findings and the
theorems.

1. [The system](#the-system): its parts, their state, how they interact
2. [Modules](#modules): what models what
3. [Runs](#runs): what each checks, its bounds and its assumptions
4. [Findings](#findings)
5. [Proofs](#proofs)
6. [Not modelled](#not-modelled) and [plan](#plan)

To check a module: `tlc -config MCGapCentral.cfg MCGapCentral.tla`; to check
its proofs: `tlapm GapCentralProofs.tla`.

## The system

### How it runs

One thread: an event dispatcher takes scheduled functions from a queue of 50
and runs each to completion. Interrupts preempt it between any two
instructions; most handlers only record what happened and schedule the rest.
Timers run on the dispatcher. A request to a driver returns at once and is
reported later by calling the function object it was given; nearly every class
holds one such callback per kind of request and asserts or refuses when it is
asked again before.

On the dual-core STM32WB, CPU1 runs this code and CPU2 runs ST's wireless stack
or the firmware upgrade services (FUS). They share the flash, hardware
semaphores and a mailbox.

So what is hard is the same everywhere: a callback slot that is set, cleared
and called in the right order; an event that was queued before the state it is
handled in; two interrupts whose order is not fixed; another processor that
takes a step in between; a reset in the middle of a procedure that spans
resets.

### Components

| Component | State it keeps | Operations | Interacts with | Correct when |
|---|---|---|---|---|
| `FlashCoordinatedWithWirelessStack` | request under way, pending step, what it knows of CPU2 | write, erase; CPU2 starting or ready; semaphore interrupt; NMI | flash driver, HSEM 7, CPU2, dispatcher | pieces of a request happen in order, once, only under semaphore 7; every request is reported |
| `FlashInternalStm` | callback | write, erase, read | HAL flash | unlock, program and lock belong together |
| `WirelessCoprocessorUpgradeWb` | journal in flash, poll count, tail of the image | Prepare, Write, Install, DeleteWirelessStack, Resume | FUS, flash, resets | a command is given once; the outcome reported is what happened, across any reset |
| `FirmwareUpgradeServicesWb` | none of its own | state, commands | FUS | states and errors are told apart |
| `StBootloaderCommunicatorUart` | list of actions, receive queue, timer, buffers | 12 commands | UART interrupt, dispatcher, timer | a command is done with exactly its answer, or fails |
| `FlashOnStBootloaderCommunicator` | rest of the request | write, read, erase | communicator | the commands cover the request exactly |
| `GattClientSt`, `GattClientConnectionSt` | operation, two callbacks, value being read, MTU | discover, read, write, MTU, indications | ST stack (HCI events) | a callback gets the result of its own procedure |
| `GapCentralSt`, `GapSt` | connection context, a callback per request, timer, discovering | connect, cancel, disconnect, update, pair, discover | ST stack, timer, observers | a request is told what became of it; context and stack agree |
| `GapPeripheralSt` | state, callbacks, advertising data | advertise, standby, update | ST stack, observers | as the central |
| `GattServerSt` | fragments of a long write, notification and indication under way | add services, update, confirm | ST stack | a long write is delivered whole, of one writer |
| `BondStorageSt` | bonds in the stack, reference bonds | synchronise, remove | NVM | both agree |
| `SystemTransportLayerWb/Wba`, `BleStackProcessWba` | event queue, flow flags | notify, process | interrupts, ST stack | no event is lost or reordered |
| `SdmmcBlockDeviceStm` | operation, phase, chunk, pending event | read, write, erase, flush | SDMMC interrupt, its DMA, timer, data cache, card | an operation gets its own result, and what it read or wrote is what the card holds |
| `FdCanStm`, `CanStm` | callback, completion ring, receive queue, pending errors | send, receive | interrupts, bus-off | each send completes once, with its own result; no frame is left behind, no loss kept quiet |
| `UartStm`, `UartStmDma`, `UartStmDuplexDma`, `DmaStm` | callback, last position in a circular buffer | send, receive | DMA and UART interrupts | every byte is delivered once, in order |
| `SpiMasterStm(Dma)`, `SpiSlaveStmDma` | both done flags, rest of a long transfer | exchange, cancel | two DMA streams | done when both are, once |
| `I2cStm` | two callbacks, counts | send, receive | event and error interrupts | one completion per transfer |
| `EthernetMacStm` | descriptor rings | send, receive | DMA, lwIP | descriptors are reused in order, none leaks |
| other drivers | settings | | | |

What the modelled parts can get wrong that a test would hardly reach is listed,
at its line, under `hazards` in `PROJECT.json`, with the properties that claim
it does not. Only `services/st_util` has unit tests in this repository; the rest
is tested on boards (`validation/`), one command at a time, which meets hardly
any of these interleavings.

### Hazards no model reaches

Besides those of the modelled components that `PROJECT.json` lists with a note.

| Where | What can go wrong |
|---|---|
| `FlashCoordinatedWithWirelessStack.cpp:224` | the NMI erases a page while CPU2 holds semaphore 7, and without having announced an erase: the model does so too, and no property claims otherwise |
| `FlashCoordinatedWithWirelessStack.cpp:165` | an attempt whose semaphore is released in time schedules a retry, and the interrupt may schedule one more: retries fill the dispatcher's queue while the dispatcher is busy |
| `WirelessCoprocessorUpgradeWb.cpp:279` | power lost between the deleteIssued record and the command: the poll finds FUS idle and readyForImage is reported with the old stack still there |
| `FlashOnStBootloaderCommunicator.cpp:59` | the index of a sector is cut to 16 bits |
| `GapCentralSt.cpp:439` | the end of a discovery tells observers standby while a link or a connect is there |
| `GapPeripheralSt.cpp:153` | StateChanged reads the state when it is called: two changes before the dispatcher runs are told as the last one, twice |
| `GapPeripheralSt.cpp:239` | Standby completes on any disconnection, also of a link that was lost before it asked, or of the stack's refusal |
| `GapPeripheralSt.cpp:316` | Advertise overwrites the peer address of a link that is there with that of the last bond |
| `GapSt.hpp:112` | a completion is scheduled by reference: a request accepted before it runs is reported with the result of the one before it |
| `GattServerSt.cpp:192` | the fragments of two long writes, of two links or attributes, share one buffer |
| `GattClientSt.cpp:594` | an application that keeps released connections leaves the allocator none for the next link, which then has no GATT client |
| `SystemTransportLayerWb.cpp:32` | a notification between the drain of the queue and the reset of the flag: coalescing may lose it |
| `SystemTransportLayerWba.cpp:128` | the queue of events is full: the flow is paused, and events must be delivered once and in order after it resumes |
| `BleStackProcessWba.cpp:60` | a link layer event the host had no room for is offered again, while another one is missed |
| `CanStm.cpp:76` | a second SendData overwrites the callback and the mailbox of the frame under way |
| `CanStm.cpp:106` | the completion is called before the mailbox's flag is cleared: a frame the application sends from it loses its own |
| `CanStm.cpp:122` | the length code of a received frame may be 9 to 15: resize beyond the eight bytes a message holds |
| `UartStm.cpp:131` | the callback is cleared before the receive interrupt is disabled, which may deliver in between |
| `SpiMasterStmDma.cpp:205` | the two streams of a transfer end in either order, also for every chunk of a long transfer |
| `SpiSlaveStmDma.cpp:58` | CancelTransmission while the completion of the transfer waits in the dispatcher |
| `EthernetMacStm.cpp:277` | a second frame is queued before the interrupt of the first one is handled: the last descriptor is not sent and the assertion fails |
| `EthernetMacStm.cpp:179` | a receive buffer the observer refuses is never asked for again while frames keep coming in: the ring shrinks until reception stops |
| `I2cStm.cpp:161` | the scheduled completion looks at onSent and sent when it runs, by which time the callback may have started the next transfer |
| `I2cStm.cpp:428` | a bus error after a missing acknowledge whose completion is still scheduled: two completions of one transfer |
| `DualCoreHandshakeStm.cpp:46` | the M7 releases the M4 before it stops: the pending event is cleared and the M4 waits for ever |

## Modules

A comment at the head of each module says what a step is. Names are the
source's wherever TLA+ has room for them. Variables come in groups: those of
the class, those of what it talks to, and what the model keeps besides for the
properties, such as what each caller was told.

| Module | Models | Shape |
|---|---|---|
| `FlashService` | what `hal::Flash` promises | abstract specification |
| `FlashCoordination` | `FlashCoordinatedWithWirelessStack.cpp`, and `FlashInternalStm.cpp` as it uses it | one step per access to the semaphore peripheral or the flash, with `pc` as the place in `TryStep` |
| `WirelessUpgrade` | `WirelessCoprocessorUpgradeWb.cpp`, `FirmwareUpgradeServicesWb.cpp` | one step per callback, poll and FUS step; `op` is the flash operation under way |
| `WirelessImage` | `Write` and `Install` of the same class | bytes of the image on their way to flash |
| `StBootloader` | `StBootloaderCommunicatorUart.cpp` | one step per action executed; bytes in between |
| `FlashOnStBootloader` | `FlashOnStBootloaderCommunicator.cpp` | one step per command |
| `GattClientConnection` | `GattClientConnectionSt` in `GattClientSt.cpp` | one step per request and per HCI event |
| `GapCentral` | `GapCentralSt.cpp` and what it uses of `GapSt.cpp` | one step per request, timer and HCI event |
| `BlockDevice` | what `hal::BlockDevice` promises | abstract specification |
| `SdmmcBlockDevice` | `SdmmcBlockDeviceStm.cpp` on `SdCardStm`, `MmcStm` and `DataCacheStm.hpp` | one step per entry of the dispatcher's queue, per interrupt, and per thing the DMA, the card or the data cache does |
| `FdCan` | `FdCanStm.cpp` | one step per interrupt and per entry of the dispatcher's queue; `SendData` in two, with the interrupt in between |
| `UartStmDuplexDma` | the receiving half of `UartStmDuplexDma.cpp`, and the circular stream of `DmaStm.cpp` as it uses it | one step per access of an interrupt to the hardware, with bytes and the other interrupt in between |
| `MC...` | | instances for TLC |
| `...Proofs` | | theorems about the module of that name and their proofs; those about `WirelessImage` are in `WirelessUpgradeProofs`, those about `FlashOnStBootloader` in `StBootloaderProofs`, which extend both |

### FlashCoordination

`WriteBuffer` and `EraseSectors` set `request` and start a step.
`StepWhenCpu2AllowsFlashAccess` marks it pending and `TryStep` is the sequence
*return when starting or nothing pending; lock semaphore 7; when refused clear
the flag, enable its interrupt, look once more*. Each of these is an action,
since CPU2 and the interrupt handler may come between any two. What follows
under a critical section (unlock, program, check, lock, release) is separate
only because the NMI is not masked: `EccErrorHandler` may come between any two
of them. It returns at once, or erases a page (`pageErase`) until `PageErased`;
meanwhile nothing of CPU1 runs, but CPU2 does. It does not ask for semaphore 7.
The continuation goes through the dispatcher's `queue`. CPU2 is
external: it takes and releases semaphore 7 as it pleases once it was told to
use it. It is stopped, starting or running when the driver is constructed, and
reports at most once that its wireless stack or FUS is ready.

`ImplementsFlash` maps a request to `FlashService`: what is under way, the next
byte or sector, and the end.

### WirelessUpgrade and WirelessImage

The variables `journal`, `torn` and `area` are flash and survive a reset; all of
CPU1's others do not. `Reboot` starts every variable of CPU1 afresh and `CutShort`
says what an interrupted flash operation leaves behind: nothing, all of it, or a
double word that is neither erased nor a record. FUS begins, works, succeeds, or
fails, with a code or without one; it may reset the device when it is done.

`WirelessUpgrade` has the image as one step per `Write`; `WirelessImage` shows
that chunks of any sizes reach the flash whole. They meet in `Install`.

### StBootloader and FlashOnStBootloader

A command is the list of actions the code builds; `actions` is
`commandActions`. `BytesReceived` is the interrupt: any number of bytes that are
on the line. The dispatcher's functions (`SendCompleted`, `DataReceived`,
`Timeout`) are flags, as each is scheduled at most once. The target is
external: it answers a frame when it has come, and may refuse it, send a wrong
byte or stop.

`FlashOnStBootloader` uses the communicator by its interface: one command,
carried out and reported, or failed and not reported.

### GattClientConnection and GapCentral

The ST stack is external, and modelled by what the handlers take from it:
commands are accepted or refused, procedures end in events, and events reach
the dispatcher one by one in the order in which they were produced. Requests may
come between any two events, and the link may be lost at any moment.

Two assumptions on that stack are constants or guards, since its code is not
part of the repository:

- `FreesWhenHandled`: the stack takes no new procedure before the host has
  handled the completion of the one before. With `FALSE`, the completion of a
  `Read` may be queued while the application already starts another procedure
  from the value's callback, and that procedure then gets the end of the
  `Read`. The flag is there to show how much hangs on it.
- A `CancelConnect` that the stack accepts ends the connect in no connection.

A `Disconnect` that the stack accepted may still fail (`FailsToTerminate`): the
link stays, with `onDisconnectDone` called and the observers told of standby.

### SdmmcBlockDevice

A request is checked and begun (`Begin`), transferred in chunks (`StartChunk`,
`ChunkTransferred`), waits for the card after each chunk of a write
(`PollCard`), and is reported by `Finish`, which the dispatcher runs. `queue` is
the dispatcher's, first in, first out. The peripheral moves a block at a time
and then reports: transferred, failed, or failed and then transferred, as the
HAL's handler does when the stop command fails. A block of the buffer has what
is in memory and perhaps a line of the data cache, clean or dirty. The cache
may write back a dirty line (`Evict`) and fetch a line (`Prefetch`) at any
moment; `CleanDataCache` and `InvalidateDataCache` stand where the code has them.

`ImplementsBlockDevice` takes the request, the contents of the card and the
buffer for those of `BlockDevice`. That one says nothing of chunks, polls or
caches: no block outside a write or an erase ever changes, a successful read
returns what the card holds, and a successful flush leaves nothing in the
card's cache.

### FdCan

`Invoke` is the interrupt: it serves everything flagged at once, in the
code's order, and leaves completions (`sendCompletions`), errors
(`pendingErrors`) and frames (`rxQueue`) for the dispatcher. The bus goes
through the error states of the peripheral, up to bus-off, from which it
recovers when the peripheral was started again. `owed` is what the application
must yet hear of: `DispatchError` takes an error out of it when the call of
`onError` begins, so that one of the same kind that comes during the call is
owed a call of its own.

### UartStmDuplexDma

`ReceiveByte` is the DMA: it puts a byte at `position` and raises the half or the
full flag at a boundary. The two interrupts read how far the DMA is and deliver
from `lastReceivedPosition` up to there. `priority` says which of them preempts
the other. Bytes are numbered, so that one delivered from an earlier round of
the buffer shows.

## Runs

All runs finish in minutes. Deadlock is not checked: every one of these systems
rests when nobody asks for anything.

| Run | States | Question |
|---|---|---|
| `flash` | 159 474 | Do pieces stay under semaphore 7, in order and once, and does every request end, whatever CPU2, the interrupts and the NMI do? |
| `upgrade` | 125 872 | Do deletes and installs survive power losses at any step with a true outcome, and end? |
| `image_bytes` | 805 | Does every way to cut up an image program each double word once, with its bytes? |
| `boot` | 123 092 | Does every command end, with exactly its answer when there is one? |
| `boot_flash` | 6 724 | Do the commands cover a write or an erase exactly? |
| `gatt_client` | 69 984 | Is every procedure told its own result? |
| `gap_central` | 535 018 | Is every connect told what became of it, and do the central and the stack agree? |
| `sd_card` | 774 615 | Does the block device keep what `hal::BlockDevice` promises, on a card that refuses, fails, rejects, stays busy or answers late, with a data cache at work? |
| `can` | 1 458 795 | Is every frame sent told its own outcome, does every frame received arrive, and is every loss heard of, while the bus fails and recovers? |
| `uart` | 18 311 | Is every byte delivered once, in order, and not later than the silence after it? |
| `boot_flash_read`, `uart_restart` | | the [findings](#findings) |

Further configurations, each of which TLC finds violated, are
`MCStBootloaderVersion`, `MCStBootloaderRace`, `MCGapCentralL2cap` and
`MCFdCanBusOff`: see [findings](#findings).

### What the properties say

**flash.** `StepHoldsSemaphore`: CPU1 is inside a piece of a request exactly when
it holds semaphore 7. The page erase of `EccErrorHandler` is the one flash
operation that may be under way without it, also while CPU2 holds it, and the
property says so. `ProgramFindsFlashUnlocked`: the NMI that erases a page with an
uncorrectable error, and locks the flash after it, does so only when the code it
interrupted had it locked. `NoLostWakeup`: a piece that waits has something that
will try it again; this is why `TryStep` looks at the semaphore once more after
enabling the interrupt. `EraseActivityKnown`: CPU2 knows of an erase while
a request erases sectors, also when its stack was started in the middle of one;
the page erase of the NMI is not announced.
`ImplementsFlash`: the refinement. `RequestsComplete`: if CPU2 at last leaves the
semaphore alone and is not booting for ever, and the NMI finds no more pages to
erase, every request is reported.

**upgrade.** `OutcomeIsTrue`: an install is reported installed only when FUS
installed it, or failed without a code (`codeless`, see [Findings](#findings)),
and the application is not free to begin again while FUS still works.
`ResetsDoNoHarm` is what a reset at any step must not do: let FUS install an image
that is not complete (`UpgradeFindsImage`), give a command again
(`CommandsBounded`: delete and upgrade once, the clearing reset once, the start of
the stack twice), or have a record written to a double word that a cut-off write
may have touched (`AppendsToErased`). `ProceduresEnd`.

**image_bytes.** `ProgrammedOnceInPlace`: each double word once, with its bytes,
and all of them before FUS is asked. The driver reads the source range at the
time it programs, so a buffer reused too early shows.

**boot.** `DoneInStep`: done means all bytes of the answer were taken, none is left
over, and no error was reported. `AnsweredIsDone`: a target that answers gets no
timeout. `QueueHasRoom` (for a whole block while the dispatcher is busy),
`CommandsEnd`.

**boot_flash.** `DoneExactly`: a write or an erase that is done was carried out
exactly, by commands the bootloader takes. `RequestsEnd` is qualified: when a
command fails, nobody tells the client of `hal::Flash`. Its owner has to observe
`OnError` of the communicator.

**gatt_client.** `OwnOutcome` relates each callback to its own procedure, how that
ended and what the server sent, a long value included; `ReadAsAsked` follows the
one event that stands for two kinds of responses; `AcceptedIsReported` is the
liveness of procedures and of the confirmation of indications.

**gap_central.** `ToldAsItWas` relates what a connect was told to its fate and to
what the stack accepted to end: connected, cancelled, or failed by itself. A connect
is told it timed out when the timer ended it, and also when it had failed by itself
and the timer expired before the dispatcher came to that event (`late`): the timeout
overwrites `connectFailureResult` whether or not there is a connect left to end
(`GapCentralSt.cpp:149`).
`ContextMatchesStack` compares both sides whenever no event is on its way, and
has the code's own assertions on events of links. `RequestsReported` is
qualified for updates and pairings: the callback of one whose link is lost
stays and is called by the next.

**sd_card.** `SuccessIffUndisturbed`: a request succeeds exactly when nothing went
wrong with it. That is violated by an answer taken for another operation's, by a
failed chunk whose report the next one overwrites (why `PostEvent` does not
replace a failure of the operation under way), and by a card that still programs
one chunk when the next begins; its part `ReportUnderway` says that the end of a
transfer is not lost between interrupt and dispatcher. `ImplementsBlockDevice` is
violated when the cache's lines are not dropped after a read: cleaning them
before is not enough. `RequestsEnd`: by its timeouts, if by nothing else.

**can.** `OutcomeIsOwn`: a frame told sent was on the bus, one told failed never
will be. `NothingForgotten`: frames received reach the application once and in
order but for those dropped, and an interrupt or an entry of the dispatcher's
queue is always on its way to what still waits (`FramesUnderway`); for every loss
and bus-off a call of `onError` is still to begin, also when errors that wait are
taken together and when one of the same kind is just being reported, which is why
the code clears `pendingErrors` before the call (`ErrorsUnderway`). `SendsEnd` is
for automatic recovery only: without it, frames in the FIFO wait for an
application that recovers the bus.

**uart.** `BytesInOrder`: each byte once and in order, and the assertion of
`ReceiveComplete` holds. This is why `Invoke` leaves a silence to the DMA's
interrupt when that is pending. `SilenceDelivers`: nothing that came before a
silence waits for another byte, in spite of that.

### Bounds

| Bound | Why it is enough |
|---|---|
| flash of 4 bytes, double words of 2; 2 sectors | a write that begins or ends in the middle of a double word, and has a first, a middle and a last piece; an erase with a sector left |
| `RetryBound` = 3 | an attempt leaves at most two retries; with three in the queue CPU2 no longer interferes, so every combination of one retry running and two waiting is met |
| `MaxInterruptions` = 3 | a power loss, one while resuming from it, and one more in the same step; the retries of the code count to two |
| `JournalCapacity` = 5 | the longest procedure (`installRequested` twice around the reset that clears an error, `upgradeIssued`, the start and its retry) fills all five, so that a sector of five or more never makes `AppendRecord` assert |
| `IdlePollsBeforeDone` = 2 | one poll that does not end a command and one that does |
| image of at most 13 bytes, double words of 4 | three whole double words and one byte; every way to fill a tail from 0 to 3 |
| `MaxData` = 2, `PayloadBytes` = {0x79, 0x1f} | payload that looks like an acknowledgement or a refusal, cut everywhere |
| `MaxFaults` = 1 | what follows a fault starts a new command from the state it left |
| blocks of 4, words of 2, flash of 12 | no block, one short, one, one and a word, two, three blocks; 3 sectors and all |
| `MaxProcedures` = 2 (GATT) | two procedures share the slots; a third finds them as the second left them |
| `MaxResponses` = 2, `PartSize` = 2, `Room` = 3 | a value that fits, fits by a byte less, and does not fit |
| `MaxAttempts` = 2 (GAP) | a late event of one connect meets the next |
| `MaxProcedures`, `MaxEvents` = 1 (GAP) | one update, pairing or discovery besides the connect, and one event of the peer's own, or failed disconnect, at a time |
| card of 3 blocks, chunks of 2, buffers to 3, first blocks 0 to 3 and 5 | less than a chunk, one, one and a rest; ranges within, up to, across and beyond the end, and empty ones |
| `MaxOperations` = 2, `MaxPolls` = 1 (SD) | what one operation leaves queued meets the next; a card ready at once, after a poll, and never |
| `TxFifoSize` = 2, `RxFifoSize` = 1, `RxQueueSize` = 2 (CAN) | a FIFO and a queue that overflow, separately and together |
| `MaxSends` = 2, `MaxFrames` = 3, `MaxBusErrors` = 2 (CAN) | a send after one that failed; frames enough for the queue to be full with one more behind it; a second error while the first is being reported |
| `RxBufferSize` = 8, `MaxBytes` = 20 (UART) | two rounds and a half: every position has been reached twice, each with any number of bytes since the last delivery |

### Fairness

Weak fairness of what the program's own machinery does: the dispatcher runs what
is queued, an enabled interrupt is taken and the NMI ends its page erase, a
running timer expires, a UART or a flash operation ends, the SD card's timeouts
expire, a CAN bus that is up carries a frame, a line without bytes is silent at
last. Of the others only what they owe: FUS finishes what it began, ST's stack
ends a procedure it accepted (an ATT transaction times out after 30 s) and
disconnects when told to. There is none for requests of the application, power
losses, CPU2 taking or releasing the semaphore, a device that may never answer a
connect, a link that may stay for ever, a card that may never be ready, bytes or
frames that arrive. `RequestsComplete` has as its premise what CPU2 owes, and that
errors in the flash do not keep CPU1 in the NMI for ever.

### Assumptions on what is outside the repository

- CPU2 takes semaphore 7 only after `SHCI_C2_SetFlashActivityControl`.
- FUS begins a command within `IdlePollsBeforeDone` polls (`FusBeginsInTime`);
  this is the assumption `Config::idlePollsBeforeDone` itself makes. FUS does not
  report success without having succeeded.
- The ST stack: the two named above; events are neither lost nor reordered.
- The bootloader answers a frame only after it has come completely.
- The application gives the bootloader's communicator no command after an error,
  whose callback it has used up; also not when the race of `MCStBootloaderRace`
  left the list empty.
- SD: `HAL_SD_Abort` succeeds and silences the transfer it aborts; the dispatcher
  is first in, first out, which makes the comparison of operation numbers in
  `HandleEvent` a second line of defence. Errors count as one code.
- CAN: the interrupt is served before the bus has recovered from bus-off and gone
  off again. The application sends a frame after it was told of the previous
  one, as `SendData` asserts.
- UART: the DMA's interrupt is served before the DMA ends the next half, and
  before the line was silent for a receive timeout after it. Without the second,
  TLC finds bytes past the half that wait for the next byte: the UART's interrupt
  leaves the silence to the DMA's, which delivers up to the half only. The UART's
  interrupt has no higher priority than the DMA's, although
  `Config::priority` (`UartStm.hpp:29`) allows it: `Priorities` with `"uart"` makes
  the assertion of `UartStmDuplexDma.cpp:108` fail, as the DMA's interrupt goes on
  with the half it computed before it was preempted. Reception is started and
  stopped while no interrupt is under way; started again only in `uart_restart`.

## Findings

| Run | What it shows |
|---|---|
| `boot_flash_read` | `ReadBuffer` gives `ReadMemory` a reference to a local variable that is used after it returned. |
| `uart_restart` | `ReceiveData` after `ReceiveData(nullptr)` starts the DMA at the front of the buffer while `lastReceivedPosition` stays: at the first silence the assertion that positions ascend fails, or the first bytes are never delivered. |

`PROJECT.json` quotes what each contradicts. Four more have a configuration of
their own here, and TLC finds the property named in it violated:

- `MCStBootloaderVersion`, `AnsweredIsDone`. `GetId` leaves `internalRange` at two
  bytes (`StBootloaderCommunicatorUart.cpp:421`); `GetVersion` after it waits for
  a third that has no place, and times out although the target answered. The
  test of `GetVersion` gives it as the first command only. `boot` has every
  command but this one.
- `MCStBootloaderRace`, `NoDoneAfterError`. A timeout that expires while the answer
  waits in the queue reports an error, and the answer then reports done:
  `OnError` (`:330`) leaves the actions, the bytes and the scheduled handler.
- `MCGapCentralL2cap`, `L2capResponseAccepted`. The response to a parameter update
  request is scheduled and asserted to succeed (`GapCentralSt.cpp:400`); the link
  may be gone by then.
- `MCFdCanBusOff`, `SentIsTransmitted`. Bus-off between `sending = true` and the
  frame's entry in the FIFO (`FdCanStm.cpp:200`) aborts a FIFO that does not hold
  the frame and reports it failed. `SendData` then adds it, it is sent after the
  recovery, and its interrupt is taken for that of the next frame, which is
  reported sent before it is. `OutcomeIsOwn` leaves this order out (`raced`).

One more came up while `WirelessUpgrade` was written: an FUS in its error state with
error code 0 makes `UpgradeDone` write an outcome of 0, which the reader of the
record takes for no error: the failed install is reported installed, where
`STM32WB55_Wireless_Coprocessor_Upgrade.md:64` promises 0xff for an error that FUS
did not explain. `FusErrorCodes = {0, 1}` has it in `upgrade`; `codeless` remembers
it, and `OutcomeIsTrue` excepts that case and no other.

## Proofs

Every safety invariant of the passing runs is proved for every value of the
constants; so are both refinements and the action property
`PiecesHeldWhileStarting`. The assumptions are those the modules make of
their constants (sizes and numbers are natural, buffers and double words are not
empty), plus what is named below.

All proofs have one shape. The invariant a run checks is seldom inductive, so a
module defines the one that is, `Inv`, as a conjunction of named parts: the types
first, then one part for each thing several actions have to agree on. Each part
was checked with TLC before it was proved, but those of `StBootloader` that speak of
a history, which TLC cannot enumerate. Then `Init => Inv`, and one lemma per
action (or, where most actions leave a part alone, per part) shows that a step
keeps it; `Invariant` puts them together, and the theorem that names the property
derives it from `Inv`.

### FlashCoordination

For every size of flash, double word and queue:

| Theorem | Invariant behind it | Argument |
|---|---|---|
| `TypeCorrect` | `TypeOK` | each action types the variables it changes; queue facts are in `TailFacts` and `AppendFacts`, the size of a piece in `PieceSizeFits` |
| `PiecesHoldSemaphore`, `ProgramsFindFlashUnlocked` | `SemaphoreInv` | only `LockOutCpu2` enters a piece and only `Release` leaves it. Before the program of a piece `FLASH_CR` is open, so that an NMI there finds it open and leaves it so; the HAL is in use only during a piece or a page erase |
| `ContinuationsUnique` | `ContinuationInv` | what is left of a request is in one place: the pending step, the piece or one event. Retries are not counted: any number may be there |
| `WakeupsNeverLost` | `WakeupInv` | adds that between enabling the interrupt and the second look the interrupt is still enabled or has scheduled a retry, and that a piece under way is not pending; with `SemaphoreInv`, a refused lock means that CPU2 holds the semaphore and will set the flag when it releases it |
| `EraseActivityAlwaysKnown` | `EraseInv` | adds that what CPU1 remembers having reported is what CPU2 was told, that it is told before the lock is tried, and that the report is withdrawn before the request is finished |
| `PiecesHeldWhileStarting` | `StartingInv` | no piece is under way while CPU2 starts, and `TryStep` looks before it locks; an action property |
| `ImplementsFlashService` | `RefinementInv` | the refinement. A step that is pending or performed is of a request with something left, and `Finish` is queued only when nothing is. Then the requests, `Release` and `DispatchFinish` are the steps of `FlashService`, and every other action leaves `request` alone; `SameDoubleWord` shows that a piece ends in the double word it began in |

### WirelessUpgrade

For every number of losses of power, of polls and of error codes, and journals of
every length:

| Theorem | Invariant behind it | Argument |
|---|---|---|
| `TypeCorrect` | `Types` | groups of variables are typed one at a time, each against the actions that write it |
| `ToldTheTruth` | `OutcomeInv` | an outcome of "installed" is reported when the journal is erased, and the record that starts the stack has no error only when FUS did install, or showed an error without a code. That crosses two resets as a number in a record, so `JournalInv`, `AppendInv`, `EraseInv` and `WaitInv` each say it of the place the number is in |
| `LossesOfPowerDoNoHarm` | `JournalInv`, `CommandInv`, `ReadInv`, `FusInv` | a step of the journal bounds its length (a request may be there twice, and each later step adds one record), the commands given by then, and what lies complete below the secure flash. `ReadInv` says that what CPU1 remembers is the journal's, or nothing after a reset; `FusInv`, that FUS works on the command of the last record |

`TypeCorrect` has no assumption. The two others take `FusBeginsInTime`: FUS begins a
command within `IdlePollsBeforeDone` polls, without which the code itself counts
a command as done that has not begun. FUS may fail with any code, 0 included.
`LossesOfPowerDoNoHarm` takes a sector of five records or more; the code's has
512.

### WirelessImage

For every size of a double word and every size of an image, and however the image
is cut. The module's names are its own (`ImageSpec`, `ImageTypeOK`), so that
`WirelessUpgradeProofs` extends it and `WirelessUpgrade` together.

| Theorem | Invariant behind it | Argument |
|---|---|---|
| `BytesTypeCorrect`, `ImageProgrammed` | `BytesInv` | every byte given is in flash, in the write under way, in `tail` or in `pending`, at its place: one part per callback that is awaited (`IdleInv`, `TailInv`, `AlignedInv`, `LastInv`). `MemoryInv`: the flash holds the image up to where the write under way begins, which is the beginning of a double word, and nothing behind it. `Apart` (two multiples of a double word less than one apart are equal) bounds the last address |

### StBootloader

For every set of commands, every size of the data up to `MaxData`, every number
of faults and whatever bytes the target has:

| Theorem | Invariant behind it | Argument |
|---|---|---|
| `Invariant` | `Inv` | Nothing in a byte says which action it answers, so that the invariant needs a history. A `History` has the list of the command, the `stream` the target sent, where in it the answer to each action ends (`ends`), how many of its bytes are data (`data`), and the last action `answered`; `Aligned` is that the state is one that some history and some number of bytes `taken` explain |
| `TypeCorrect` | `ListInv`, `HostInv` | what is left of the list is the end of a list that some command has, and those are at most 12 long (`CommandsLegal` goes through the commands); of a buffer no more is received than it has |
| `AnsweredInStep` | `HostInv`, `StreamInv`, `FlightInv`, `OutcomeInv` | what was taken ends where the answers to the executed actions do, so that nothing is left in the queue or on the line when all of them were executed, and what the caller got is what was sent. Bytes sent out of turn come before an acknowledgement that has not come, where `AckSent` has the host pass over them |
| `NeverGivenUp` | `TriedInv`, `RangeInv`, `AnswerInv` | without a fault, bytes that can be handled have a handler scheduled or running, and a target that is silent has either answered or waits for the host to complete a frame; `AnsweredHasBytes` shows that in the first case the queue has bytes to handle, so that `Quiet` never holds |
| `MemoryFits` | `PartsInv`, `ListInv`, `StreamInv` | the target is never more than one frame ahead: `ReadMemoryFits` counts the bytes between what the host has executed and what was answered |

`NeverGivenUp` takes `RangeKept`: the application does not give both `GetId` and
`GetVersion`, without which the property is false (see [Findings](#findings)). The
other four have no assumption but those on the constants. A step has to show which
part of the stream it takes or adds, and the lemmas are cut along that: `Advance`
for the execution of an action, `FlightTaken` and `BytesTaken` for the queue,
`AnswersGrow`, `NoiseGrows` and `FrameSent` for the three ways in which the
history grows.

### FlashOnStBootloader

For every size of the flash, of a block and of a word. The module's names are its
own (`FlashSpec`, `FlashTypeOK`), so that `StBootloaderProofs` extends it and
`StBootloader` together.

| Theorem | Invariant behind it | Argument |
|---|---|---|
| `FlashTypeCorrect`, `RequestsDoneExactly` | `TransferInv`, `EraseInv` | between two commands the request is three adjoining ranges: what is carried out, the command, the tail. A command of whole words leaves a tail of whole words. `WrittenExactly` and `ErasedExactly` say what is so at the end |

### GattClientConnection

For every number of procedures and responses, and every size of a part and of the
vector:

| Theorem | Invariant behind it | Argument |
|---|---|---|
| `TypeCorrect` | `Types` | no assumption on the stack: the vector has room for what it is given |
| `OutcomesOwn`, `ResponsesReadAsAsked` | `QueueInv`, `StackInv`, `ClientInv`, `AnswerInv` | the events on their way are of one procedure and end with its completion, and the client's operation is that procedure until its callback is called. For a long value, the responses on their way continue what was received: `Carries` numbers the bytes of each event |

The last two take `FreesWhenHandled`, the assumption on the stack described
[above](#gattclientconnection-and-gapcentral).

### GapCentral

For every number of connects, procedures and events of the peer:

| Theorem | Invariant behind it | Argument |
|---|---|---|
| `TypeCorrect` | `Types`, `TimerInv` | no assumption on the stack |
| `ConnectsToldAsItWas` | `AttemptInv`, `ConnectInv`, `ToldInv` | the callback of a connect is in place until its end is handled; the result it is told is the kept one, which is another than "connectionFailed" only when the host ended the connect so, or the timer expired with its end already queued (`ResultIs`); what is told stays true, as nothing of a later connect changes what was asked of it (`ToldOfAnother`) |
| `ContextIsTheStacks` | `QueueInv`, `LinkInv`, `DiscoveryInv` | where central and stack differ about the link or a discovery, the event that says so is in the queue, and events of a link are between its connection and its disconnection |

The last two take `FreesWhenHandled`.

### SdmmcBlockDevice

For every size of the card, of a chunk and of the requests:

| Theorem | Invariant behind it | Argument |
|---|---|---|
| `SuccessExactlyWhenUndisturbed` | `QueueInv`, `TransferInv`, `DisturbedInv` | the queue holds one entry of a kind at most, and what it holds is of the operation under way. A transfer is moving, or ended and not reported, or its report waits |
| `TypeCorrect` | `CursorInv`, and the above | the cursor is behind what was moved, within the request, which was checked to be on the card |
| `ImplementsTheBlockDevice` | `CursorInv`, `CardInv`, `BufferInv` | the refinement of `BlockDevice`: `Begin` is the request, each block the DMA or the card moves is a step of it, `Finish` the report, and all else leaves the variables of `BlockDevice` alone. That what is read is what the card holds needs that no line of the data cache is dirty over the buffer |

### FdCan

For every depth of the FIFOs, size of the queue and number of frames:

| Theorem | Invariant behind it | Argument |
|---|---|---|
| `TypeCorrect` | `Types` | with `SendInv` for the depth of the sending FIFO |
| `OutcomesOwn` | `SendInv`, `OwnInv` | a frame is under way, then its completion waits, then its sender knows: one place at a time. Until bus-off comes amid `SendData` (`raced`, see [Findings](#findings)) the FIFO holds that frame or none |
| `NothingIsForgotten` | `FramesInv`, `ErrorsInv` | the frames delivered, queued and in the FIFO are in that order those that arrived and were not lost; while one is queued, an interrupt or an entry of the dispatcher's queue comes for it. An error in `pendingErrors` has an entry in the queue, and loses both in one step, in which it is no longer owed |

### UartStmDuplexDma

For every even size of the buffer and any number of bytes:

| Theorem | Invariant behind it | Argument |
|---|---|---|
| `TypeCorrect` | `Types` | also when reception is started again and again, and whatever the priorities |
| `BytesOfOneReceptionInOrder`, `BytesInOrderWhenStartedOnce` | `ReceptionInv` | the buffer holds the last bytes that arrived (`BufferInv`); `lastReceivedPosition` is behind the boundary that is due, at or past the one before (`TakenInv`); what is being delivered is still there (`DeliverInv`). All three are of `Round`, the number of bytes before the DMA was last at the front |

The first of these takes `[]OneReception`: reception was started once and the
UART's interrupt does not preempt the DMA's. `uart_restart` and the assumption on
the priorities show why it cannot go. The second has no hypothesis on the
behaviour: a program that starts reception once, on such a board.

### What stays with TLC

Liveness (every `~>`) needs ENABLED, which TLAPS does not reason about. The runs
that expect a violation, and the configurations in [Findings](#findings), are
counterexamples.

## Not modelled

`PROJECT.json` lists every other component with the reason. In short: drivers
whose state is one register setting or one transfer; decorators that log;
synchronous drivers; construction; the validation firmware and the demos; ST's
own code. Inside the components that are modelled: the contents of flash (but in
`WirelessImage`), checksums of the bootloader protocol, which of several GATT
connections an event is for, what is discovered, the contents of advertising
reports, the settings of pairing, the identification of the SD card and the
destructor of its driver, the codes of SD errors, CAN filters, bit timing and the
contents of frames, the sending half of the UART and its variants without DMA.

## Plan

In order of what can go wrong:

1. `FlashCoordination` with `FlashService`: done and proved, but for liveness.
2. `WirelessUpgrade`, `WirelessImage`: done and proved.
3. `StBootloader`, `FlashOnStBootloader`: done and proved. That the first implements
   the communicator the second assumes is worth an abstract specification.
4. `GattClientConnection`: done and proved. To add: how `GattClientSt` allocates and
   releases connections.
5. `GapCentral`: done and proved. To add: `GapPeripheral` on the same `GapSt`, with
   the completions it schedules by reference.
6. `SdmmcBlockDevice` with `BlockDevice`: done and proved.
7. `FdCan`: done and proved. To add: `CanStm`.
8. `UartStmDuplexDma`: done and proved.
9. `TransportLayer`: coalesced notifications (STM32WB), the event queue with its
   flow control (STM32WBA).
10. `SpiMasterDma`, `SpiSlaveDma`.
11. `EthernetRings`.
12. `GattServer`: long writes, notifications, indications.
13. `I2c`.
