-------------------------- MODULE FlashCoordination --------------------------
(***************************************************************************)
(* hal::FlashCoordinatedWithWirelessStack: an STM32WB55's CPU1 carries out *)
(* requests to write and to erase one double word or one sector at a time, *)
(* each piece with interrupts disabled and only while it holds hardware    *)
(* semaphore 7, by which CPU2 protects its radio events.  The handler of   *)
(* its NMI erases a page without the semaphore.                            *)
(*                                                                         *)
(* TryStep, the interrupt handlers of CPU1 and the steps of CPU2           *)
(* interleave between any two accesses to the semaphore peripheral: pc     *)
(* names the access of TryStep that comes next.  With pc = "dispatch" the  *)
(* event dispatcher is between two events.                                 *)
(***************************************************************************)
EXTENDS Naturals, Sequences

CONSTANTS
    DoubleWordSize,   \* bytes the flash programs at once (8 on the STM32WB55)
    FlashSize,        \* bytes of flash the client may write
    NumberOfSectors,  \* sectors of flash the client may erase
    RetryBound        \* bound of the model: see Cpu2Lock

ASSUME DoubleWordSizeAssumption == DoubleWordSize \in Nat \ {0}
ASSUME FlashSizeAssumption == FlashSize \in Nat
ASSUME NumberOfSectorsAssumption == NumberOfSectors \in Nat
ASSUME RetryBoundAssumption == RetryBound \in Nat

VARIABLES
    wirelessStack,          \* what CPU1 knows of CPU2
    operation,              \* the kind of the last request
    eraseActivityReported,
    remaining,              \* buffer.size(): bytes still to be written
    address,                \* where the next byte goes
    currentSector,
    endSector,
    step,                   \* the kind of piece the closure `step` performs
    stepPending,
    onDone,                 \* onDone holds a callback: a request is under way
    pc,                     \* the next access of TryStep, or "dispatch"
    queue,                  \* the event dispatcher's queue
    sem7,                   \* who holds hardware semaphore 7
    hsemFlag,               \* C1ISR: semaphore 7 was released
    hsemEnabled,            \* C1IER: its interrupt is enabled
    crLocked,               \* FLASH_CR is locked against program and erase
    halLocked,              \* pFlash.Lock: a HAL flash operation is under way
    eccError,               \* an uncorrectable ECC error raised the NMI
    pageErase,              \* the NMI's handler erases a page, and how it found FLASH_CR
    flashActivityControl,   \* CPU2 was told to use semaphore 7
    cpu2EraseActivity,      \* the last SHCI_C2_FLASH_EraseActivity CPU2 got
    cpu2Reported            \* CPU2 reported ready since it was booted

request == <<operation, remaining, address, currentSector, endSector, onDone>>
hsem == <<sem7, hsemFlag, hsemEnabled>>
flash == <<crLocked, halLocked, eccError, pageErase>>
cpu2 == <<flashActivityControl, cpu2EraseActivity, cpu2Reported>>
vars == <<wirelessStack, request, eraseActivityReported, step, stepPending,
          pc, queue, hsem, flash, cpu2>>

(* The accesses made with interrupts disabled, after semaphore 7 was locked. *)
Masked == {"unlock", "program", "finish", "relock", "release"}
Events == {"TryStep", "WriteNextDoubleWord", "EraseNextSector", "Finish"}

TypeOK ==
    /\ wirelessStack \in {"stopped", "starting", "running"}
    /\ operation \in {"write", "erase"}
    /\ eraseActivityReported \in BOOLEAN
    /\ remaining \in Nat
    /\ address \in Nat
    /\ currentSector \in Nat
    /\ endSector \in Nat
    /\ step \in {"write", "erase"}
    /\ stepPending \in BOOLEAN
    /\ onDone \in BOOLEAN
    /\ pc \in {"dispatch", "TryStep", "lock", "clear", "enable", "check"} \cup Masked
    /\ queue \in Seq(Events)
    /\ sem7 \in {"free", "cpu1", "cpu2"}
    /\ hsemFlag \in BOOLEAN
    /\ hsemEnabled \in BOOLEAN
    /\ crLocked \in BOOLEAN
    /\ halLocked \in BOOLEAN
    /\ eccError \in BOOLEAN
    /\ pageErase \in {"none", "open", "locked"}
    /\ flashActivityControl \in BOOLEAN
    /\ cpu2EraseActivity \in BOOLEAN
    /\ cpu2Reported \in BOOLEAN

Init ==
    /\ wirelessStack \in {"stopped", "starting", "running"}
    /\ flashActivityControl = (wirelessStack = "running")
    /\ operation = "write"
    /\ eraseActivityReported = FALSE
    /\ remaining = 0
    /\ address = 0
    /\ currentSector = 0
    /\ endSector = 0
    /\ step = "write"
    /\ stepPending = FALSE
    /\ onDone = FALSE
    /\ pc = "dispatch"
    /\ queue = <<>>
    /\ sem7 = "free"
    /\ hsemFlag = FALSE
    /\ hsemEnabled = FALSE
    /\ crLocked = TRUE
    /\ halLocked = FALSE
    /\ eccError = FALSE
    /\ pageErase = "none"
    /\ cpu2EraseActivity = FALSE
    /\ cpu2Reported = FALSE

-----------------------------------------------------------------------------
(* Requests.  `events` is the queue the handler started with.              *)

Finish(events) ==
    /\ queue' = Append(events, "Finish")
    /\ UNCHANGED <<pc, step, stepPending>>

StepWhenCpu2AllowsFlashAccess(kind, events) ==
    /\ step' = kind
    /\ stepPending' = TRUE
    /\ pc' = "TryStep"
    /\ queue' = events

WriteNextDoubleWord(size, events) ==
    IF size = 0
    THEN Finish(events)
    ELSE StepWhenCpu2AllowsFlashAccess("write", events)

(* Mutant: the end of the erase is not reported to CPU2. *)
EraseNextSectorSilent(current, last, events) ==
    /\ IF current = last THEN Finish(events)
                         ELSE StepWhenCpu2AllowsFlashAccess("erase", events)
    /\ UNCHANGED <<eraseActivityReported, cpu2EraseActivity>>

EraseNextSector(current, last, events) ==
    IF current = last
    THEN /\ eraseActivityReported' = FALSE
         /\ cpu2EraseActivity' = (cpu2EraseActivity /\ ~eraseActivityReported)
         /\ Finish(events)
    ELSE /\ StepWhenCpu2AllowsFlashAccess("erase", events)
         /\ UNCHANGED <<eraseActivityReported, cpu2EraseActivity>>

(* A client of hal::Flash has one request under way at a time. *)
WriteBuffer(begin, size) ==
    /\ pc = "dispatch"
    /\ ~onDone
    /\ remaining' = size
    /\ address' = begin
    /\ onDone' = TRUE
    /\ operation' = "write"
    /\ WriteNextDoubleWord(size, queue)
    /\ UNCHANGED <<wirelessStack, eraseActivityReported, currentSector,
                   endSector, hsem, flash, cpu2>>

EraseSectors(begin, end) ==
    /\ pc = "dispatch"
    /\ ~onDone
    /\ currentSector' = begin
    /\ endSector' = end
    /\ onDone' = TRUE
    /\ operation' = "erase"
    /\ EraseNextSector(begin, end, queue)
    /\ UNCHANGED <<wirelessStack, remaining, address, hsem, flash,
                   flashActivityControl, cpu2Reported>>

-----------------------------------------------------------------------------
(* What the application reports of CPU2.  CPU2 boots once per reset of the *)
(* device and then reports, once, whether the stack or FUS runs.           *)

WirelessStackStarting ==
    /\ pc = "dispatch"
    /\ ~cpu2Reported
    /\ wirelessStack = "stopped"
    /\ wirelessStack' = "starting"
    /\ UNCHANGED <<request, eraseActivityReported, step, stepPending, pc,
                   queue, hsem, flash, cpu2>>

(* Mutant: the step held while CPU2 booted is not tried. *)
WirelessStackReadyWithoutTry ==
    /\ pc = "dispatch"
    /\ ~cpu2Reported
    /\ cpu2Reported' = TRUE
    /\ wirelessStack # "running"
    /\ flashActivityControl' = TRUE
    /\ wirelessStack' = "running"
    /\ UNCHANGED <<request, eraseActivityReported, step, stepPending, pc, queue,
                   hsem, flash, cpu2EraseActivity>>

WirelessStackReady ==
    /\ pc = "dispatch"
    /\ ~cpu2Reported
    /\ cpu2Reported' = TRUE
    /\ wirelessStack # "running"
    /\ flashActivityControl' = TRUE
    /\ wirelessStack' = "running"
    /\ pc' = "TryStep"
    /\ UNCHANGED <<request, eraseActivityReported, step, stepPending, queue,
                   hsem, flash, cpu2EraseActivity>>

FirmwareUpgradeServicesReady ==
    /\ pc = "dispatch"
    /\ ~cpu2Reported
    /\ cpu2Reported' = TRUE
    /\ wirelessStack' = "stopped"
    /\ pc' = "TryStep"
    /\ UNCHANGED <<request, eraseActivityReported, step, stepPending, queue,
                   hsem, flash, flashActivityControl, cpu2EraseActivity>>

-----------------------------------------------------------------------------
(* The event dispatcher takes the first event of its queue. *)

DispatchTryStep ==
    /\ pc = "dispatch"
    /\ queue # <<>>
    /\ Head(queue) = "TryStep"
    /\ queue' = Tail(queue)
    /\ pc' = "TryStep"
    /\ UNCHANGED <<wirelessStack, request, eraseActivityReported, step,
                   stepPending, hsem, flash, cpu2>>

DispatchWriteNext ==
    /\ pc = "dispatch"
    /\ queue # <<>>
    /\ Head(queue) = "WriteNextDoubleWord"
    /\ WriteNextDoubleWord(remaining, Tail(queue))
    /\ UNCHANGED <<wirelessStack, request, eraseActivityReported, hsem, flash,
                   cpu2>>

DispatchEraseNext ==
    /\ pc = "dispatch"
    /\ queue # <<>>
    /\ Head(queue) = "EraseNextSector"
    /\ EraseNextSector(currentSector, endSector, Tail(queue))
    /\ UNCHANGED <<wirelessStack, request, hsem, flash, flashActivityControl,
                   cpu2Reported>>

DispatchFinish ==
    /\ pc = "dispatch"
    /\ queue # <<>>
    /\ Head(queue) = "Finish"
    /\ queue' = Tail(queue)
    /\ onDone' = FALSE
    /\ UNCHANGED <<wirelessStack, operation, remaining, address, currentSector,
                   endSector, eraseActivityReported, step, stepPending, pc,
                   hsem, flash, cpu2>>

-----------------------------------------------------------------------------
(* TryStep, one access to the semaphore or the flash controller at a time. *)

TryStepReturns ==
    /\ pc = "TryStep"
    /\ ~stepPending \/ wirelessStack = "starting"
    /\ pc' = "dispatch"
    /\ UNCHANGED <<wirelessStack, request, eraseActivityReported, step,
                   stepPending, queue, hsem, flash, cpu2>>

ReportEraseActivity ==
    IF operation = "erase" /\ wirelessStack = "running" /\ ~eraseActivityReported
    THEN /\ cpu2EraseActivity' = TRUE
         /\ eraseActivityReported' = TRUE
    ELSE UNCHANGED <<cpu2EraseActivity, eraseActivityReported>>

TryStepBegins ==
    /\ pc = "TryStep"
    /\ stepPending
    /\ wirelessStack # "starting"
    /\ ReportEraseActivity
    /\ pc' = "lock"
    /\ UNCHANGED <<wirelessStack, request, step, stepPending, queue, hsem,
                   flash, flashActivityControl, cpu2Reported>>

(* Mutant: the step is performed whatever 1StepLock answers. *)
LockOutCpu2Unchecked ==
    /\ pc = "lock"
    /\ sem7' = IF sem7 = "free" THEN "cpu1" ELSE sem7
    /\ stepPending' = FALSE
    /\ pc' = "unlock"
    /\ UNCHANGED <<wirelessStack, request, eraseActivityReported, step, queue,
                   hsemFlag, hsemEnabled, flash, cpu2>>

(* LL_HSEM_1StepLock; interrupts are disabled from here to Release. *)
LockOutCpu2 ==
    /\ pc = "lock"
    /\ sem7 = "free"
    /\ sem7' = "cpu1"
    /\ stepPending' = FALSE
    /\ pc' = "unlock"
    /\ UNCHANGED <<wirelessStack, request, eraseActivityReported, step, queue,
                   hsemFlag, hsemEnabled, flash, cpu2>>

LockRefused ==
    /\ pc = "lock"
    /\ sem7 # "free"
    /\ pc' = "clear"
    /\ UNCHANGED <<wirelessStack, request, eraseActivityReported, step,
                   stepPending, queue, hsem, flash, cpu2>>

(* FlashInternalStm: unlock the controller, program or erase, lock it. *)
Unlock ==
    /\ pc = "unlock"
    /\ crLocked' = FALSE
    /\ pc' = "program"
    /\ UNCHANGED <<wirelessStack, request, eraseActivityReported, step,
                   stepPending, queue, hsem, halLocked, eccError, pageErase, cpu2>>

(* HAL_FLASH_Program and HAL_FLASHEx_Erase hold pFlash.Lock while they run. *)
Program ==
    /\ pc = "program"
    /\ ~crLocked
    /\ halLocked' = TRUE
    /\ pc' = "finish"
    /\ UNCHANGED <<wirelessStack, request, eraseActivityReported, step,
                   stepPending, queue, hsem, crLocked, eccError, pageErase, cpu2>>

ProgramDone ==
    /\ pc = "finish"
    /\ halLocked' = FALSE
    /\ pc' = "relock"
    /\ UNCHANGED <<wirelessStack, request, eraseActivityReported, step,
                   stepPending, queue, hsem, crLocked, eccError, pageErase, cpu2>>

Relock ==
    /\ pc = "relock"
    /\ crLocked' = TRUE
    /\ queue' = Append(queue, IF step = "write" THEN "WriteNextDoubleWord"
                                                ELSE "EraseNextSector")
    /\ pc' = "release"
    /\ UNCHANGED <<wirelessStack, request, eraseActivityReported, step,
                   stepPending, hsem, halLocked, eccError, pageErase, cpu2>>

(* Mutants: the piece ignores the alignment, or what remains. *)
PieceSizeUnaligned == IF remaining < DoubleWordSize THEN remaining ELSE DoubleWordSize
PieceSizeUnlimited == DoubleWordSize - (address % DoubleWordSize)

PieceSize ==
    LET room == DoubleWordSize - (address % DoubleWordSize)
    IN  IF remaining < room THEN remaining ELSE room

(* The rest of the closure, then LL_HSEM_ReleaseLock. *)
Advance ==
    IF step = "write"
    THEN /\ remaining' = remaining - PieceSize
         /\ address' = address + PieceSize
         /\ UNCHANGED currentSector
    ELSE /\ currentSector' = currentSector + 1
         /\ UNCHANGED <<remaining, address>>

Release ==
    /\ pc = "release"
    /\ Advance
    /\ sem7' = "free"
    /\ hsemFlag' = TRUE
    /\ pc' = "dispatch"
    /\ UNCHANGED <<wirelessStack, operation, endSector, onDone,
                   eraseActivityReported, step, stepPending, queue,
                   hsemEnabled, flash, cpu2>>

ClearFlag ==
    /\ pc = "clear"
    /\ hsemFlag' = FALSE
    /\ pc' = "enable"
    /\ UNCHANGED <<wirelessStack, request, eraseActivityReported, step,
                   stepPending, queue, sem7, hsemEnabled, flash, cpu2>>

EnableInterrupt ==
    /\ pc = "enable"
    /\ hsemEnabled' = TRUE
    /\ pc' = "check"
    /\ UNCHANGED <<wirelessStack, request, eraseActivityReported, step,
                   stepPending, queue, sem7, hsemFlag, flash, cpu2>>

(* Mutant: a release before the flag was cleared is missed. *)
CheckStatusMissing ==
    /\ pc = "check"
    /\ pc' = "dispatch"
    /\ UNCHANGED <<wirelessStack, request, eraseActivityReported, step,
                   stepPending, queue, hsem, flash, cpu2>>

(* The semaphore may have been released before its flag was cleared. *)
CheckStatus ==
    /\ pc = "check"
    /\ IF sem7 = "free"
       THEN /\ hsemEnabled' = FALSE
            /\ queue' = Append(queue, "TryStep")
       ELSE UNCHANGED <<hsemEnabled, queue>>
    /\ pc' = "dispatch"
    /\ UNCHANGED <<wirelessStack, request, eraseActivityReported, step,
                   stepPending, sem7, hsemFlag, flash, cpu2>>

-----------------------------------------------------------------------------
(* Interrupts of CPU1.  The NMI is not masked by PRIMASK, and nothing of   *)
(* CPU1 runs while its handler does.                                       *)

NmiReturned == pageErase = "none"

HsemInterruptHandler ==
    /\ NmiReturned
    /\ pc \notin Masked
    /\ hsemFlag /\ hsemEnabled
    /\ hsemEnabled' = FALSE
    /\ hsemFlag' = FALSE
    /\ queue' = Append(queue, "TryStep")
    /\ UNCHANGED <<wirelessStack, request, eraseActivityReported, step,
                   stepPending, pc, sem7, flash, cpu2>>

EccErrorDetected ==
    /\ ~eccError
    /\ eccError' = TRUE
    /\ UNCHANGED <<wirelessStack, request, eraseActivityReported, step,
                   stepPending, pc, queue, hsem, crLocked, halLocked, pageErase, cpu2>>

(* The handler returns when the HAL is in use, the flash is busy, CPU2's   *)
(* doing included, or FLASH_CR cannot be unlocked.  Otherwise it erases    *)
(* the page at fault, whoever holds semaphore 7.                           *)
EccErrorHandler ==
    /\ NmiReturned
    /\ eccError
    /\ eccError' = FALSE
    /\ \/ UNCHANGED <<crLocked, halLocked, pageErase>>
       \/ /\ ~halLocked
          /\ halLocked' = TRUE
          /\ crLocked' = FALSE
          /\ pageErase' = IF crLocked THEN "locked" ELSE "open"
    /\ UNCHANGED <<wirelessStack, request, eraseActivityReported, step,
                   stepPending, pc, queue, hsem, cpu2>>

(* Mutant: the handler always locks the controller. *)
LockedAfterEraseAlways(wasLocked) == TRUE

(* The controller is locked again if it was locked. *)
LockedAfterErase(wasLocked) == wasLocked

PageErased ==
    /\ ~NmiReturned
    /\ pageErase' = "none"
    /\ halLocked' = FALSE
    /\ crLocked' = LockedAfterErase(pageErase = "locked")
    /\ UNCHANGED <<wirelessStack, request, eraseActivityReported, step,
                   stepPending, pc, queue, hsem, eccError, cpu2>>

-----------------------------------------------------------------------------
(* CPU2 takes semaphore 7 around its radio events once it was told to.     *)
(* It may release it inside the window of TryStep in which one attempt     *)
(* leaves two retries behind and take it again before each of them, any    *)
(* number of times: RetryBound caps how long it keeps that up.             *)

Cpu2Lock ==
    /\ flashActivityControl
    /\ Len(queue) < RetryBound
    /\ sem7 = "free"
    /\ sem7' = "cpu2"
    /\ UNCHANGED <<wirelessStack, request, eraseActivityReported, step,
                   stepPending, pc, queue, hsemFlag, hsemEnabled, flash, cpu2>>

Cpu2Release ==
    /\ sem7 = "cpu2"
    /\ sem7' = "free"
    /\ hsemFlag' = TRUE
    /\ UNCHANGED <<wirelessStack, request, eraseActivityReported, step,
                   stepPending, pc, queue, hsemEnabled, flash, cpu2>>

-----------------------------------------------------------------------------
Client ==
    /\ NmiReturned
    /\ \/ \E begin \in 0 .. FlashSize : \E size \in 0 .. (FlashSize - begin) :
            WriteBuffer(begin, size)
       \/ \E begin \in 0 .. NumberOfSectors : \E end \in begin .. NumberOfSectors :
            EraseSectors(begin, end)

Boot ==
    /\ NmiReturned
    /\ \/ WirelessStackStarting
       \/ WirelessStackReady
       \/ FirmwareUpgradeServicesReady

Dispatcher ==
    /\ NmiReturned
    /\ \/ DispatchTryStep
       \/ DispatchWriteNext
       \/ DispatchEraseNext
       \/ DispatchFinish

TryStep ==
    /\ NmiReturned
    /\ \/ TryStepReturns
       \/ TryStepBegins
       \/ LockOutCpu2
       \/ LockRefused
       \/ Unlock
       \/ Program
       \/ ProgramDone
       \/ Relock
       \/ Release
       \/ ClearFlag
       \/ EnableInterrupt
       \/ CheckStatus

Interrupts ==
    \/ HsemInterruptHandler
    \/ EccErrorDetected
    \/ EccErrorHandler
    \/ PageErased

Cpu2 ==
    \/ Cpu2Lock
    \/ Cpu2Release

Next == Client \/ Boot \/ Dispatcher \/ TryStep \/ Interrupts \/ Cpu2

(* The dispatcher runs whatever is queued, code runs to completion, the    *)
(* erase of a page ends and an enabled interrupt is taken; requests, boot  *)
(* events, CPU2 and the ECC owe nothing.                                   *)
Fairness ==
    /\ WF_vars(Dispatcher)
    /\ WF_vars(TryStep)
    /\ WF_vars(HsemInterruptHandler)
    /\ WF_vars(PageErased)

Spec == Init /\ [][Next]_vars
FairSpec == Spec /\ Fairness

-----------------------------------------------------------------------------
(* Properties. *)

Has(q, e) == \E i \in DOMAIN q : q[i] = e

(* The events that carry a request on: every one but the retries. *)
NoSequel(q) == \A i \in DOMAIN q : q[i] = "TryStep"
OneSequel(q) ==
    \A i, j \in DOMAIN q : q[i] # "TryStep" /\ q[j] # "TryStep" => i = j

(* What a request programs or erases is programmed or erased only while    *)
(* CPU1 holds semaphore 7, so never in the middle of a radio event CPU2    *)
(* protects by holding it itself; and CPU1 keeps it for nothing else.  The *)
(* one flash operation that may be under way without the semaphore is the  *)
(* erase of a page by EccErrorHandler, which does not ask for it.          *)
StepHoldsSemaphore ==
    /\ pc \in Masked <=> sem7 = "cpu1"
    /\ halLocked => sem7 = "cpu1" \/ pageErase # "none"

(* The NMI may erase a page between HAL_FLASH_Unlock and the program it    *)
(* was meant for: that program must still find FLASH_CR unlocked and the   *)
(* HAL free, or the HAL fails and the driver asserts.                      *)
ProgramFindsFlashUnlocked == pc = "program" /\ NmiReturned => ~crLocked /\ ~halLocked

(* A step that waits for semaphore 7 always has something that will try it *)
(* again: an event, the rest of TryStep, or an interrupt that is enabled   *)
(* and either pending or still to come from the CPU that holds it.         *)
NoLostWakeup ==
    stepPending /\ wirelessStack # "starting" =>
        \/ pc \in {"TryStep", "lock", "clear", "enable"}
        \/ Has(queue, "TryStep")
        \/ hsemEnabled /\ (hsemFlag \/ sem7 = "cpu2")
        \/ pc = "check" /\ sem7 = "free"

(* Every sector a request erases is announced to a wireless stack that     *)
(* runs: CPU2 knows of an erase for as long as sectors are erased, and of  *)
(* none when no request to erase is under way.  The page EccErrorHandler   *)
(* erases is not announced, nor is it part of this.                        *)
EraseActivityKnown ==
    /\ pc \in Masked /\ step = "erase" /\ wirelessStack = "running" => cpu2EraseActivity
    /\ cpu2EraseActivity => onDone /\ operation = "erase"

(* What is left of a request is in one place: the pending step, the piece  *)
(* being performed or one event.  Nothing performs a piece twice.          *)
OneContinuation ==
    /\ OneSequel(queue)
    /\ ~NoSequel(queue) => ~stepPending /\ onDone /\ pc \notin Masked \ {"release"}
    /\ pc \in Masked => ~stepPending /\ onDone /\ step = operation
    /\ stepPending => onDone /\ step = operation

(* While CPU2 boots, no step is started: the one under way waits for       *)
(* WirelessStackReady or FirmwareUpgradeServicesReady.                     *)
HeldWhileStarting == [][wirelessStack = "starting" => pc' \notin Masked]_vars

Service == INSTANCE FlashService WITH
    kind <- IF onDone THEN operation ELSE "idle",
    next <- IF operation = "write" THEN address ELSE currentSector,
    end <- IF operation = "write" THEN address + remaining ELSE endSector

(* Piece by piece, in order, once, and reported done once after the last.  *)
ImplementsFlash == Service!Spec

(* Once CPU2 leaves semaphore 7 alone and is not booting, and the NMI no   *)
(* longer interrupts with pages to erase, every request is reported done.  *)
RequestsComplete ==
    (<>[](sem7 # "cpu2") /\ <>[](wirelessStack # "starting") /\ <>[]NmiReturned)
        => (onDone ~> ~onDone)
=============================================================================
