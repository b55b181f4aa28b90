-------------------------- MODULE SdmmcBlockDevice --------------------------
(***************************************************************************)
(* hal::SdmmcBlockDeviceStm: hal::BlockDevice on an SD card or an eMMC.    *)
(* A request goes to the peripheral's own DMA in chunks; its interrupt,    *)
(* the timer and the completion all run on the dispatcher, in the order of *)
(* its queue.  Around it: the peripheral and its driver, the card that is  *)
(* busy after a write, an erase or a flush, and the data cache, which may  *)
(* fetch and write back lines of the buffer at any moment.                 *)
(***************************************************************************)
EXTENDS Integers, Sequences

CONSTANTS
    NumberOfBlocks,
    MaxBlocksPerTransfer,
    MaxPolls,       \* busyTimeout / busyPollInterval
    FirstBlocks,    \* the first blocks asked for
    MaxBlocks,      \* the largest buffer, in blocks
    MaxOperations   \* bound of the model

ASSUME NumberOfBlocksAssumption == NumberOfBlocks \in Nat
ASSUME MaxBlocksPerTransferAssumption == MaxBlocksPerTransfer \in Nat \ {0}
ASSUME BoundsAssumption == {MaxPolls, MaxBlocks, MaxOperations} \subseteq Nat /\ FirstBlocks \subseteq Nat

VARIABLES
    cardPresent,
    onDone,                 \* a request is under way
    operation, operationId, phase,
    next,                   \* cursor, nextBlock and blocksLeft
    chunkBlocks,
    readBuffer,             \* its size in blocks
    completionResult,
    remainingPolls,
    timer,                  \* "off", "transfer" or "poll"
    pendingEvent, pendingEventOperation, eventScheduled,
    queue,                  \* of the dispatcher
    transfer,               \* what the peripheral does or has to report
    moved,                  \* blocks of the chunk the DMA has moved
    content, unflushed,     \* of the card, as in BlockDevice
    busy,                   \* the card is programming or erasing
    flushing,               \* it is writing its cache
    cache,                  \* it has a cache
    buffer,                 \* the request's buffer: memory and data cache
    (* Kept by the model: what was asked and told, and the last operation   *)
    (* that was refused, or that something went wrong in.                   *)
    request, told, disturbed

task == <<onDone, operation, operationId, readBuffer, request>>
progress == <<next, chunkBlocks>>
control == <<phase, completionResult, remainingPolls, timer>>
events == <<pendingEvent, pendingEventOperation, eventScheduled>>
peripheral == <<transfer, moved>>
card == <<content, unflushed, busy, flushing>>
constants == <<cardPresent, cache>>
vars == <<task, progress, control, events, queue, peripheral, card, constants, buffer, told, disturbed>>

Block == 0 .. NumberOfBlocks - 1
Least(a, b) == IF a < b THEN a ELSE b
NoRequest == [kind |-> "none", first |-> 0, end |-> 0, id |-> 0]
At(cursor, block, left) == [cursor |-> cursor, block |-> block, left |-> left]

Init ==
    /\ cardPresent \in BOOLEAN /\ cache \in BOOLEAN
    /\ onDone = FALSE /\ operation = "none" /\ operationId = 0 /\ phase = "idle"
    /\ next = At(0, 0, 0) /\ chunkBlocks = 0
    /\ readBuffer = 0 /\ completionResult = "success" /\ remainingPolls = 0 /\ timer = "off"
    /\ pendingEvent = "none" /\ pendingEventOperation = 0 /\ eventScheduled = FALSE
    /\ queue = <<>> /\ transfer = "none" /\ moved = 0
    /\ content = [block \in Block |-> <<0, block>>]
    /\ unflushed = {} /\ busy = FALSE /\ flushing = FALSE
    /\ buffer = <<>> /\ request = NoRequest
    /\ told = [result |-> "none", data |-> <<>>] /\ disturbed = 0

-----------------------------------------------------------------------------
(* The data cache.  A line of the buffer (here as large as a block) is     *)
(* absent, clean or dirty; the processor sees the line when there is one,  *)
(* and the DMA always the memory.                                          *)

Absent(value) == [memory |-> value, line |-> "absent", cached |-> <<>>]
Clean(value) == [memory |-> value, line |-> "clean", cached |-> value]
Dirty(value) == [memory |-> <<>>, line |-> "dirty", cached |-> value]

CleanDataCache(lines) == [i \in DOMAIN lines |-> IF lines[i].line = "dirty" THEN Clean(lines[i].cached) ELSE lines[i]]
(* Mutant: the lines of the buffer survive the read. *)
InvalidateNothing(lines) == lines

InvalidateDataCache(lines) == [i \in DOMAIN lines |-> Absent(lines[i].memory)]
Seen(entry) == IF entry.line = "absent" THEN entry.memory ELSE entry.cached

Evict(i) ==
    /\ buffer[i].line # "absent"
    /\ buffer' = [buffer EXCEPT ![i] = Absent(IF @.line = "dirty" THEN @.cached ELSE @.memory)]

Prefetch(i) ==
    /\ buffer[i].line = "absent"
    /\ buffer' = [buffer EXCEPT ![i] = Clean(@.memory)]

DataCache ==
    /\ phase \in {"transferring", "completing"}
    /\ \E i \in DOMAIN buffer : Evict(i) \/ Prefetch(i)
    /\ UNCHANGED <<task, progress, control, events, queue, peripheral, card, constants, told, disturbed>>

-----------------------------------------------------------------------------
(* The end of an operation, and the start of a chunk; q is the             *)
(* dispatcher's queue at that moment.                                      *)

Complete(result, q) ==
    IF phase = "completing"
    THEN queue' = q /\ UNCHANGED <<phase, completionResult, timer>>
    ELSE /\ timer' = "off"
         /\ phase' = "completing"
         /\ completionResult' = result
         /\ queue' = Append(q, "Finish")

(* Mutant: a chunk is not timed. *)
StartNoTimer == UNCHANGED timer

StartTimer == timer' = "transfer"

(* The driver refuses a transfer to a busy card, and may refuse another.   *)
(* That a later chunk meets a busy card would be the code's own doing.     *)
StartChunk(at, q) ==
    /\ next' = at
    /\ chunkBlocks' = Least(at.left, MaxBlocksPerTransfer)
    /\ \/ /\ ~busy
          /\ transfer' = "moving"
          /\ moved' = 0
          /\ phase' = "transferring"
          /\ StartTimer
          /\ queue' = q
          /\ UNCHANGED <<completionResult, disturbed>>
       \/ /\ Complete("failed", q)
          /\ disturbed' = IF busy /\ phase # "idle" THEN disturbed ELSE operationId'
          /\ UNCHANGED peripheral

ContinueOrComplete(at, q) ==
    IF at.left = 0
    THEN /\ Complete("success", q)
         /\ next' = at
         /\ UNCHANGED <<chunkBlocks, peripheral, disturbed>>
    ELSE StartChunk(at, q)

(* What the card answers when asked; the question or the answer may get    *)
(* lost, and a flush it rejected shows in this answer only.                *)
CardStates(isBusy, rejected) ==
    IF rejected THEN {"error"} ELSE {"error", IF isBusy THEN "busy" ELSE "transfer"}

PollCard(state, polls, doing, at, q) ==
    /\ \/ /\ state = "error" \/ (state = "busy" /\ polls = 0)
          /\ Complete(IF state = "error" THEN "failed" ELSE "timeout", q)
          /\ disturbed' = operationId'
          /\ next' = at
          /\ UNCHANGED <<chunkBlocks, peripheral>>
       \/ /\ state = "transfer" /\ doing = "write"
          /\ ContinueOrComplete(at, q)
       \/ /\ state = "transfer" /\ doing # "write"
          /\ Complete("success", q)
          /\ UNCHANGED <<progress, peripheral, disturbed>>
       \/ /\ state = "busy" /\ polls # 0
          /\ phase' = "waitingForCard"
          /\ timer' = "poll"
          /\ next' = at
          /\ queue' = q
          /\ UNCHANGED <<chunkBlocks, completionResult, peripheral, disturbed>>
    /\ remainingPolls' = IF state = "busy" /\ polls # 0 THEN polls - 1 ELSE polls

WaitForCard(isBusy, rejected, doing, at, q) ==
    \E state \in CardStates(isBusy, rejected) : PollCard(state, MaxPolls, doing, at, q)

-----------------------------------------------------------------------------
(* The requests. *)

Begin(kind, first, end, blocks) ==
    /\ ~onDone
    /\ operationId < MaxOperations
    /\ onDone' = TRUE
    /\ operationId' = operationId + 1
    /\ operation' = kind
    /\ readBuffer' = IF kind = "read" THEN blocks ELSE 0
    /\ request' = [kind |-> kind, first |-> first, end |-> end, id |-> operationId']
    /\ UNCHANGED <<events, constants, told>>

CompleteAtOnce(result) ==
    /\ Complete(result, queue)
    /\ disturbed' = IF result = "success" THEN disturbed ELSE operationId'
    /\ UNCHANGED <<progress, remainingPolls, peripheral, card>>

(* Mutant: the end of the range, in eight values, wraps. *)
IsValidRangeWrapping(first, blocks) == (first + blocks) % 8 <= NumberOfBlocks

IsValidRange(first, blocks) == first <= NumberOfBlocks /\ blocks <= NumberOfBlocks - first

RequestTransfer(kind, first, blocks, lines) ==
    LET started == cardPresent /\ blocks # 0 /\ IsValidRange(first, blocks)
    IN  /\ Begin(kind, first, first + blocks, IF started THEN blocks ELSE 0)
        /\ IF started
           THEN /\ buffer' = CleanDataCache(lines)
                /\ StartChunk(At(0, first, blocks), queue)
                /\ UNCHANGED <<remainingPolls, card>>
           ELSE /\ buffer' = lines
                /\ CompleteAtOnce(IF ~cardPresent THEN "notPresent"
                                  ELSE IF blocks = 0 THEN "success" ELSE "outOfRange")

(* The cache may have lines of the buffer, with what the application wrote *)
(* there: anything, or the blocks to write.                                *)
ReadBlocks ==
    \E first \in FirstBlocks, blocks \in 0 .. MaxBlocks, line \in {Absent(<<>>), Dirty(<<>>)} :
        RequestTransfer("read", first, blocks, [i \in 1 .. blocks |-> line])

WriteBlocks ==
    \E first \in FirstBlocks, blocks \in 0 .. MaxBlocks, cached \in BOOLEAN :
        LET data(i) == <<operationId + 1, i - 1>>
        IN  RequestTransfer("write", first, blocks,
                            [i \in 1 .. blocks |-> IF cached THEN Dirty(data(i)) ELSE Absent(data(i))])

LastErased(end) == end - 1

(* An SD card erases the blocks, and an eMMC without trim leaves them.     *)
Erase(first, last) ==
    \/ CompleteAtOnce("failed")
    \/ /\ WaitForCard(busy, FALSE, "erase", next, queue)
       /\ UNCHANGED card
    \/ /\ ~busy
       /\ busy' = TRUE
       /\ content' = [block \in Block |-> IF block \in first .. last THEN <<>> ELSE content[block]]
       /\ WaitForCard(TRUE, FALSE, "erase", next, queue)
       /\ UNCHANGED <<unflushed, flushing>>

EraseBlocks ==
    \E begin \in FirstBlocks, end \in FirstBlocks :
        /\ Begin("erase", begin, end, 0)
        /\ buffer' = <<>>
        /\ IF ~cardPresent THEN CompleteAtOnce("notPresent")
           ELSE IF begin > end \/ end > NumberOfBlocks THEN CompleteAtOnce("outOfRange")
           ELSE IF begin = end THEN CompleteAtOnce("success")
           ELSE Erase(begin, LastErased(end))

(* Only a card with a cache is given a command; a busy one rejects it.     *)
Flush ==
    /\ Begin("flush", 0, 0, 0)
    /\ buffer' = <<>>
    /\ IF cardPresent
       THEN \/ CompleteAtOnce("failed")
            \/ /\ ~cache
               /\ WaitForCard(busy, FALSE, "flush", next, queue)
               /\ UNCHANGED card
            \/ /\ cache
               /\ WaitForCard(busy, TRUE, "flush", next, queue)
               /\ UNCHANGED card
            \/ /\ cache /\ ~busy
               /\ busy' = TRUE /\ flushing' = TRUE
               /\ WaitForCard(TRUE, FALSE, "flush", next, queue)
               /\ UNCHANGED <<content, unflushed>>
       ELSE CompleteAtOnce("notPresent")

-----------------------------------------------------------------------------
(* The interrupt and the dispatcher.                                       *)

Handling(entry) == queue # <<>> /\ Head(queue) = entry

(* Mutant: the last callback is what counts. *)
PendingLatest(pending, event) == event

Pending(pending, event) == IF pending = "failed" THEN pending ELSE event

(* What the driver calls back with, in the order it does: when the stop    *)
(* command failed it still reports the transfer.                           *)
Posted ==
    LET failed == IF transfer = "ended" THEN pendingEvent ELSE Pending(pendingEvent, "failed")
    IN  IF transfer = "failed" THEN failed ELSE Pending(failed, "transferred")

HandleInterrupt ==
    /\ Handling("HandleInterrupt")
    /\ IF transfer \in {"ended", "failed", "stopFailed"}
       THEN /\ pendingEvent' = Posted
            /\ pendingEventOperation' = IF pendingEvent = "failed" THEN pendingEventOperation ELSE operationId
            /\ eventScheduled' = TRUE
            /\ queue' = Tail(queue) \o IF eventScheduled THEN <<>> ELSE <<"HandleEvent">>
            /\ transfer' = "none"
       ELSE queue' = Tail(queue) /\ UNCHANGED <<events, transfer>>
    /\ UNCHANGED <<task, progress, control, moved, card, constants, buffer, told, disturbed>>

ChunkTransferred(q) ==
    LET at == At(next.cursor + chunkBlocks, next.block + chunkBlocks, next.left - chunkBlocks)
    IN  IF operation = "write"
        THEN WaitForCard(busy, FALSE, "write", at, q)
        ELSE ContinueOrComplete(at, q) /\ UNCHANGED remainingPolls

HandleEvent ==
    /\ Handling("HandleEvent")
    /\ UNCHANGED <<task, pendingEventOperation, card, constants, buffer, told>>
    /\ eventScheduled' = FALSE
    /\ pendingEvent' = "none"
    /\ IF phase = "transferring" /\ pendingEvent # "none" /\ pendingEventOperation = operationId
       THEN IF pendingEvent = "failed"
            THEN /\ Complete("failed", Tail(queue))
                 /\ UNCHANGED <<progress, remainingPolls, peripheral, disturbed>>
            ELSE ChunkTransferred(Tail(queue))
       ELSE queue' = Tail(queue) /\ UNCHANGED <<progress, control, peripheral, disturbed>>

(* Abort stops the DMA; what the card got of a write it goes on to program. *)
OnTransferTimeout ==
    /\ timer = "transfer"
    /\ Complete("timeout", queue)
    /\ disturbed' = operationId
    /\ transfer' = "none"
    /\ busy' = (busy \/ operation = "write")
    /\ UNCHANGED <<task, progress, remainingPolls, events, moved, content, unflushed, flushing, constants, buffer, told>>

PollTimer ==
    /\ timer = "poll"
    /\ UNCHANGED <<task, events, card, constants, buffer, told>>
    /\ \E state \in CardStates(busy, FALSE) : PollCard(state, remainingPolls, operation, next, queue)

Finish ==
    /\ Handling("Finish")
    /\ queue' = Tail(queue)
    /\ onDone' = FALSE
    /\ operation' = "none"
    /\ phase' = "idle"
    /\ LET lines == IF operation = "read" THEN InvalidateDataCache(buffer) ELSE buffer
       IN  told' = [result |-> completionResult, data |-> [i \in 1 .. readBuffer |-> Seen(lines[i])]]
    /\ buffer' = <<>>
    /\ request' = NoRequest
    /\ UNCHANGED <<operationId, readBuffer, progress, completionResult, remainingPolls, timer, events,
                   peripheral, card, constants, disturbed>>

-----------------------------------------------------------------------------
(* The peripheral, which moves a chunk block by block and raises its       *)
(* interrupt once, and the card.                                           *)

MoveBlock ==
    /\ transfer = "moving"
    /\ moved < chunkBlocks
    /\ moved' = moved + 1
    /\ LET block == next.block + moved
           i == next.cursor + moved + 1
       IN  IF operation = "read"
           THEN buffer' = [buffer EXCEPT ![i].memory = content[block]] /\ UNCHANGED <<content, unflushed>>
           ELSE /\ content' = [content EXCEPT ![block] = buffer[i].memory]
                /\ unflushed' = unflushed \union {block}
                /\ UNCHANGED buffer
    /\ UNCHANGED <<task, progress, control, events, queue, transfer, busy, flushing, constants, told, disturbed>>

TransferEnds ==
    /\ transfer = "moving"
    /\ \/ moved = chunkBlocks /\ transfer' = "ended"
       \/ moved = chunkBlocks /\ chunkBlocks > 1 /\ transfer' = "stopFailed"
       \/ transfer' = "failed"
    /\ disturbed' = IF transfer' = "ended" THEN disturbed ELSE operationId
    /\ busy' = (busy \/ operation = "write")
    /\ queue' = Append(queue, "HandleInterrupt")
    /\ UNCHANGED <<task, progress, control, events, moved, content, unflushed, flushing, constants, buffer, told>>

CardReady ==
    /\ busy
    /\ busy' = FALSE
    /\ flushing' = FALSE
    /\ unflushed' = IF flushing \/ ~cache THEN {} ELSE unflushed
    /\ UNCHANGED <<task, progress, control, events, queue, peripheral, content, constants, buffer, told, disturbed>>

-----------------------------------------------------------------------------
Request == ReadBlocks \/ WriteBlocks \/ EraseBlocks \/ Flush
Dispatch == HandleInterrupt \/ HandleEvent \/ Finish
Timer == OnTransferTimeout \/ PollTimer
Device == MoveBlock \/ TransferEnds \/ CardReady

Next == Request \/ Dispatch \/ Timer \/ Device \/ DataCache

(* The dispatcher runs what it has and the timer expires; the peripheral   *)
(* and the card owe nothing.                                               *)
Fairness == WF_vars(Dispatch) /\ WF_vars(Timer)

Spec == Init /\ [][Next]_vars /\ Fairness

-----------------------------------------------------------------------------
TypeOK ==
    /\ {cardPresent, cache, onDone, eventScheduled, busy, flushing} \subseteq BOOLEAN
    /\ operation \in {"none", "read", "write", "erase", "flush"}
    /\ {operationId, pendingEventOperation, disturbed} \subseteq 0 .. MaxOperations
    /\ phase \in {"idle", "transferring", "waitingForCard", "completing"}
    /\ next \in [cursor : 0 .. MaxBlocks, block : Nat, left : 0 .. MaxBlocks]
    /\ onDone => next.block + next.left <= NumberOfBlocks
    /\ chunkBlocks \in 0 .. MaxBlocksPerTransfer
    /\ moved \in 0 .. MaxBlocksPerTransfer
    /\ remainingPolls \in 0 .. MaxPolls
    /\ timer \in {"off", "transfer", "poll"}
    /\ pendingEvent \in {"none", "transferred", "failed"}
    /\ queue \in Seq({"HandleInterrupt", "HandleEvent", "Finish"})
    /\ transfer \in {"none", "moving", "ended", "failed", "stopFailed"}
    /\ unflushed \subseteq Block
    /\ readBuffer \in 0 .. MaxBlocks

(* A transfer that ended is never lost between interrupt and dispatcher:   *)
(* while the code waits for it, its report is on its way, and counts.      *)
ReportUnderway ==
    phase = "transferring" =>
        \/ transfer = "moving"
        \/ transfer # "none" /\ \E i \in DOMAIN queue : queue[i] = "HandleInterrupt"
        \/ /\ pendingEvent # "none" /\ pendingEventOperation = operationId
           /\ \E i \in DOMAIN queue : queue[i] = "HandleEvent"

(* A request succeeds exactly when nothing went wrong with it: a card that *)
(* is still programming one chunk is no reason to fail the next, a chunk   *)
(* the driver reports failed and then transferred is not taken for one     *)
(* that succeeded, and no answer is taken for another operation's, nor     *)
(* lost on its way.                                                        *)
SuccessIffUndisturbed ==
    /\ ReportUnderway
    /\ phase = "completing" => (completionResult = "success" <=> disturbed # operationId)

(* The block device promises what hal::BlockDevice does, with the data     *)
(* cache in between.                                                       *)
Abstract == INSTANCE BlockDevice
ImplementsBlockDevice == Abstract!Spec

(* Whatever the card does or fails to do, a request ends.                  *)
RequestsEnd == onDone ~> ~onDone
=============================================================================
