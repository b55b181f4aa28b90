------------------------ MODULE SdmmcBlockDeviceProofs ------------------------
(***************************************************************************)
(* A request to the block device succeeds exactly when nothing disturbed   *)
(* it, and the block device implements hal::BlockDevice, for every number  *)
(* of blocks of the card, of a transfer and of a buffer, of polls and of   *)
(* requests.                                                               *)
(***************************************************************************)
EXTENDS SdmmcBlockDevice, TLAPS

Kind == {"read", "write", "erase", "flush"}
Entry == {"HandleInterrupt", "HandleEvent", "Finish"}
Failures == {"failed", "stopFailed"}
Reports == {"ended"} \union Failures

(* What a block and a line of the buffer hold. *)
Content == Seq(Nat)
Line == [memory : Content, line : {"absent", "clean", "dirty"}, cached : Content]

In(q, entry) == \E i \in 1 .. Len(q) : q[i] = entry
Queued(entry) == In(queue, entry)

(* The completion is scheduled once and after the report, which is, too.   *)
Orderly(q) ==
    \A i, j \in 1 .. Len(q) :
        /\ q[i] = q[j] /\ q[i] # "HandleInterrupt" => i = j
        /\ q[i] = "HandleEvent" /\ q[j] = "Finish" => i < j

TaskTypes ==
    /\ onDone \in BOOLEAN
    /\ operation \in Kind \union {"none"}
    /\ operationId \in 0 .. MaxOperations
    /\ readBuffer \in 0 .. MaxBlocks
    /\ request \in [kind : Kind \union {"none"}, first : Nat, end : Nat, id : Nat]
    /\ disturbed \in 0 .. operationId

ControlTypes ==
    /\ phase \in {"idle", "transferring", "waitingForCard", "completing"}
    /\ completionResult \in {"success", "failed", "timeout", "notPresent", "outOfRange"}
    /\ remainingPolls \in 0 .. MaxPolls
    /\ timer \in {"off", "transfer", "poll"}

(* The cursor stays in the buffer and its block on the card. *)
ProgressTypes ==
    /\ next \in [cursor : Nat, block : Nat, left : Nat]
    /\ next.cursor + next.left <= MaxBlocks
    /\ next.block + next.left <= NumberOfBlocks
    /\ chunkBlocks \in 0 .. MaxBlocksPerTransfer
    /\ moved \in 0 .. MaxBlocksPerTransfer

EventTypes ==
    /\ pendingEvent \in {"none", "transferred", "failed"}
    /\ pendingEventOperation \in 0 .. operationId
    /\ eventScheduled \in BOOLEAN
    /\ queue \in Seq(Entry)
    /\ transfer \in {"none", "moving"} \union Reports

CardTypes ==
    /\ cardPresent \in BOOLEAN /\ cache \in BOOLEAN
    /\ busy \in BOOLEAN /\ flushing \in BOOLEAN
    /\ content \in [Block -> Content]
    /\ unflushed \subseteq Block

Types == TaskTypes /\ ControlTypes /\ ProgressTypes /\ EventTypes /\ CardTypes

(* The phase, the request it is of and the timer it waits with.            *)
PhaseInv ==
    /\ onDone <=> phase # "idle"
    /\ request.kind = operation
    /\ operation = "none" <=> phase = "idle"
    /\ phase = "idle" => request = NoRequest
    /\ phase # "idle" => request.id = operationId
    /\ phase = "transferring" => operation \in {"read", "write"} /\ timer = "transfer"
    /\ phase = "waitingForCard" => operation # "read" /\ timer = "poll"
    /\ phase \in {"idle", "completing"} => timer = "off"

(* What the dispatcher has to do is of the operation under way: no report  *)
(* is left when the next one begins.                                       *)
QueueInv ==
    /\ Orderly(queue)
    /\ Queued("Finish") <=> phase = "completing"
    /\ Queued("HandleEvent") <=> eventScheduled
    /\ eventScheduled => phase \in {"transferring", "completing"}
    /\ pendingEvent # "none" => eventScheduled /\ pendingEventOperation = operationId

(* A transfer is moving, or ended and not reported, or reported. *)
TransferInv ==
    /\ phase # "transferring" => transfer = "none"
    /\ phase = "transferring" /\ transfer # "none" => ~eventScheduled
    /\ phase = "transferring" /\ transfer \in Reports => Queued("HandleInterrupt")
    /\ phase = "transferring" /\ transfer = "none" => pendingEvent # "none"

(* What the code knows of a request that went wrong.                       *)
DisturbedInv ==
    /\ phase = "transferring" =>
         (disturbed = operationId <=> transfer \in Failures \/ pendingEvent = "failed")
    /\ phase = "waitingForCard" => disturbed # operationId
    /\ phase = "completing" => (completionResult = "success" <=> disturbed # operationId)

(* A chunk meets a card that is not busy, and what is not flushed is being *)
(* written, or will be when the card is ready.                             *)
CardInv ==
    /\ transfer = "moving" \/ (operation = "read" /\ phase = "transferring") => ~busy
    /\ flushing => busy
    /\ ~cache /\ unflushed # {} => busy \/ (operation = "write" /\ transfer = "moving")
    /\ operation = "flush" =>
         /\ phase = "waitingForCard" => ~cache \/ flushing \/ unflushed = {}
         /\ phase = "completing" /\ completionResult = "success" => unflushed = {}

(* A request that did not fail. *)
Sound ==
    \/ phase \in {"transferring", "waitingForCard"}
    \/ phase = "completing" /\ completionResult = "success"

Size == request.end - request.first

(* Where a read or a write is. *)
CursorInv ==
    /\ Sound /\ operation = "erase" => request.end <= NumberOfBlocks
    /\ Sound /\ operation \in {"read", "write"} =>
         /\ request.first <= request.end
         /\ request.end <= NumberOfBlocks \/ request.end = request.first
         /\ operation = "read" => readBuffer = Size
         /\ phase # "completing" =>
              /\ request.end <= NumberOfBlocks
              /\ next.block = request.first + next.cursor
              /\ next.left = request.end - next.block
         /\ phase = "transferring" =>
              /\ next.left > 0
              /\ chunkBlocks = Least(next.left, MaxBlocksPerTransfer)
              /\ moved <= chunkBlocks
              /\ transfer = "ended" \/ pendingEvent = "transferred" => moved = chunkBlocks

(* The blocks of the request that the card and the buffer agree on.        *)
Done ==
    IF phase = "transferring" THEN next.cursor + moved
    ELSE IF phase = "waitingForCard" THEN next.cursor ELSE Size

(* No line of the buffer is dirty, so that none is written back over what  *)
(* the DMA wrote; and the memory holds what was read or is to be written.  *)
BufferInv ==
    /\ operation \in {"read", "write"} => buffer \in [1 .. Size -> Line]
    /\ Sound /\ operation \in {"read", "write"} =>
         /\ \A i \in 1 .. Size : buffer[i].line # "dirty"
         /\ operation = "write" => \A i \in 1 .. Size : buffer[i].memory = <<operationId, i - 1>>
         /\ operation = "read" => \A i \in 1 .. Done : buffer[i].memory = content[request.first + i - 1]
         /\ operation = "write" =>
              \A i \in 1 .. Done : content[request.first + i - 1] = <<operationId, i - 1>>

Inv ==
    /\ Types /\ PhaseInv /\ QueueInv /\ TransferInv /\ DisturbedInv
    /\ CardInv /\ CursorInv /\ BufferInv

-----------------------------------------------------------------------------
(* What the operations of the code do, where the invariant holds.          *)

Results == {"success", "failed", "timeout", "notPresent", "outOfRange"}

Halts(result, q) ==
    /\ phase' = "completing" /\ timer' = "off" /\ completionResult' = result
    /\ queue' = Append(q, "Finish")
    /\ UNCHANGED peripheral

Starts(at, q) ==
    /\ phase' = "transferring" /\ timer' = "transfer" /\ queue' = q
    /\ next' = at /\ chunkBlocks' = Least(at.left, MaxBlocksPerTransfer)
    /\ transfer' = "moving" /\ moved' = 0
    /\ ~busy /\ at.left # 0
    /\ UNCHANGED <<completionResult, disturbed>>

Waits(at, q) ==
    /\ phase' = "waitingForCard" /\ timer' = "poll" /\ queue' = q
    /\ next' = at
    /\ UNCHANGED <<chunkBlocks, completionResult, peripheral, disturbed>>

OnCard(at) ==
    /\ at \in [cursor : Nat, block : Nat, left : Nat]
    /\ at.cursor + at.left <= MaxBlocks
    /\ at.block + at.left <= NumberOfBlocks

(* How an operation of kind `doing`, which would be at `at`, goes on. *)
GoesOn(doing, at, q) ==
    \/ /\ \E result \in {"failed", "timeout"} : Halts(result, q)
       /\ disturbed' = operationId'
       /\ next' = at /\ chunkBlocks' \in 0 .. MaxBlocksPerTransfer
    \/ /\ Halts("success", q) /\ ~busy
       /\ doing \in {"read", "write"} => at.left = 0
       /\ next' \in {at, next}
       /\ UNCHANGED <<chunkBlocks, disturbed>>
    \/ Starts(at, q) /\ doing \in {"read", "write"}
    \/ Waits(at, q) /\ doing # "read"

(* A completion that was not reported before is reported now.              *)
LEMMA CompleteIs ==
    ASSUME phase # "completing", NEW result, NEW q, Complete(result, q)
    PROVE  /\ phase' = "completing" /\ timer' = "off" /\ completionResult' = result
           /\ queue' = Append(q, "Finish")
BY DEF Complete

(* The smaller of two numbers. *)
LEMMA LeastIs ==
    ASSUME NEW a \in Nat, NEW b \in Nat
    PROVE  Least(a, b) \in Nat /\ Least(a, b) <= a /\ Least(a,
    b) <= b /\ (a > 0 /\ b > 0 => Least(a, b) > 0)
BY DEF Least

(* A chunk starts on a card that is not busy, or the operation fails.      *)
LEMMA StartChunkIs ==
    ASSUME phase # "completing", NEW at, NEW q, OnCard(at), at.left # 0, StartChunk(at, q),
           busy => phase = "idle"
    PROVE  \/ Starts(at, q)
           \/ /\ Halts("failed", q) /\ disturbed' = operationId'
              /\ next' = at /\ chunkBlocks' \in 0 .. MaxBlocksPerTransfer
<1>1. at.left \in Nat
    BY DEF OnCard
<1>2. Least(at.left, MaxBlocksPerTransfer) \in 0 .. MaxBlocksPerTransfer
    BY <1>1, LeastIs, MaxBlocksPerTransferAssumption
<1>3. CASE ~busy /\ transfer' = "moving" /\ moved' = 0 /\ phase' = "transferring" /\ StartTimer
           /\ queue' = q /\ UNCHANGED <<completionResult, disturbed>>
    BY <1>3 DEF Starts, StartChunk, StartTimer
<1>4. CASE /\ Complete("failed", q)
           /\ disturbed' = IF busy /\ phase # "idle" THEN disturbed ELSE operationId'
           /\ UNCHANGED peripheral
  <2>1. Halts("failed", q)
      BY <1>4, CompleteIs DEF Halts
  <2> QED BY <1>2, <1>4, <2>1 DEF StartChunk
<1> QED BY <1>3, <1>4 DEF StartChunk

(* A read goes on with the next chunk or is complete.                      *)
LEMMA ContinueIs ==
    ASSUME phase # "completing", NEW at, NEW q, OnCard(at), ContinueOrComplete(at, q), ~busy,
           NEW doing \in {"read", "write"}
    PROVE  GoesOn(doing, at, q)
<1>1. CASE at.left = 0
  <2>1. Complete("success", q) /\ next' = at /\ UNCHANGED <<chunkBlocks, peripheral, disturbed>>
      BY <1>1 DEF ContinueOrComplete
  <2>2. Halts("success", q)
      BY <2>1, CompleteIs DEF Halts
  <2> QED BY <1>1, <2>1, <2>2 DEF GoesOn
<1>2. CASE at.left # 0
  <2>1. StartChunk(at, q)
      BY <1>2 DEF ContinueOrComplete
  <2> QED BY <1>2, <2>1, StartChunkIs DEF GoesOn
<1> QED BY <1>1, <1>2

(* A card that is asked fails, is done, or is still busy.                  *)
LEMMA PollCardIs ==
    ASSUME Types, phase # "completing", NEW at, NEW q, OnCard(at),
           NEW state \in {"error", "busy", "transfer"}, state = "transfer" => ~busy,
           NEW polls \in 0 .. MaxPolls, NEW doing \in {"write", "erase", "flush"},
           PollCard(state, polls, doing, at, q)
    PROVE  GoesOn(doing, at, q) /\ remainingPolls' \in 0 .. MaxPolls
<1>1. MaxPolls \in Nat /\ chunkBlocks \in 0 .. MaxBlocksPerTransfer
    BY BoundsAssumption DEF Types, ProgressTypes
<1>2. remainingPolls' \in 0 .. MaxPolls
    BY <1>1 DEF PollCard
<1>3. CASE state = "error" \/ (state = "busy" /\ polls = 0)
  <2>1. /\ Complete(IF state = "error" THEN "failed" ELSE "timeout", q)
        /\ disturbed' = operationId' /\ next' = at /\ UNCHANGED <<chunkBlocks, peripheral>>
      BY <1>3 DEF PollCard
  <2>2. Halts(IF state = "error" THEN "failed" ELSE "timeout", q)
      BY <2>1, CompleteIs DEF Halts
  <2>3. \E result \in {"failed", "timeout"} : Halts(result, q)
      BY <2>2
  <2> QED BY <1>1, <1>2, <2>1, <2>3 DEF GoesOn
<1>4. CASE state = "transfer" /\ doing = "write"
  <2>1. ContinueOrComplete(at, q)
      BY <1>4 DEF PollCard
  <2> QED BY <1>2, <1>4, <2>1, ContinueIs
<1>5. CASE state = "transfer" /\ doing # "write"
  <2>1. Complete("success", q) /\ UNCHANGED <<progress, peripheral, disturbed>>
      BY <1>5 DEF PollCard
  <2>2. Halts("success", q)
      BY <2>1, CompleteIs DEF Halts
  <2> QED BY <1>2, <1>5, <2>1, <2>2 DEF GoesOn, progress
<1>6. CASE state = "busy" /\ polls # 0
    BY <1>2, <1>6 DEF PollCard, GoesOn, Waits
<1> QED BY <1>3, <1>4, <1>5, <1>6

-----------------------------------------------------------------------------
(* The steps, by what they do. *)

(* A request is accepted when nothing is under way. *)
Accepted(kind, first, end) ==
    /\ phase = "idle" /\ transfer = "none" /\ onDone' = TRUE
    /\ operationId' = operationId + 1 /\ operationId' \in 0 .. MaxOperations
    /\ operation' = kind
    /\ request' = [kind |-> kind, first |-> first, end |-> end, id |-> operationId']
    /\ readBuffer' \in 0 .. MaxBlocks
    /\ UNCHANGED <<events, constants, told>>

(* What an accepted request may do to the card. *)
OnlyErases(kind, first, end) ==
    /\ content' \in [Block -> Content]
    /\ \A block \in Block : content'[block] = content[block]
                            \/ (kind = "erase" /\ first <= block /\ block < end)
    /\ UNCHANGED unflushed
    /\ \/ UNCHANGED <<busy, flushing>>
       \/ busy' = TRUE /\ flushing' \in BOOLEAN /\ (flushing => flushing')

BeginsTransfer(kind, first, blocks) ==
    /\ Accepted(kind, first, first + blocks)
    /\ blocks # 0 /\ first + blocks <= NumberOfBlocks
    /\ kind = "read" => readBuffer' = blocks
    /\ buffer' \in [1 .. blocks -> Line]
    /\ \A i \in 1 .. blocks : /\ buffer'[i].line # "dirty"
                              /\ kind = "write" => buffer'[i].memory = <<operationId', i - 1>>
    /\ Starts(At(0, first, blocks), queue)
    /\ UNCHANGED <<remainingPolls, card>>

EndsAtOnce(kind, first, end, result) ==
    /\ Accepted(kind, first, end)
    /\ OnlyErases(kind, first, end)
    /\ Halts(result, queue)
    /\ disturbed' = IF result = "success" THEN disturbed ELSE operationId'
    /\ OnCard(next') /\ chunkBlocks' \in 0 .. MaxBlocksPerTransfer /\ remainingPolls' \in 0 .. MaxPolls
    /\ kind \in {"read", "write"} => buffer' \in [1 .. end - first -> Line]
    /\ result = "success" =>
         /\ kind \in {"read", "write"} => first = end /\ readBuffer' = 0
         /\ kind = "erase" => end <= NumberOfBlocks
         /\ kind = "flush" => unflushed' = {}

WaitsAtOnce(kind, first, end) ==
    /\ Accepted(kind, first, end)
    /\ OnlyErases(kind, first, end)
    /\ Waits(next, queue)
    /\ remainingPolls' \in 0 .. MaxPolls
    /\ kind \in {"erase", "flush"}
    /\ kind = "erase" => end <= NumberOfBlocks
    /\ kind = "flush" => ~cache \/ flushing'

(* A chunk was transferred, or the card was asked. *)
Transferred == At(next.cursor + chunkBlocks, next.block + chunkBlocks, next.left - chunkBlocks)

AfterChunk ==
    /\ Handling("HandleEvent") /\ phase = "transferring" /\ pendingEvent = "transferred"
    /\ eventScheduled' = FALSE /\ pendingEvent' = "none"
    /\ OnCard(Transferred)
    /\ GoesOn(operation, Transferred, Tail(queue)) /\ remainingPolls' \in 0 .. MaxPolls
    /\ UNCHANGED <<task, pendingEventOperation, card, constants, buffer, told>>

AfterPoll ==
    /\ phase = "waitingForCard"
    /\ GoesOn(operation, next, queue) /\ remainingPolls' \in 0 .. MaxPolls
    /\ UNCHANGED <<task, events, card, constants, buffer, told>>

ChunkFails ==
    /\ Handling("HandleEvent") /\ phase = "transferring" /\ pendingEvent = "failed"
    /\ eventScheduled' = FALSE /\ pendingEvent' = "none"
    /\ Halts("failed", Tail(queue))
    /\ UNCHANGED <<task, pendingEventOperation, card, constants, buffer, told>>
    /\ UNCHANGED <<progress, remainingPolls, disturbed>>

EventIgnored ==
    /\ Handling("HandleEvent") /\ phase # "transferring"
    /\ eventScheduled' = FALSE /\ pendingEvent' = "none" /\ queue' = Tail(queue)
    /\ UNCHANGED <<task, pendingEventOperation, card, constants, buffer, told>>
    /\ UNCHANGED <<progress, control, peripheral, disturbed>>

InterruptIgnored ==
    /\ Handling("HandleInterrupt") /\ transfer \notin Reports /\ queue' = Tail(queue)
    /\ UNCHANGED <<events, transfer>>
    /\ UNCHANGED <<task, progress, control, moved, card, constants, buffer, told, disturbed>>

InterruptReports ==
    /\ Handling("HandleInterrupt") /\ transfer \in Reports /\ phase = "transferring"
    /\ pendingEvent' = (IF transfer = "ended" THEN "transferred" ELSE "failed")
    /\ pendingEventOperation' = operationId
    /\ ~eventScheduled /\ eventScheduled' = TRUE
    /\ queue' = Append(Tail(queue), "HandleEvent")
    /\ transfer' = "none"
    /\ UNCHANGED <<task, progress, control, moved, card, constants, buffer, told, disturbed>>

TimesOut ==
    /\ phase = "transferring"
    /\ phase' = "completing" /\ timer' = "off" /\ completionResult' = "timeout"
    /\ queue' = Append(queue, "Finish")
    /\ disturbed' = operationId
    /\ transfer' = "none"
    /\ busy' = (busy \/ operation = "write")
    /\ UNCHANGED <<task, progress, remainingPolls, events, moved, content, unflushed, flushing,
                   constants, buffer, told>>

(* One of them is the step. *)
Steps ==
    \/ \E kind \in {"read", "write"}, first \in Nat,
       blocks \in 0 .. MaxBlocks : BeginsTransfer(kind, first, blocks)
    \/ \E kind \in Kind, first \in Nat, end \in Nat, result \in Results : EndsAtOnce(kind, first,
       end, result)
    \/ \E kind \in Kind, first \in Nat, end \in Nat : WaitsAtOnce(kind, first, end)
    \/ InterruptIgnored \/ InterruptReports
    \/ EventIgnored \/ ChunkFails \/ AfterChunk \/ AfterPoll \/ TimesOut
    \/ Finish
    \/ MoveBlock \/ TransferEnds \/ CardReady \/ DataCache
    \/ UNCHANGED vars

(* The lines of the buffer once the data cache is cleaned. *)
LEMMA CleanIs ==
    ASSUME NEW n \in Nat, NEW lines \in [1 .. n -> Line]
    PROVE  /\ CleanDataCache(lines) \in [1 .. n -> Line]
           /\ \A i \in 1 .. n :
                /\ CleanDataCache(lines)[i].line # "dirty"
                /\ CleanDataCache(lines)[i].memory =
                     IF lines[i].line = "dirty" THEN lines[i].cached ELSE lines[i].memory
<1>1. ASSUME NEW i \in 1 .. n
      PROVE  LET clean == IF lines[i].line = "dirty" THEN Clean(lines[i].cached) ELSE lines[i]
             IN  /\ clean \in Line /\ clean.line # "dirty"
                 /\ clean.memory = IF lines[i].line = "dirty" THEN lines[i].cached ELSE lines[i].memory
    BY DEF Line, Clean
<1> QED BY <1>1 DEF CleanDataCache

(* A read or a write begins, or ends at once. *)
LEMMA RequestTransferIs ==
    ASSUME Inv, NEW kind \in {"read", "write"}, NEW first \in Nat, NEW blocks \in 0 .. MaxBlocks,
           NEW lines \in [1 .. blocks -> Line],
           kind = "write" => \A i \in 1 .. blocks :
               (IF lines[i].line = "dirty" THEN lines[i].cached ELSE lines[i].memory)
                   = <<operationId + 1, i - 1>>,
           RequestTransfer(kind, first, blocks, lines)
    PROVE  \/ BeginsTransfer(kind, first, blocks)
           \/ \E result \in Results : EndsAtOnce(kind, first, first + blocks, result)
<1>1. /\ NumberOfBlocks \in Nat /\ MaxBlocks \in Nat /\ MaxOperations \in Nat /\ MaxPolls \in Nat
      /\ MaxBlocksPerTransfer \in Nat \ {0}
    BY NumberOfBlocksAssumption, MaxBlocksPerTransferAssumption, BoundsAssumption
<1>2. phase = "idle" /\ transfer = "none" /\ phase # "completing"
    BY DEF RequestTransfer, Begin, Inv, PhaseInv, TransferInv
<1>3. /\ OnCard(next) /\ chunkBlocks \in 0 .. MaxBlocksPerTransfer /\ remainingPolls \in 0 .. MaxPolls
      /\ content \in [Block -> Content] /\ operationId \in Nat /\ operationId \in 0 .. MaxOperations
    BY <1>1 DEF Inv, Types, TaskTypes, ControlTypes, ProgressTypes, CardTypes, OnCard
<1> DEFINE Valid == cardPresent /\ blocks # 0 /\ IsValidRange(first, blocks)
<1>4. Begin(kind, first, first + blocks, IF Valid THEN blocks ELSE 0)
    BY DEF RequestTransfer
<1>5. Accepted(kind, first,
      first + blocks) /\ (kind = "read" => readBuffer' = IF Valid THEN blocks ELSE 0)
      /\ (kind = "write" => readBuffer' = 0)
    BY <1>1, <1>2, <1>3, <1>4 DEF Begin, Accepted
<1>6. CASE Valid
  <2>1. /\ buffer' = CleanDataCache(lines) /\ StartChunk(At(0, first, blocks), queue)
        /\ UNCHANGED <<remainingPolls, card>>
      BY <1>6 DEF RequestTransfer
  <2>2. first + blocks <= NumberOfBlocks /\ blocks # 0
      BY <1>1, <1>6 DEF IsValidRange
  <2>3. OnCard(At(0, first, blocks)) /\ At(0, first, blocks).left # 0
      BY <1>1, <2>2 DEF OnCard, At
  <2>4. CASE Starts(At(0, first, blocks), queue)
    <3>1. /\ buffer' \in [1 .. blocks -> Line]
          /\ \A i \in 1 .. blocks : /\ buffer'[i].line # "dirty"
                                    /\ kind = "write" => buffer'[i].memory = <<operationId', i - 1>>
      <4>1. /\ CleanDataCache(lines) \in [1 .. blocks -> Line]
            /\ \A i \in 1 .. blocks :
                 /\ CleanDataCache(lines)[i].line # "dirty"
                 /\ CleanDataCache(lines)[i].memory =
                      IF lines[i].line = "dirty" THEN lines[i].cached ELSE lines[i].memory
          BY <1>1, CleanIs
      <4>2. operationId' = operationId + 1
          BY <1>5 DEF Accepted
      <4> QED BY <2>1, <4>1, <4>2
    <3> QED BY <1>5, <1>6, <2>1, <2>2, <2>4, <3>1 DEF BeginsTransfer
  <2>5. CASE /\ Halts("failed", queue) /\ disturbed' = operationId'
             /\ next' = At(0, first, blocks) /\ chunkBlocks' \in 0 .. MaxBlocksPerTransfer
    <3>1. buffer' \in [1 .. (first + blocks) - first -> Line]
        BY <2>1, CleanIs, <1>1
    <3>2. OnlyErases(kind, first, first + blocks)
        BY <1>3, <2>1 DEF OnlyErases, card
    <3>3. OnCard(next')
        BY <2>3, <2>5
    <3>4. remainingPolls' \in 0 .. MaxPolls
        BY <1>3, <2>1
    <3>5. EndsAtOnce(kind, first, first + blocks, "failed")
        BY <1>5, <2>5, <3>1, <3>2, <3>3, <3>4 DEF EndsAtOnce
    <3> QED BY <3>5 DEF Results
  <2> QED BY <1>2, <2>1, <2>3, <2>4, <2>5, StartChunkIs
<1>7. CASE ~Valid
  <2> DEFINE result == IF ~cardPresent THEN "notPresent" ELSE IF blocks = 0 THEN "success" ELSE "outOfRange"
  <2>1. buffer' = lines /\ CompleteAtOnce(result)
      BY <1>7 DEF RequestTransfer
  <2>2. Halts(result, queue)
      BY <1>2, <2>1, CompleteIs DEF CompleteAtOnce, Halts
  <2>3. /\ disturbed' = (IF result = "success" THEN disturbed ELSE operationId')
        /\ UNCHANGED <<progress, remainingPolls, card>>
      BY <2>1 DEF CompleteAtOnce
  <2>4. buffer' \in [1 .. (first + blocks) - first -> Line]
      BY <1>1, <2>1
  <2>5. OnlyErases(kind, first, first + blocks)
      BY <1>3, <2>3 DEF OnlyErases, card
  <2>6. result \in Results /\ (result = "success" => blocks = 0)
      BY DEF Results
  <2>7. OnCard(next') /\ chunkBlocks' \in 0 .. MaxBlocksPerTransfer /\ remainingPolls' \in 0 .. MaxPolls
      BY <1>3, <2>3 DEF progress
  <2>8. blocks = 0 => readBuffer' = 0
      BY <1>5
  <2>9. blocks = 0 => first = first + blocks
      BY <1>1
  <2> HIDE DEF result
  <2> QED BY <1>5, <2>2, <2>3, <2>4, <2>5, <2>6, <2>7, <2>8, <2>9 DEF EndsAtOnce
<1> QED BY <1>6, <1>7

(* The constants and the types the requests need. *)
LEMMA Known ==
    ASSUME Inv
    PROVE  /\ NumberOfBlocks \in Nat /\ MaxBlocks \in Nat /\ MaxOperations \in Nat /\ MaxPolls \in Nat
           /\ FirstBlocks \subseteq Nat
           /\ OnCard(next) /\ chunkBlocks \in 0 .. MaxBlocksPerTransfer /\ remainingPolls \in 0 .. MaxPolls
           /\ content \in [Block -> Content] /\ operationId \in 0 .. MaxOperations
           /\ busy \in BOOLEAN /\ flushing \in BOOLEAN
BY NumberOfBlocksAssumption, BoundsAssumption
   DEF Inv, Types, TaskTypes, ControlTypes, ProgressTypes, CardTypes, OnCard

(* Where nothing is under way, a request is accepted. *)
LEMMA BeginIs ==
    ASSUME Inv, NEW kind \in Kind, NEW first, NEW end, NEW blocks \in 0 .. MaxBlocks,
           Begin(kind, first, end, blocks)
    PROVE  Accepted(kind, first, end)
<1>1. phase = "idle" /\ transfer = "none"
    BY DEF Begin, Inv, PhaseInv, TransferInv
<1>2. operationId' \in 0 .. MaxOperations /\ readBuffer' \in 0 .. MaxBlocks
    BY Known DEF Begin
<1> QED BY <1>1, <1>2 DEF Begin, Accepted

(* A read and a write. *)
LEMMA ReadBlocksIs == Inv /\ ReadBlocks => Steps
<1> SUFFICES ASSUME Inv, ReadBlocks
             PROVE  Steps
    OBVIOUS
<1>1. PICK first \in FirstBlocks, blocks \in 0 .. MaxBlocks, line \in {Absent(<<>>), Dirty(<<>>)} :
          RequestTransfer("read", first, blocks, [i \in 1 .. blocks |-> line])
    BY DEF ReadBlocks
<1>2. line \in Line /\ first \in Nat
  <2>1. <<>> \in Content
      BY DEF Content
  <2>2. Absent(<<>>) \in Line /\ Dirty(<<>>) \in Line
      BY <2>1 DEF Line, Absent, Dirty
  <2> QED BY <1>1, <2>2, Known
<1>3. [i \in 1 .. blocks |-> line] \in [1 .. blocks -> Line]
    BY <1>2
<1>4. \/ BeginsTransfer("read", first, blocks)
      \/ \E result \in Results : EndsAtOnce("read", first, first + blocks, result)
    BY <1>1, <1>2, <1>3, RequestTransferIs
<1>5. first + blocks \in Nat
    BY <1>2, Known
<1> QED BY <1>2, <1>4, <1>5 DEF Steps, Kind

(* The lines of a write hold its data, cached or not.                      *)
LEMMA WriteBlocksIs == Inv /\ WriteBlocks => Steps
<1> SUFFICES ASSUME Inv, WriteBlocks
             PROVE  Steps
    OBVIOUS
<1>1. PICK first \in FirstBlocks, blocks \in 0 .. MaxBlocks, cached \in BOOLEAN :
          RequestTransfer("write", first, blocks,
              [i \in 1 .. blocks |-> IF cached THEN Dirty(<<operationId + 1, i - 1>>)
                                     ELSE Absent(<<operationId + 1, i - 1>>)])
    BY DEF WriteBlocks
<1> DEFINE lines == [i \in 1 .. blocks |-> IF cached THEN Dirty(<<operationId + 1, i - 1>>)
                                           ELSE Absent(<<operationId + 1, i - 1>>)]
<1>2. first \in Nat /\ operationId \in Nat
    BY Known
<1>3. ASSUME NEW i \in 1 .. blocks
      PROVE  /\ lines[i] \in Line
             /\ (IF lines[i].line = "dirty" THEN lines[i].cached ELSE lines[i].memory)
                    = <<operationId + 1, i - 1>>
  <2>1. <<operationId + 1, i - 1>> \in Content /\ <<>> \in Content
      BY <1>2, Known DEF Content
  <2> QED BY <2>1 DEF Line, Absent, Dirty
<1>4. lines \in [1 .. blocks -> Line]
    BY <1>3
<1>5. \/ BeginsTransfer("write", first, blocks)
      \/ \E result \in Results : EndsAtOnce("write", first, first + blocks, result)
    BY <1>1, <1>2, <1>3, <1>4, RequestTransferIs
<1>6. first + blocks \in Nat
    BY <1>2, Known
<1> QED BY <1>2, <1>5, <1>6 DEF Steps, Kind

(* What an erase or a flush comes to when the card is asked about it.      *)
LEMMA CardAsked ==
    ASSUME Inv, NEW kind \in {"erase", "flush"}, NEW first \in Nat, NEW end \in Nat,
           Accepted(kind, first, end), OnlyErases(kind, first, end),
           NEW isBusy \in BOOLEAN, busy => isBusy, NEW rejected \in BOOLEAN,
           WaitForCard(isBusy, rejected, kind, next, queue),
           kind = "erase" => end <= NumberOfBlocks,
           kind = "flush" /\ ~rejected => ~cache \/ flushing',
           kind = "flush" /\ ~rejected /\ ~isBusy => unflushed = {}
    PROVE  Steps
<1>1. phase # "completing"
    BY DEF Accepted
<1>2. PICK state \in CardStates(isBusy, rejected) : PollCard(state, MaxPolls, kind, next, queue)
    BY DEF WaitForCard
<1>3. /\ state \in {"error", "busy", "transfer"}
      /\ state = "transfer" => ~isBusy
      /\ state # "error" => ~rejected
    BY <1>2 DEF CardStates
<1>4. OnCard(next) /\ MaxPolls \in 0 .. MaxPolls
    BY Known
<1>5. GoesOn(kind, next, queue) /\ remainingPolls' \in 0 .. MaxPolls
    BY <1>1, <1>2, <1>3, <1>4, PollCardIs DEF Inv
<1>6. OnCard(next') /\ chunkBlocks' \in 0 .. MaxBlocksPerTransfer
    BY <1>4, <1>5, Known DEF GoesOn, Waits, Starts
<1>7. CASE \E result \in {"failed", "timeout"} : Halts(result, queue) /\ disturbed' = operationId'
  <2>1. PICK result \in {"failed", "timeout"} : Halts(result, queue) /\ disturbed' = operationId'
      BY <1>7
  <2>2. EndsAtOnce(kind, first, end, result)
      BY <2>1, <1>5, <1>6 DEF EndsAtOnce
  <2> QED BY <2>2 DEF Steps, Kind, Results
<1>8. CASE state = "transfer"
  <2>1. \/ \E result \in {"failed", "timeout"} : Halts(result, queue) /\ disturbed' = operationId'
        \/ Halts("success", queue) /\ UNCHANGED disturbed
        \/ Waits(next, queue)
      BY <1>5 DEF GoesOn
  <2>2. CASE Halts("success", queue) /\ UNCHANGED disturbed
    <3>1. kind = "flush" => unflushed' = {}
        BY <1>3, <1>8 DEF OnlyErases
    <3>2. EndsAtOnce(kind, first, end, "success")
        BY <2>2, <1>5, <1>6, <3>1 DEF EndsAtOnce
    <3> QED BY <3>2 DEF Steps, Kind, Results
  <2>3. CASE Waits(next, queue)
    <3>1. WaitsAtOnce(kind, first, end)
        BY <1>3, <1>5, <1>8, <2>3 DEF WaitsAtOnce
    <3> QED BY <3>1 DEF Steps, Kind
  <2> QED BY <1>7, <2>1, <2>2, <2>3
<1>9. CASE state = "busy"
  <2>1. CASE Waits(next, queue)
    <3>1. WaitsAtOnce(kind, first, end)
        BY <1>3, <1>5, <1>9, <2>1 DEF WaitsAtOnce
    <3> QED BY <3>1 DEF Steps, Kind
  <2>2. CASE MaxPolls = 0
    <3>1. Complete("timeout", queue) /\ disturbed' = operationId'
        BY <1>2, <1>9, <2>2 DEF PollCard
    <3>2. UNCHANGED peripheral
        BY <1>2, <1>9, <2>2 DEF PollCard
    <3>3. Halts("timeout", queue)
        BY <1>1, <3>1, <3>2, CompleteIs DEF Halts
    <3> QED BY <1>7, <3>1, <3>3
  <2>3. CASE MaxPolls # 0
    <3>1. Waits(next, queue)
        BY <1>2, <1>9, <2>3 DEF PollCard, Waits
    <3> QED BY <3>1, <2>1
  <2> QED BY <2>2, <2>3
<1>10. CASE state = "error"
  <2>1. Complete("failed", queue) /\ disturbed' = operationId' /\ UNCHANGED peripheral
      BY <1>2, <1>10 DEF PollCard
  <2>2. Halts("failed", queue)
      BY <1>1, <2>1, CompleteIs DEF Halts
  <2> QED BY <1>7, <2>1, <2>2
<1> QED BY <1>3, <1>8, <1>9, <1>10

(* A request that ends before the card is asked. *)
LEMMA EndedAtOnce ==
    ASSUME Inv, NEW kind \in {"erase", "flush"}, NEW first \in Nat, NEW end \in Nat,
           Accepted(kind, first, end), NEW result \in Results, CompleteAtOnce(result),
           result = "success" => kind = "erase" /\ end <= NumberOfBlocks
    PROVE  Steps
<1>1. phase # "completing"
    BY DEF Accepted
<1>2. Halts(result, queue)
    BY <1>1, CompleteIs DEF CompleteAtOnce, Halts
<1>3. OnlyErases(kind, first, end)
    BY Known DEF OnlyErases, CompleteAtOnce, card
<1>4. OnCard(next') /\ chunkBlocks' \in 0 .. MaxBlocksPerTransfer /\ remainingPolls' \in 0 .. MaxPolls
    BY Known DEF CompleteAtOnce, progress
<1>5. disturbed' = IF result = "success" THEN disturbed ELSE operationId'
    BY DEF CompleteAtOnce
<1>6. EndsAtOnce(kind, first, end, result)
    BY <1>2, <1>3, <1>4, <1>5 DEF EndsAtOnce
<1> QED BY <1>6 DEF Steps, Kind

(* An erase of a valid range asks the card, and no other does.             *)
LEMMA EraseBlocksIs == Inv /\ EraseBlocks => Steps
<1> SUFFICES ASSUME Inv, EraseBlocks
             PROVE  Steps
    OBVIOUS
<1>1. PICK begin \in FirstBlocks, end \in FirstBlocks :
        /\ Begin("erase", begin, end, 0)
        /\ IF ~cardPresent THEN CompleteAtOnce("notPresent")
           ELSE IF begin > end \/ end > NumberOfBlocks THEN CompleteAtOnce("outOfRange")
           ELSE IF begin = end THEN CompleteAtOnce("success")
           ELSE Erase(begin, LastErased(end))
    BY DEF EraseBlocks
<1>2. begin \in Nat /\ end \in Nat /\ NumberOfBlocks \in Nat
    BY Known
<1>3. Accepted("erase", begin, end)
    BY <1>1, BeginIs, Known DEF Kind
<1>4. CASE ~cardPresent
    BY <1>1, <1>2, <1>3, <1>4, EndedAtOnce DEF Results
<1>5. CASE cardPresent /\ (begin > end \/ end > NumberOfBlocks)
    BY <1>1, <1>2, <1>3, <1>5, EndedAtOnce DEF Results
<1>6. CASE cardPresent /\ ~(begin > end \/ end > NumberOfBlocks) /\ begin = end
    BY <1>1, <1>2, <1>3, <1>6, EndedAtOnce DEF Results
<1>7. CASE cardPresent /\ ~(begin > end \/ end > NumberOfBlocks) /\ begin # end
  <2>1. Erase(begin, end - 1) /\ end <= NumberOfBlocks
      BY <1>1, <1>2, <1>7 DEF LastErased
  <2>2. CASE CompleteAtOnce("failed")
      BY <1>2, <1>3, <2>2, EndedAtOnce DEF Results
  <2>3. CASE WaitForCard(busy, FALSE, "erase", next, queue) /\ UNCHANGED card
    <3>1. OnlyErases("erase", begin, end)
        BY <2>3, Known DEF OnlyErases, card
    <3> QED BY <1>2, <1>3, <2>1, <2>3, <3>1, CardAsked, Known
  <2>4. CASE /\ ~busy /\ busy' = TRUE
             /\ content' =
                  [block \in Block |-> IF block \in begin .. (end - 1) THEN <<>> ELSE content[block]]
             /\ WaitForCard(TRUE, FALSE, "erase", next, queue)
             /\ UNCHANGED <<unflushed, flushing>>
    <3>1. <<>> \in Content
        BY DEF Content
    <3>2. content' \in [Block -> Content]
        BY <2>4, <3>1, Known
    <3>3. \A block \in Block : content'[block] = content[block] \/ (begin <= block /\ block < end)
        BY <1>2, <2>4, Known DEF Block
    <3>4. OnlyErases("erase", begin, end)
        BY <2>4, <3>2, <3>3, Known DEF OnlyErases
    <3> QED BY <1>2, <1>3, <2>1, <2>4, <3>4, CardAsked
  <2> QED BY <2>1, <2>2, <2>3, <2>4 DEF Erase
<1> QED BY <1>4, <1>5, <1>6, <1>7

(* A flush is over, or the card writes its cache, or has none.             *)
LEMMA FlushIs == Inv /\ Flush => Steps
<1> SUFFICES ASSUME Inv, Flush
             PROVE  Steps
    OBVIOUS
<1>1. Accepted("flush", 0, 0)
    BY BeginIs, Known DEF Flush, Kind
<1>2. transfer = "none" /\ cache \in BOOLEAN
    BY <1>1 DEF Accepted, Inv, Types, CardTypes
<1>3. ~cache /\ ~busy => unflushed = {}
    BY <1>2 DEF Inv, CardInv
<1>4. ASSUME UNCHANGED card
      PROVE  OnlyErases("flush", 0, 0)
    BY <1>4, Known DEF OnlyErases, card
<1>5. \/ CompleteAtOnce("notPresent") \/ CompleteAtOnce("failed")
      \/ ~cache /\ WaitForCard(busy, FALSE, "flush", next, queue) /\ UNCHANGED card
      \/ cache /\ WaitForCard(busy, TRUE, "flush", next, queue) /\ UNCHANGED card
      \/ /\ cache /\ ~busy
         /\ busy' = TRUE /\ flushing' = TRUE
         /\ WaitForCard(TRUE, FALSE, "flush", next, queue)
         /\ UNCHANGED <<content, unflushed>>
    BY DEF Flush
<1>6. CASE CompleteAtOnce("notPresent") \/ CompleteAtOnce("failed")
    BY <1>1, <1>6, EndedAtOnce DEF Results
<1>7. CASE ~cache /\ WaitForCard(busy, FALSE, "flush", next, queue) /\ UNCHANGED card
    BY <1>1, <1>3, <1>4, <1>7, CardAsked, Known
<1>8. CASE cache /\ WaitForCard(busy, TRUE, "flush", next, queue) /\ UNCHANGED card
    BY <1>1, <1>4, <1>8, CardAsked, Known
<1>9. CASE /\ cache /\ ~busy
           /\ busy' = TRUE /\ flushing' = TRUE
           /\ WaitForCard(TRUE, FALSE, "flush", next, queue)
           /\ UNCHANGED <<content, unflushed>>
  <2>1. OnlyErases("flush", 0, 0)
      BY <1>9, Known DEF OnlyErases
  <2> QED BY <1>1, <1>9, <2>1, CardAsked
<1> QED BY <1>5, <1>6, <1>7, <1>8, <1>9

(* What the interrupt finds is told once, when it was waited for.          *)
LEMMA HandleInterruptIs == Inv /\ HandleInterrupt => Steps
<1> SUFFICES ASSUME Inv, HandleInterrupt
             PROVE  Steps
    OBVIOUS
<1>1. CASE transfer \in Reports
  <2>1. phase = "transferring" /\ ~eventScheduled /\ pendingEvent = "none"
      BY <1>1 DEF Inv, TransferInv, QueueInv, Reports, Failures
  <2>2. transfer \in {"ended", "failed", "stopFailed"}
      BY <1>1 DEF Reports, Failures
  <2>3. Posted = IF transfer = "ended" THEN "transferred" ELSE "failed"
      BY <2>1, <2>2 DEF Posted, Pending
  <2>4. queue' = Tail(queue) \o <<"HandleEvent">> /\ queue \in Seq(Entry) /\ queue # <<>>
      BY <2>1, <2>2 DEF HandleInterrupt, Handling, Inv, Types, EventTypes
  <2>5. queue' = Append(Tail(queue), "HandleEvent")
      BY <2>4
  <2> QED BY <1>1, <2>1, <2>2, <2>3, <2>5 DEF HandleInterrupt, InterruptReports, Steps
<1>2. CASE transfer \notin Reports
  <2>1. transfer \notin {"ended", "failed", "stopFailed"}
      BY <1>2 DEF Reports, Failures
  <2> QED BY <1>2, <2>1 DEF HandleInterrupt, InterruptIgnored, Steps
<1> QED BY <1>1, <1>2

(* The chunk after the one that was transferred. *)
LEMMA NextChunk ==
    ASSUME Inv, phase = "transferring"
    PROVE  OnCard(Transferred) /\ Transferred.left = next.left - chunkBlocks
<1>1. /\ next.cursor \in Nat /\ next.block \in Nat /\ next.left \in Nat
      /\ next.cursor + next.left <= MaxBlocks /\ next.block + next.left <= NumberOfBlocks
    BY Known DEF OnCard
<1>2. operation \in {"read", "write"} /\ chunkBlocks = Least(next.left, MaxBlocksPerTransfer)
    BY DEF Inv, PhaseInv, CursorInv, Sound
<1>3. chunkBlocks \in Nat /\ chunkBlocks <= next.left
    BY <1>1, <1>2, LeastIs, MaxBlocksPerTransferAssumption
<1> QED BY <1>1, <1>3, Known DEF OnCard, Transferred, At

(* The event of a transfer counts when it is waited for. *)
LEMMA HandleEventIs == Inv /\ HandleEvent => Steps
<1> SUFFICES ASSUME Inv, HandleEvent
             PROVE  Steps
    OBVIOUS
<1>1. /\ Handling("HandleEvent")
      /\ UNCHANGED <<task, pendingEventOperation, card, constants, buffer, told>>
      /\ eventScheduled' = FALSE /\ pendingEvent' = "none"
    BY DEF HandleEvent
<1>2. Queued("HandleEvent")
    BY <1>1 DEF Handling, Queued, In, Inv, Types, EventTypes
<1>3. CASE phase = "transferring"
  <2>1. eventScheduled /\ transfer = "none" /\ pendingEvent # "none" /\ pendingEventOperation = operationId
      BY <1>2, <1>3 DEF Inv, QueueInv, TransferInv
  <2>2. operation \in {"read", "write"}
      BY <1>3 DEF Inv, PhaseInv
  <2>3. CASE pendingEvent = "failed"
    <3>1. /\ Complete("failed", Tail(queue))
          /\ UNCHANGED <<progress, remainingPolls, peripheral, disturbed>>
        BY <1>3, <2>1, <2>3 DEF HandleEvent
    <3>2. Halts("failed", Tail(queue))
        BY <1>3, <3>1, CompleteIs DEF Halts
    <3> QED BY <1>1, <1>3, <2>3, <3>1, <3>2 DEF ChunkFails, Steps
  <2>4. CASE pendingEvent = "transferred"
    <3>1. ChunkTransferred(Tail(queue))
        BY <1>3, <2>1, <2>4 DEF HandleEvent
    <3>2. OnCard(Transferred)
        BY <1>3, NextChunk
    <3>3. GoesOn(operation, Transferred, Tail(queue)) /\ remainingPolls' \in 0 .. MaxPolls
      <4>1. CASE operation = "write"
        <5>1. WaitForCard(busy, FALSE, "write", Transferred, Tail(queue))
            BY <3>1, <4>1 DEF ChunkTransferred, Transferred
        <5>2. PICK state \in CardStates(busy, FALSE) :
                 PollCard(state, MaxPolls, "write", Transferred, Tail(queue))
            BY <5>1 DEF WaitForCard
        <5>3. state \in {"error", "busy", "transfer"} /\ (state = "transfer" => ~busy)
            BY <5>2 DEF CardStates
        <5>4. MaxPolls \in 0 .. MaxPolls
            BY Known
        <5> QED BY <1>3, <3>2, <4>1, <5>2, <5>3, <5>4, PollCardIs DEF Inv
      <4>2. CASE operation = "read"
        <5>1. ContinueOrComplete(Transferred, Tail(queue)) /\ UNCHANGED remainingPolls
            BY <3>1, <4>2 DEF ChunkTransferred, Transferred
        <5>2. ~busy
            BY <1>3, <4>2 DEF Inv, CardInv
        <5> QED BY <1>3, <3>2, <4>2, <5>1, <5>2, ContinueIs, Known
      <4> QED BY <2>2, <4>1, <4>2
    <3> QED BY <1>1, <1>3, <2>4, <3>2, <3>3 DEF AfterChunk, Steps
  <2> QED BY <2>1, <2>3, <2>4 DEF Inv, Types, EventTypes
<1>4. CASE phase # "transferring"
  <2>1. queue' = Tail(queue) /\ UNCHANGED <<progress, control, peripheral, disturbed>>
      BY <1>4 DEF HandleEvent
  <2> QED BY <1>1, <1>4, <2>1 DEF EventIgnored, Steps
<1> QED BY <1>3, <1>4

(* A timer expires in the phase it is for. *)
LEMMA TimerIs == Inv /\ Timer => Steps
<1> SUFFICES ASSUME Inv, Timer
             PROVE  Steps
    OBVIOUS
<1>1. CASE OnTransferTimeout
  <2>1. phase = "transferring"
      BY <1>1 DEF OnTransferTimeout, Inv, PhaseInv, Types, ControlTypes
  <2>2. Complete("timeout", queue)
      BY <1>1 DEF OnTransferTimeout
  <2> QED BY <1>1, <2>1, <2>2, CompleteIs DEF OnTransferTimeout, TimesOut, Steps
<1>2. CASE PollTimer
  <2>1. phase = "waitingForCard" /\ operation \in {"write", "erase", "flush"}
      BY <1>2 DEF PollTimer, Inv, PhaseInv, Types, ControlTypes, TaskTypes, Kind
  <2>2. PICK state \in CardStates(busy, FALSE) : PollCard(state, remainingPolls, operation, next,
        queue)
      BY <1>2 DEF PollTimer
  <2>3. state \in {"error", "busy", "transfer"} /\ (state = "transfer" => ~busy)
      BY <2>2 DEF CardStates
  <2>4. GoesOn(operation, next, queue) /\ remainingPolls' \in 0 .. MaxPolls
      BY <2>1, <2>2, <2>3, PollCardIs, Known DEF Inv
  <2> QED BY <1>2, <2>1, <2>4 DEF PollTimer, AfterPoll, Steps
<1> QED BY <1>1, <1>2 DEF Timer

(* Every step is one of Steps. *)
LEMMA StepIs == Inv /\ [Next]_vars => Steps
<1> SUFFICES ASSUME Inv, [Next]_vars
             PROVE  Steps
    OBVIOUS
<1>1. CASE Request
    BY <1>1, ReadBlocksIs, WriteBlocksIs, EraseBlocksIs, FlushIs DEF Request
<1>2. CASE Dispatch
  <2>1. Finish => Steps
      BY DEF Steps
  <2> QED BY <1>2, <2>1, HandleInterruptIs, HandleEventIs DEF Dispatch
<1>3. CASE Timer
    BY <1>3, TimerIs
<1>4. CASE Device
    BY <1>4 DEF Device, Steps
<1>5. CASE DataCache
    BY <1>5 DEF Steps
<1>6. CASE UNCHANGED vars
    BY <1>6 DEF Steps
<1> QED BY <1>1, <1>2, <1>3, <1>4, <1>5, <1>6 DEF Next

-----------------------------------------------------------------------------
(* The queue of the dispatcher. *)

(* The queue without the entry that is handled.                            *)
LEMMA TailIs ==
    ASSUME NEW q \in Seq(Entry), q # <<>>
    PROVE  /\ Tail(q) \in Seq(Entry) /\ Head(q) \in Entry /\ In(q, Head(q))
           /\ \A entry : In(Tail(q), entry) => In(q, entry)
           /\ \A entry : In(q, entry) /\ entry # Head(q) => In(Tail(q), entry)
           /\ Orderly(q) =>
                /\ Orderly(Tail(q))
                /\ Head(q) # "HandleInterrupt" => ~In(Tail(q), Head(q))
                /\ Head(q) = "Finish" => ~In(q, "HandleEvent")
<1>1. /\ Tail(q) \in Seq(Entry) /\ Len(Tail(q)) = Len(q) - 1 /\ Len(q) \in Nat /\ Len(q) > 0
      /\ \A i \in 1 .. Len(Tail(q)) : Tail(q)[i] = q[i + 1]
      /\ Head(q) = q[1]
    OBVIOUS
<1>2. ASSUME NEW entry, In(Tail(q), entry)
      PROVE  In(q, entry)
  <2>1. PICK i \in 1 .. Len(Tail(q)) : Tail(q)[i] = entry
      BY <1>2 DEF In
  <2>2. i + 1 \in 1 .. Len(q) /\ q[i + 1] = entry
      BY <1>1, <2>1
  <2> QED BY <2>2 DEF In
<1>3. ASSUME NEW entry, In(q, entry), entry # Head(q)
      PROVE  In(Tail(q), entry)
  <2>1. PICK i \in 1 .. Len(q) : q[i] = entry
      BY <1>3 DEF In
  <2>2. i - 1 \in 1 .. Len(Tail(q)) /\ Tail(q)[i - 1] = entry
      BY <1>1, <1>3, <2>1
  <2> QED BY <2>2 DEF In
<1>4. ASSUME Orderly(q)
      PROVE  /\ Orderly(Tail(q))
             /\ Head(q) # "HandleInterrupt" => ~In(Tail(q), Head(q))
             /\ Head(q) = "Finish" => ~In(q, "HandleEvent")
  <2>1. ASSUME NEW i \in 1 .. Len(Tail(q)), NEW j \in 1 .. Len(Tail(q))
        PROVE  /\ Tail(q)[i] = Tail(q)[j] /\ Tail(q)[i] # "HandleInterrupt" => i = j
               /\ Tail(q)[i] = "HandleEvent" /\ Tail(q)[j] = "Finish" => i < j
    <3>1. i + 1 \in 1 .. Len(q) /\ j + 1 \in 1 .. Len(q)
        BY <1>1
    <3> QED BY <1>1, <1>4, <3>1 DEF Orderly
  <2>2. ASSUME Head(q) # "HandleInterrupt", In(Tail(q), Head(q))
        PROVE  FALSE
    <3>1. PICK i \in 1 .. Len(Tail(q)) : Tail(q)[i] = Head(q)
        BY <2>2 DEF In
    <3>2. i + 1 \in 1 .. Len(q) /\ 1 \in 1 .. Len(q) /\ q[i + 1] = q[1]
        BY <1>1, <3>1
    <3> QED BY <1>1, <1>4, <2>2, <3>2 DEF Orderly
  <2>3. ASSUME Head(q) = "Finish", In(q, "HandleEvent")
        PROVE  FALSE
    <3>1. PICK i \in 1 .. Len(q) : q[i] = "HandleEvent"
        BY <2>3 DEF In
    <3>2. 1 \in 1 .. Len(q) /\ q[1] = "Finish"
        BY <1>1, <2>3
    <3> QED BY <1>4, <3>1, <3>2 DEF Orderly
  <2> QED BY <2>1, <2>2, <2>3 DEF Orderly
<1>5. Head(q) \in Entry /\ In(q, Head(q))
    BY <1>1 DEF In
<1> QED BY <1>1, <1>2, <1>3, <1>4, <1>5

(* A new entry comes last, and at most one of each but the interrupt.      *)
LEMMA AppendIs ==
    ASSUME NEW q \in Seq(Entry), NEW last \in Entry
    PROVE  /\ Append(q, last) \in Seq(Entry)
           /\ \A entry : In(Append(q, last), entry) <=> In(q, entry) \/ entry = last
           /\ Orderly(q) /\ (last # "HandleInterrupt" => ~In(q, last))
              /\ (last = "HandleEvent" => ~In(q, "Finish")) => Orderly(Append(q, last))
<1>1. /\ Append(q, last) \in Seq(Entry) /\ Len(Append(q, last)) = Len(q) + 1 /\ Len(q) \in Nat
      /\ \A i \in 1 .. Len(q) : Append(q, last)[i] = q[i]
      /\ Append(q, last)[Len(q) + 1] = last
    OBVIOUS
<1>2. ASSUME NEW entry, In(Append(q, last), entry), entry # last
      PROVE  In(q, entry)
  <2>1. PICK i \in 1 .. Len(q) + 1 : Append(q, last)[i] = entry
      BY <1>1, <1>2 DEF In
  <2>2. i \in 1 .. Len(q)
      BY <1>1, <1>2, <2>1
  <2> QED BY <1>1, <2>1, <2>2 DEF In
<1>3. ASSUME NEW entry, In(q, entry)
      PROVE  In(Append(q, last), entry)
  <2>1. PICK i \in 1 .. Len(q) : q[i] = entry
      BY <1>3 DEF In
  <2>2. i \in 1 .. Len(Append(q, last))
      BY <1>1
  <2> QED BY <1>1, <2>1, <2>2 DEF In
<1>4. In(Append(q, last), last)
  <2>1. Len(q) + 1 \in 1 .. Len(Append(q, last))
      BY <1>1
  <2> QED BY <1>1, <2>1 DEF In
<1>5. ASSUME Orderly(q), last # "HandleInterrupt" => ~In(q, last),
             last = "HandleEvent" => ~In(q, "Finish"),
             NEW i \in 1 .. Len(Append(q, last)), NEW j \in 1 .. Len(Append(q, last))
      PROVE  /\ Append(q, last)[i] = Append(q, last)[j] /\ Append(q, last)[i] # "HandleInterrupt" => i = j
             /\ Append(q, last)[i] = "HandleEvent" /\ Append(q, last)[j] = "Finish" => i < j
  <2>1. CASE i \in 1 .. Len(q) /\ j \in 1 .. Len(q)
    <3>1. Append(q, last)[i] = q[i] /\ Append(q, last)[j] = q[j]
        BY <1>1, <2>1
    <3> QED BY <1>5, <2>1, <3>1 DEF Orderly
  <2>2. CASE i = Len(q) + 1 /\ j = Len(q) + 1
      BY <1>1, <2>2
  <2>3. CASE i \in 1 .. Len(q) /\ j = Len(q) + 1
      BY <1>1, <1>5, <2>3 DEF In
  <2>4. CASE i = Len(q) + 1 /\ j \in 1 .. Len(q)
      BY <1>1, <1>5, <2>4 DEF In
  <2> QED BY <1>1, <2>1, <2>2, <2>3, <2>4
<1>6. Orderly(q) /\ (last # "HandleInterrupt" => ~In(q, last))
      /\ (last = "HandleEvent" => ~In(q, "Finish")) => Orderly(Append(q, last))
    BY <1>5 DEF Orderly
<1> QED BY <1>1, <1>2, <1>3, <1>4, <1>6

(* The entry that is handled is in the queue. *)
LEMMA HandlingIs ==
    ASSUME Inv, NEW entry, Handling(entry)
    PROVE  queue \in Seq(Entry) /\ queue # <<>> /\ Head(queue) = entry /\ Queued(entry)
BY TailIs DEF Handling, Queued, Inv, Types, EventTypes

-----------------------------------------------------------------------------
(* Every step keeps the invariant. *)

(* Where the block is that the DMA moves. *)
LEMMA MoveBlockIs ==
    ASSUME Inv, MoveBlock
    PROVE  /\ phase = "transferring" /\ Sound /\ operation \in {"read", "write"}
           /\ Size \in Nat /\ Done \in Nat /\ Done + 1 <= Size /\ Done = next.cursor + moved
           /\ request.first \in Nat /\ next.block + moved = request.first + Done
           /\ request.first + Done \in Block /\ request.first + Size <= NumberOfBlocks
           /\ buffer \in [1 .. Size -> Line] /\ moved + 1 <= chunkBlocks /\ moved \in Nat
<1>1. phase = "transferring" /\ Sound /\ operation \in {"read", "write"}
    BY DEF MoveBlock, Inv, TransferInv, PhaseInv, Sound
<1>2. /\ request.first \in Nat /\ request.end \in Nat /\ moved \in Nat /\ chunkBlocks \in Nat
      /\ next.cursor \in Nat /\ next.block \in Nat /\ next.left \in Nat /\ NumberOfBlocks \in Nat
    BY Known, MaxBlocksPerTransferAssumption DEF Inv, Types, TaskTypes, ProgressTypes
<1>3. /\ request.first <= request.end /\ request.end <= NumberOfBlocks
      /\ next.block = request.first + next.cursor /\ next.left = request.end - next.block
      /\ chunkBlocks = Least(next.left, MaxBlocksPerTransfer)
    BY <1>1 DEF Inv, CursorInv
<1>4. chunkBlocks <= next.left /\ moved < chunkBlocks
    BY <1>2, <1>3, LeastIs, MaxBlocksPerTransferAssumption DEF MoveBlock
<1>5. Done = next.cursor + moved
    BY <1>1 DEF Done
<1>6. buffer \in [1 .. Size -> Line]
    BY <1>1 DEF Inv, BufferInv
<1>7. Size \in Nat /\ Done \in Nat /\ Done + 1 <= Size /\ request.first + Size <= NumberOfBlocks
      /\ next.block + moved = request.first + Done
    BY <1>2, <1>3, <1>4, <1>5 DEF Size
<1>8. request.first + Done \in Block
    BY <1>2, <1>7 DEF Block
<1> QED BY <1>1, <1>2, <1>4, <1>5, <1>6, <1>7, <1>8

(* The types of the request. *)
LEMMA TaskStep ==
    ASSUME Inv, [Next]_vars
    PROVE  TaskTypes'
<1>a. /\ NumberOfBlocks \in Nat /\ MaxBlocks \in Nat /\ MaxOperations \in Nat /\ MaxPolls \in Nat
      /\ MaxBlocksPerTransfer \in Nat \ {0}
    BY NumberOfBlocksAssumption, MaxBlocksPerTransferAssumption, BoundsAssumption
<1>b. TaskTypes
    BY DEF Inv, Types
<1>1. ASSUME NEW kind \in {"read", "write"}, NEW first \in Nat, NEW blocks \in 0 .. MaxBlocks,
             BeginsTransfer(kind, first, blocks)
      PROVE  TaskTypes'
    BY <1>1, <1>a, <1>b DEF BeginsTransfer, Accepted, Starts, At, events, constants, card,
                            TaskTypes, Kind, Results, NoRequest
<1>2. ASSUME NEW kind \in Kind, NEW first \in Nat, NEW end \in Nat, NEW result \in Results,
             EndsAtOnce(kind, first, end, result)
      PROVE  TaskTypes'
    BY <1>2, <1>a, <1>b DEF EndsAtOnce, Accepted, OnlyErases, Halts, OnCard, events, constants,
                            peripheral, TaskTypes, Kind, Results, NoRequest
<1>3. ASSUME NEW kind \in Kind, NEW first \in Nat, NEW end \in Nat,
             WaitsAtOnce(kind, first, end)
      PROVE  TaskTypes'
    BY <1>3, <1>a, <1>b DEF WaitsAtOnce, Accepted, OnlyErases, Waits, events, constants, peripheral,
                            TaskTypes, Kind, Results, NoRequest
<1>4. CASE InterruptIgnored
    BY <1>4, <1>a, <1>b DEF InterruptIgnored, task, progress, control, events, card, constants,
                            TaskTypes, Kind, Results, NoRequest
<1>5. CASE InterruptReports
    BY <1>5, <1>a, <1>b DEF InterruptReports, task, progress, control, card, constants, TaskTypes,
                            Kind, Results, NoRequest
<1>6. CASE EventIgnored
    BY <1>6, <1>a, <1>b DEF EventIgnored, task, progress, control, peripheral, card, constants,
                            TaskTypes, Kind, Results, NoRequest
<1>7. CASE ChunkFails
    BY <1>7, <1>a, <1>b DEF ChunkFails, Halts, task, progress, peripheral, card, constants,
                            TaskTypes, Kind, Results, NoRequest
<1>8. CASE AfterChunk
    BY <1>8, <1>a, <1>b DEF AfterChunk, GoesOn, Halts, Starts, Waits, OnCard, task, card, constants,
                            peripheral, TaskTypes, Kind, Results, NoRequest
<1>9. CASE AfterPoll
    BY <1>9, <1>a, <1>b DEF AfterPoll, GoesOn, Halts, Starts, Waits, task, events, card, constants,
                            peripheral, TaskTypes, Kind, Results, NoRequest
<1>10. CASE TimesOut
    BY <1>10, <1>a, <1>b DEF TimesOut, task, progress, events, constants, TaskTypes, Kind, Results,
                             NoRequest
<1>11. CASE Finish
    BY <1>11, <1>a, <1>b DEF Finish, progress, events, peripheral, card, constants, TaskTypes, Kind,
                             Results, NoRequest
<1>12. CASE MoveBlock
    BY <1>12, <1>a, <1>b DEF MoveBlock, task, progress, control, events, constants, TaskTypes, Kind,
                             Results, NoRequest
<1>13. CASE TransferEnds
    BY <1>13, <1>a, <1>b DEF TransferEnds, task, progress, control, events, constants, TaskTypes,
                             Kind, Results, NoRequest
<1>14. CASE CardReady
    BY <1>14, <1>a, <1>b DEF CardReady, task, progress, control, events, peripheral, constants,
                             TaskTypes, Kind, Results, NoRequest
<1>15. CASE DataCache
    BY <1>15, <1>a, <1>b DEF DataCache, task, progress, control, events, peripheral, card,
                             constants, TaskTypes, Kind, Results, NoRequest
<1>16. CASE UNCHANGED vars
    BY <1>16, <1>a, <1>b DEF vars, task, progress, control, events, peripheral, card, constants,
                             TaskTypes, Kind, Results, NoRequest
<1> QED
    BY StepIs, <1>1, <1>2, <1>3, <1>4, <1>5, <1>6, <1>7, <1>8, <1>9, <1>10, <1>11, <1>12, <1>13,
       <1>14, <1>15, <1>16 DEF Steps

(* The types of the phase. *)
LEMMA ControlStep ==
    ASSUME Inv, [Next]_vars
    PROVE  ControlTypes'
<1>a. /\ NumberOfBlocks \in Nat /\ MaxBlocks \in Nat /\ MaxOperations \in Nat /\ MaxPolls \in Nat
      /\ MaxBlocksPerTransfer \in Nat \ {0}
    BY NumberOfBlocksAssumption, MaxBlocksPerTransferAssumption, BoundsAssumption
<1>b. ControlTypes
    BY DEF Inv, Types
<1>1. ASSUME NEW kind \in {"read", "write"}, NEW first \in Nat, NEW blocks \in 0 .. MaxBlocks,
             BeginsTransfer(kind, first, blocks)
      PROVE  ControlTypes'
    BY <1>1, <1>a, <1>b DEF BeginsTransfer, Accepted, Starts, At, events, constants, card,
                            ControlTypes, Results
<1>2. ASSUME NEW kind \in Kind, NEW first \in Nat, NEW end \in Nat, NEW result \in Results,
             EndsAtOnce(kind, first, end, result)
      PROVE  ControlTypes'
    BY <1>2, <1>a, <1>b DEF EndsAtOnce, Accepted, OnlyErases, Halts, OnCard, events, constants,
                            peripheral, ControlTypes, Results
<1>3. ASSUME NEW kind \in Kind, NEW first \in Nat, NEW end \in Nat,
             WaitsAtOnce(kind, first, end)
      PROVE  ControlTypes'
    BY <1>3, <1>a, <1>b DEF WaitsAtOnce, Accepted, OnlyErases, Waits, events, constants, peripheral,
                            ControlTypes, Results
<1>4. CASE InterruptIgnored
    BY <1>4, <1>a, <1>b DEF InterruptIgnored, task, progress, control, events, card, constants,
                            ControlTypes, Results
<1>5. CASE InterruptReports
    BY <1>5, <1>a, <1>b DEF InterruptReports, task, progress, control, card, constants,
                            ControlTypes, Results
<1>6. CASE EventIgnored
    BY <1>6, <1>a, <1>b DEF EventIgnored, task, progress, control, peripheral, card, constants,
                            ControlTypes, Results
<1>7. CASE ChunkFails
    BY <1>7, <1>a, <1>b DEF ChunkFails, Halts, task, progress, peripheral, card, constants,
                            ControlTypes, Results
<1>8. CASE AfterChunk
    BY <1>8, <1>a, <1>b DEF AfterChunk, GoesOn, Halts, Starts, Waits, OnCard, task, card, constants,
                            peripheral, ControlTypes, Results
<1>9. CASE AfterPoll
    BY <1>9, <1>a, <1>b DEF AfterPoll, GoesOn, Halts, Starts, Waits, task, events, card, constants,
                            peripheral, ControlTypes, Results
<1>10. CASE TimesOut
    BY <1>10, <1>a, <1>b DEF TimesOut, task, progress, events, constants, ControlTypes, Results
<1>11. CASE Finish
    BY <1>11, <1>a, <1>b DEF Finish, progress, events, peripheral, card, constants, ControlTypes,
                             Results
<1>12. CASE MoveBlock
    BY <1>12, <1>a, <1>b DEF MoveBlock, task, progress, control, events, constants, ControlTypes,
                             Results
<1>13. CASE TransferEnds
    BY <1>13, <1>a, <1>b DEF TransferEnds, task, progress, control, events, constants, ControlTypes,
                             Results
<1>14. CASE CardReady
    BY <1>14, <1>a, <1>b DEF CardReady, task, progress, control, events, peripheral, constants,
                             ControlTypes, Results
<1>15. CASE DataCache
    BY <1>15, <1>a, <1>b DEF DataCache, task, progress, control, events, peripheral, card,
                             constants, ControlTypes, Results
<1>16. CASE UNCHANGED vars
    BY <1>16, <1>a, <1>b DEF vars, task, progress, control, events, peripheral, card, constants,
                             ControlTypes, Results
<1> QED
    BY StepIs, <1>1, <1>2, <1>3, <1>4, <1>5, <1>6, <1>7, <1>8, <1>9, <1>10, <1>11, <1>12, <1>13,
       <1>14, <1>15, <1>16 DEF Steps

(* The cursor stays in the buffer and on the card. *)
LEMMA ProgressStep ==
    ASSUME Inv, [Next]_vars
    PROVE  ProgressTypes'
<1>a. /\ NumberOfBlocks \in Nat /\ MaxBlocks \in Nat /\ MaxOperations \in Nat /\ MaxPolls \in Nat
      /\ MaxBlocksPerTransfer \in Nat \ {0}
    BY NumberOfBlocksAssumption, MaxBlocksPerTransferAssumption, BoundsAssumption
<1>b. ProgressTypes
    BY DEF Inv, Types
<1>1. ASSUME NEW kind \in {"read", "write"}, NEW first \in Nat, NEW blocks \in 0 .. MaxBlocks,
             BeginsTransfer(kind, first, blocks)
      PROVE  ProgressTypes'
    BY <1>1, <1>a, <1>b, LeastIs DEF BeginsTransfer, Accepted, Starts, At, events, constants, card,
                                     ProgressTypes
<1>2. ASSUME NEW kind \in Kind, NEW first \in Nat, NEW end \in Nat, NEW result \in Results,
             EndsAtOnce(kind, first, end, result)
      PROVE  ProgressTypes'
    BY <1>2, <1>a, <1>b, LeastIs DEF EndsAtOnce, Accepted, OnlyErases, Halts, OnCard, events,
                                     constants, peripheral, ProgressTypes
<1>3. ASSUME NEW kind \in Kind, NEW first \in Nat, NEW end \in Nat,
             WaitsAtOnce(kind, first, end)
      PROVE  ProgressTypes'
    BY <1>3, <1>a, <1>b, LeastIs DEF WaitsAtOnce, Accepted, OnlyErases, Waits, events, constants,
                                     peripheral, ProgressTypes
<1>4. CASE InterruptIgnored
    BY <1>4, <1>a, <1>b, LeastIs DEF InterruptIgnored, task, progress, control, events, card,
                                     constants, ProgressTypes
<1>5. CASE InterruptReports
    BY <1>5, <1>a, <1>b, LeastIs DEF InterruptReports, task, progress, control, card, constants,
                                     ProgressTypes
<1>6. CASE EventIgnored
    BY <1>6, <1>a, <1>b, LeastIs DEF EventIgnored, task, progress, control, peripheral, card,
                                     constants, ProgressTypes
<1>7. CASE ChunkFails
    BY <1>7, <1>a, <1>b, LeastIs DEF ChunkFails, Halts, task, progress, peripheral, card, constants,
                                     ProgressTypes
<1>8. CASE AfterChunk
  <2>1. OnCard(next') /\ chunkBlocks' \in 0 .. MaxBlocksPerTransfer
    <3>1. OnCard(next) /\ OnCard(Transferred)
        BY <1>8, Known DEF AfterChunk
    <3>2. next' = next \/ next' = Transferred
        BY <1>8 DEF AfterChunk, GoesOn, Starts, Waits
    <3>3. Transferred.left \in Nat
        BY <3>1 DEF OnCard
    <3>4. Least(Transferred.left, MaxBlocksPerTransfer) \in 0 .. MaxBlocksPerTransfer
        BY <1>a, <3>3, LeastIs
    <3>5. chunkBlocks' \in 0 .. MaxBlocksPerTransfer
        BY <1>8, <1>b, <3>4 DEF AfterChunk, GoesOn, Starts, Waits, ProgressTypes
    <3> QED BY <3>1, <3>2, <3>5
  <2>2. moved' \in 0 .. MaxBlocksPerTransfer
      BY <1>8, <1>a, <1>b DEF AfterChunk, GoesOn, Halts, Starts, Waits, peripheral, ProgressTypes
  <2> QED BY <2>1, <2>2 DEF OnCard, ProgressTypes
<1>9. CASE AfterPoll
  <2>1. OnCard(next') /\ chunkBlocks' \in 0 .. MaxBlocksPerTransfer
    <3>1. OnCard(next) /\ OnCard(next)
        BY <1>9, Known DEF AfterPoll
    <3>2. next' = next \/ next' = next
        BY <1>9 DEF AfterPoll, GoesOn, Starts, Waits
    <3>3. next.left \in Nat
        BY <3>1 DEF OnCard
    <3>4. Least(next.left, MaxBlocksPerTransfer) \in 0 .. MaxBlocksPerTransfer
        BY <1>a, <3>3, LeastIs
    <3>5. chunkBlocks' \in 0 .. MaxBlocksPerTransfer
        BY <1>9, <1>b, <3>4 DEF AfterPoll, GoesOn, Starts, Waits, ProgressTypes
    <3> QED BY <3>1, <3>2, <3>5
  <2>2. moved' \in 0 .. MaxBlocksPerTransfer
      BY <1>9, <1>a, <1>b DEF AfterPoll, GoesOn, Halts, Starts, Waits, peripheral, ProgressTypes
  <2> QED BY <2>1, <2>2 DEF OnCard, ProgressTypes
<1>10. CASE TimesOut
    BY <1>10, <1>a, <1>b, LeastIs DEF TimesOut, task, progress, events, constants, ProgressTypes
<1>11. CASE Finish
    BY <1>11, <1>a, <1>b, LeastIs DEF Finish, progress, events, peripheral, card, constants,
                                      ProgressTypes
<1>12. CASE MoveBlock
    BY <1>12, <1>a, <1>b, LeastIs DEF MoveBlock, task, progress, control, events, constants,
                                      ProgressTypes
<1>13. CASE TransferEnds
    BY <1>13, <1>a, <1>b, LeastIs DEF TransferEnds, task, progress, control, events, constants,
                                      ProgressTypes
<1>14. CASE CardReady
    BY <1>14, <1>a, <1>b, LeastIs DEF CardReady, task, progress, control, events, peripheral,
                                      constants, ProgressTypes
<1>15. CASE DataCache
    BY <1>15, <1>a, <1>b, LeastIs DEF DataCache, task, progress, control, events, peripheral, card,
                                      constants, ProgressTypes
<1>16. CASE UNCHANGED vars
    BY <1>16, <1>a, <1>b, LeastIs DEF vars, task, progress, control, events, peripheral, card,
                                      constants, ProgressTypes
<1> QED
    BY StepIs, <1>1, <1>2, <1>3, <1>4, <1>5, <1>6, <1>7, <1>8, <1>9, <1>10, <1>11, <1>12, <1>13,
       <1>14, <1>15, <1>16 DEF Steps

(* The types of the events. *)
LEMMA EventStep ==
    ASSUME Inv, [Next]_vars
    PROVE  EventTypes'
<1>a. /\ NumberOfBlocks \in Nat /\ MaxBlocks \in Nat /\ MaxOperations \in Nat /\ MaxPolls \in Nat
      /\ MaxBlocksPerTransfer \in Nat \ {0}
    BY NumberOfBlocksAssumption, MaxBlocksPerTransferAssumption, BoundsAssumption
<1>b. EventTypes
    BY DEF Inv, Types
<1>c. operationId \in Nat /\ queue \in Seq(Entry)
    BY DEF Inv, Types, TaskTypes, EventTypes
<1>d. /\ queue # <<>> => Tail(queue) \in Seq(Entry)
      /\ \A entry \in Entry : /\ Append(queue, entry) \in Seq(Entry)
                              /\ queue # <<>> => Append(Tail(queue), entry) \in Seq(Entry)
    BY <1>c, AppendIs, TailIs
<1>1. ASSUME NEW kind \in {"read", "write"}, NEW first \in Nat, NEW blocks \in 0 .. MaxBlocks,
             BeginsTransfer(kind, first, blocks)
      PROVE  EventTypes'
    BY <1>1, <1>a, <1>b, <1>c, <1>d DEF BeginsTransfer, Accepted, Starts, At, events, constants,
                                        card, EventTypes, Handling, Entry, Reports, Failures
<1>2. ASSUME NEW kind \in Kind, NEW first \in Nat, NEW end \in Nat, NEW result \in Results,
             EndsAtOnce(kind, first, end, result)
      PROVE  EventTypes'
    BY <1>2, <1>a, <1>b, <1>c, <1>d DEF EndsAtOnce, Accepted, OnlyErases, Halts, OnCard, events,
                                        constants, peripheral, EventTypes, Handling, Entry, Reports,
                                        Failures
<1>3. ASSUME NEW kind \in Kind, NEW first \in Nat, NEW end \in Nat,
             WaitsAtOnce(kind, first, end)
      PROVE  EventTypes'
    BY <1>3, <1>a, <1>b, <1>c, <1>d DEF WaitsAtOnce, Accepted, OnlyErases, Waits, events, constants,
                                        peripheral, EventTypes, Handling, Entry, Reports, Failures
<1>4. CASE InterruptIgnored
    BY <1>4, <1>a, <1>b, <1>c, <1>d DEF InterruptIgnored, task, progress, control, events, card,
                                        constants, EventTypes, Handling, Entry, Reports, Failures
<1>5. CASE InterruptReports
    BY <1>5, <1>a, <1>b, <1>c, <1>d DEF InterruptReports, task, progress, control, card, constants,
                                        EventTypes, Handling, Entry, Reports, Failures
<1>6. CASE EventIgnored
    BY <1>6, <1>a, <1>b, <1>c, <1>d DEF EventIgnored, task, progress, control, peripheral, card,
                                        constants, EventTypes, Handling, Entry, Reports, Failures
<1>7. CASE ChunkFails
    BY <1>7, <1>a, <1>b, <1>c, <1>d DEF ChunkFails, Halts, task, progress, peripheral, card,
                                        constants, EventTypes, Handling, Entry, Reports, Failures
<1>8. CASE AfterChunk
    BY <1>8, <1>a, <1>b, <1>c, <1>d DEF AfterChunk, GoesOn, Halts, Starts, Waits, OnCard, task,
                                        card, constants, peripheral, EventTypes, Handling, Entry,
                                        Reports, Failures
<1>9. CASE AfterPoll
    BY <1>9, <1>a, <1>b, <1>c, <1>d DEF AfterPoll, GoesOn, Halts, Starts, Waits, task, events, card,
                                        constants, peripheral, EventTypes, Handling, Entry, Reports,
                                        Failures
<1>10. CASE TimesOut
    BY <1>10, <1>a, <1>b, <1>c, <1>d DEF TimesOut, task, progress, events, constants, EventTypes,
                                         Handling, Entry, Reports, Failures
<1>11. CASE Finish
    BY <1>11, <1>a, <1>b, <1>c, <1>d DEF Finish, progress, events, peripheral, card, constants,
                                         EventTypes, Handling, Entry, Reports, Failures
<1>12. CASE MoveBlock
    BY <1>12, <1>a, <1>b, <1>c, <1>d DEF MoveBlock, task, progress, control, events, constants,
                                         EventTypes, Handling, Entry, Reports, Failures
<1>13. CASE TransferEnds
    BY <1>13, <1>a, <1>b, <1>c, <1>d DEF TransferEnds, task, progress, control, events, constants,
                                         EventTypes, Handling, Entry, Reports, Failures
<1>14. CASE CardReady
    BY <1>14, <1>a, <1>b, <1>c, <1>d DEF CardReady, task, progress, control, events, peripheral,
                                         constants, EventTypes, Handling, Entry, Reports, Failures
<1>15. CASE DataCache
    BY <1>15, <1>a, <1>b, <1>c, <1>d DEF DataCache, task, progress, control, events, peripheral,
                                         card, constants, EventTypes, Handling, Entry, Reports,
                                         Failures
<1>16. CASE UNCHANGED vars
    BY <1>16, <1>a, <1>b, <1>c, <1>d DEF vars, task, progress, control, events, peripheral, card,
                                         constants, EventTypes, Handling, Entry, Reports, Failures
<1> QED
    BY StepIs, <1>1, <1>2, <1>3, <1>4, <1>5, <1>6, <1>7, <1>8, <1>9, <1>10, <1>11, <1>12, <1>13,
       <1>14, <1>15, <1>16 DEF Steps

(* The types of the card. *)
LEMMA CardStep ==
    ASSUME Inv, [Next]_vars
    PROVE  CardTypes'
<1>a. /\ NumberOfBlocks \in Nat /\ MaxBlocks \in Nat /\ MaxOperations \in Nat /\ MaxPolls \in Nat
      /\ MaxBlocksPerTransfer \in Nat \ {0}
    BY NumberOfBlocksAssumption, MaxBlocksPerTransferAssumption, BoundsAssumption
<1>b. CardTypes
    BY DEF Inv, Types
<1>1. ASSUME NEW kind \in {"read", "write"}, NEW first \in Nat, NEW blocks \in 0 .. MaxBlocks,
             BeginsTransfer(kind, first, blocks)
      PROVE  CardTypes'
    BY <1>1, <1>a, <1>b DEF BeginsTransfer, Accepted, Starts, At, events, constants, card, CardTypes
<1>2. ASSUME NEW kind \in Kind, NEW first \in Nat, NEW end \in Nat, NEW result \in Results,
             EndsAtOnce(kind, first, end, result)
      PROVE  CardTypes'
    BY <1>2, <1>a, <1>b DEF EndsAtOnce, Accepted, OnlyErases, Halts, OnCard, events, constants,
                            peripheral, CardTypes
<1>3. ASSUME NEW kind \in Kind, NEW first \in Nat, NEW end \in Nat,
             WaitsAtOnce(kind, first, end)
      PROVE  CardTypes'
    BY <1>3, <1>a, <1>b DEF WaitsAtOnce, Accepted, OnlyErases, Waits, events, constants, peripheral,
                            CardTypes
<1>4. CASE InterruptIgnored
    BY <1>4, <1>a, <1>b DEF InterruptIgnored, task, progress, control, events, card, constants,
                            CardTypes
<1>5. CASE InterruptReports
    BY <1>5, <1>a, <1>b DEF InterruptReports, task, progress, control, card, constants, CardTypes
<1>6. CASE EventIgnored
    BY <1>6, <1>a, <1>b DEF EventIgnored, task, progress, control, peripheral, card, constants,
                            CardTypes
<1>7. CASE ChunkFails
    BY <1>7, <1>a, <1>b DEF ChunkFails, Halts, task, progress, peripheral, card, constants,
                            CardTypes
<1>8. CASE AfterChunk
    BY <1>8, <1>a, <1>b DEF AfterChunk, GoesOn, Halts, Starts, Waits, OnCard, task, card, constants,
                            peripheral, CardTypes
<1>9. CASE AfterPoll
    BY <1>9, <1>a, <1>b DEF AfterPoll, GoesOn, Halts, Starts, Waits, task, events, card, constants,
                            peripheral, CardTypes
<1>10. CASE TimesOut
    BY <1>10, <1>a, <1>b DEF TimesOut, task, progress, events, constants, CardTypes
<1>11. CASE Finish
    BY <1>11, <1>a, <1>b DEF Finish, progress, events, peripheral, card, constants, CardTypes
<1>12. CASE MoveBlock
  <2>1. /\ Done + 1 \in 1 .. Size /\ buffer \in [1 .. Size -> Line] /\ next.cursor + moved + 1 = Done + 1
        /\ next.block + moved \in Block
      BY <1>12, MoveBlockIs
  <2>2. buffer[next.cursor + moved + 1].memory \in Content
      BY <2>1 DEF Line
  <2>3. content' \in [Block -> Content] /\ unflushed' \subseteq Block
      BY <1>12, <1>b, <2>1, <2>2 DEF MoveBlock, CardTypes
  <2> QED BY <1>12, <1>b, <2>3 DEF MoveBlock, constants, CardTypes
<1>13. CASE TransferEnds
    BY <1>13, <1>a, <1>b DEF TransferEnds, task, progress, control, events, constants, CardTypes
<1>14. CASE CardReady
    BY <1>14, <1>a, <1>b DEF CardReady, task, progress, control, events, peripheral, constants,
                             CardTypes
<1>15. CASE DataCache
    BY <1>15, <1>a, <1>b DEF DataCache, task, progress, control, events, peripheral, card,
                             constants, CardTypes
<1>16. CASE UNCHANGED vars
    BY <1>16, <1>a, <1>b DEF vars, task, progress, control, events, peripheral, card, constants,
                             CardTypes
<1> QED
    BY StepIs, <1>1, <1>2, <1>3, <1>4, <1>5, <1>6, <1>7, <1>8, <1>9, <1>10, <1>11, <1>12, <1>13,
       <1>14, <1>15, <1>16 DEF Steps

(* The phase is that of the request, and its timer runs. *)
LEMMA PhaseStep ==
    ASSUME Inv, [Next]_vars
    PROVE  PhaseInv'
<1>a. /\ TaskTypes /\ ControlTypes /\ ProgressTypes /\ EventTypes /\ CardTypes
      /\ PhaseInv /\ QueueInv /\ TransferInv
    BY DEF Inv, Types
<1>b. Handling("Finish") => phase = "completing"
    BY HandlingIs DEF Inv, QueueInv
<1>1. ASSUME NEW kind \in {"read", "write"}, NEW first \in Nat, NEW blocks \in 0 .. MaxBlocks,
             BeginsTransfer(kind, first, blocks)
      PROVE  PhaseInv'
    BY <1>1, <1>a, <1>b DEF BeginsTransfer, Accepted, Starts, At, events, constants, card,
                            TaskTypes, ControlTypes, PhaseInv, TransferInv, NoRequest, Kind
<1>2. ASSUME NEW kind \in Kind, NEW first \in Nat, NEW end \in Nat, NEW result \in Results,
             EndsAtOnce(kind, first, end, result)
      PROVE  PhaseInv'
    BY <1>2, <1>a, <1>b DEF EndsAtOnce, Accepted, OnlyErases, Halts, OnCard, events, constants,
                            peripheral, TaskTypes, ControlTypes, PhaseInv, TransferInv, NoRequest,
                            Kind
<1>3. ASSUME NEW kind \in Kind, NEW first \in Nat, NEW end \in Nat,
             WaitsAtOnce(kind, first, end)
      PROVE  PhaseInv'
    BY <1>3, <1>a, <1>b DEF WaitsAtOnce, Accepted, OnlyErases, Waits, events, constants, peripheral,
                            TaskTypes, ControlTypes, PhaseInv, TransferInv, NoRequest, Kind
<1>4. CASE InterruptIgnored
    BY <1>4, <1>a, <1>b DEF InterruptIgnored, task, progress, control, events, card, constants,
                            TaskTypes, ControlTypes, PhaseInv, TransferInv, NoRequest, Kind
<1>5. CASE InterruptReports
    BY <1>5, <1>a, <1>b DEF InterruptReports, task, progress, control, card, constants, TaskTypes,
                            ControlTypes, PhaseInv, TransferInv, NoRequest, Kind
<1>6. CASE EventIgnored
    BY <1>6, <1>a, <1>b DEF EventIgnored, task, progress, control, peripheral, card, constants,
                            TaskTypes, ControlTypes, PhaseInv, TransferInv, NoRequest, Kind
<1>7. CASE ChunkFails
    BY <1>7, <1>a, <1>b DEF ChunkFails, Halts, task, progress, peripheral, card, constants,
                            TaskTypes, ControlTypes, PhaseInv, TransferInv, NoRequest, Kind
<1>8. CASE AfterChunk
    BY <1>8, <1>a, <1>b DEF AfterChunk, GoesOn, Halts, Starts, Waits, OnCard, task, card, constants,
                            peripheral, TaskTypes, ControlTypes, PhaseInv, TransferInv, NoRequest,
                            Kind
<1>9. CASE AfterPoll
    BY <1>9, <1>a, <1>b DEF AfterPoll, GoesOn, Halts, Starts, Waits, task, events, card, constants,
                            peripheral, TaskTypes, ControlTypes, PhaseInv, TransferInv, NoRequest,
                            Kind
<1>10. CASE TimesOut
    BY <1>10, <1>a, <1>b DEF TimesOut, task, progress, events, constants, TaskTypes, ControlTypes,
                             PhaseInv, TransferInv, NoRequest, Kind
<1>11. CASE Finish
    BY <1>11, <1>a, <1>b DEF Finish, progress, events, peripheral, card, constants, TaskTypes,
                             ControlTypes, PhaseInv, TransferInv, NoRequest, Kind
<1>12. CASE MoveBlock
    BY <1>12, <1>a, <1>b DEF MoveBlock, task, progress, control, events, constants, TaskTypes,
                             ControlTypes, PhaseInv, TransferInv, NoRequest, Kind
<1>13. CASE TransferEnds
    BY <1>13, <1>a, <1>b DEF TransferEnds, task, progress, control, events, constants, TaskTypes,
                             ControlTypes, PhaseInv, TransferInv, NoRequest, Kind
<1>14. CASE CardReady
    BY <1>14, <1>a, <1>b DEF CardReady, task, progress, control, events, peripheral, constants,
                             TaskTypes, ControlTypes, PhaseInv, TransferInv, NoRequest, Kind
<1>15. CASE DataCache
    BY <1>15, <1>a, <1>b DEF DataCache, task, progress, control, events, peripheral, card,
                             constants, TaskTypes, ControlTypes, PhaseInv, TransferInv, NoRequest,
                             Kind
<1>16. CASE UNCHANGED vars
    BY <1>16, <1>a, <1>b DEF vars, task, progress, control, events, peripheral, card, constants,
                             TaskTypes, ControlTypes, PhaseInv, TransferInv, NoRequest, Kind
<1> QED
    BY StepIs, <1>1, <1>2, <1>3, <1>4, <1>5, <1>6, <1>7, <1>8, <1>9, <1>10, <1>11, <1>12, <1>13,
       <1>14, <1>15, <1>16 DEF Steps

(* No report outlives its operation. *)
LEMMA QueueStep ==
    ASSUME Inv, [Next]_vars
    PROVE  QueueInv'
<1>a. /\ TaskTypes /\ ControlTypes /\ ProgressTypes /\ EventTypes /\ CardTypes
      /\ PhaseInv /\ QueueInv /\ TransferInv
    BY DEF Inv, Types
<1>b. queue \in Seq(Entry) /\ "HandleInterrupt" \in Entry /\ "HandleEvent" \in Entry /\ "Finish" \in Entry
    BY <1>a DEF EventTypes, Entry
<1>c. queue # <<>> =>
        /\ Tail(queue) \in Seq(Entry) /\ Queued(Head(queue))
        /\ \A entry : In(Tail(queue), entry) => Queued(entry)
        /\ \A entry : Queued(entry) /\ entry # Head(queue) => In(Tail(queue), entry)
        /\ Orderly(Tail(queue))
        /\ Head(queue) # "HandleInterrupt" => ~In(Tail(queue), Head(queue))
        /\ Head(queue) = "Finish" => ~Queued("HandleEvent")
    BY <1>a, <1>b, TailIs DEF Queued, QueueInv
<1>d. ASSUME NEW q \in Seq(Entry), NEW last \in Entry
      PROVE  /\ \A entry : In(Append(q, last), entry) <=> In(q, entry) \/ entry = last
             /\ Orderly(q) /\ (last # "HandleInterrupt" => ~In(q, last))
                /\ (last = "HandleEvent" => ~In(q, "Finish")) => Orderly(Append(q, last))
    BY AppendIs
<1>1. ASSUME NEW kind \in {"read", "write"}, NEW first \in Nat, NEW blocks \in 0 .. MaxBlocks,
             BeginsTransfer(kind, first, blocks)
      PROVE  QueueInv'
    BY <1>1, <1>a, <1>b, <1>c, <1>d DEF BeginsTransfer, Accepted, Starts, At, events, constants,
                                        card, TaskTypes, ControlTypes, EventTypes, PhaseInv,
                                        TransferInv, QueueInv, Queued, Handling
<1>2. ASSUME NEW kind \in Kind, NEW first \in Nat, NEW end \in Nat, NEW result \in Results,
             EndsAtOnce(kind, first, end, result)
      PROVE  QueueInv'
    BY <1>2, <1>a, <1>b, <1>c, <1>d DEF EndsAtOnce, Accepted, OnlyErases, Halts, OnCard, events,
                                        constants, peripheral, TaskTypes, ControlTypes, EventTypes,
                                        PhaseInv, TransferInv, QueueInv, Queued, Handling
<1>3. ASSUME NEW kind \in Kind, NEW first \in Nat, NEW end \in Nat,
             WaitsAtOnce(kind, first, end)
      PROVE  QueueInv'
    BY <1>3, <1>a, <1>b, <1>c, <1>d DEF WaitsAtOnce, Accepted, OnlyErases, Waits, events, constants,
                                        peripheral, TaskTypes, ControlTypes, EventTypes, PhaseInv,
                                        TransferInv, QueueInv, Queued, Handling
<1>4. CASE InterruptIgnored
    BY <1>4, <1>a, <1>b, <1>c, <1>d DEF InterruptIgnored, task, progress, control, events, card,
                                        constants, TaskTypes, ControlTypes, EventTypes, PhaseInv,
                                        TransferInv, QueueInv, Queued, Handling
<1>5. CASE InterruptReports
    BY <1>5, <1>a, <1>b, <1>c, <1>d DEF InterruptReports, task, progress, control, card, constants,
                                        TaskTypes, ControlTypes, EventTypes, PhaseInv, TransferInv,
                                        QueueInv, Queued, Handling
<1>6. CASE EventIgnored
    BY <1>6, <1>a, <1>b, <1>c, <1>d DEF EventIgnored, task, progress, control, peripheral, card,
                                        constants, TaskTypes, ControlTypes, EventTypes, PhaseInv,
                                        TransferInv, QueueInv, Queued, Handling
<1>7. CASE ChunkFails
  <2>1. \/ queue' = Tail(queue) /\ phase' \in {"transferring", "waitingForCard"}
        \/ queue' = Append(Tail(queue), "Finish") /\ phase' = "completing"
      BY <1>7 DEF ChunkFails, GoesOn, Halts, Starts, Waits
  <2>2. Tail(queue) \in Seq(Entry) /\ Orderly(Tail(queue)) /\ ~In(Tail(queue),
        "HandleEvent") /\ ~In(Tail(queue), "Finish")
      BY <1>7, <1>a, <1>b, <1>c DEF ChunkFails, Handling, Queued, QueueInv
  <2>3. /\ Orderly(queue') /\ ~In(queue', "HandleEvent")
        /\ In(queue', "Finish") <=> phase' = "completing"
    <3>1. CASE queue' = Tail(queue) /\ phase' \in {"transferring", "waitingForCard"}
        BY <2>2, <3>1
    <3>2. CASE queue' = Append(Tail(queue), "Finish") /\ phase' = "completing"
      <4>1. /\ \A entry : In(Append(Tail(queue), "Finish"), entry) <=> In(Tail(queue),
               entry) \/ entry = "Finish"
            /\ Orderly(Append(Tail(queue), "Finish"))
          BY <1>b, <2>2, AppendIs
      <4> QED BY <2>2, <3>2, <4>1
    <3> QED BY <2>1, <3>1, <3>2
  <2>4. eventScheduled' = FALSE /\ pendingEvent' = "none"
      BY <1>7, <1>a DEF ChunkFails, events, QueueInv, EventTypes
  <2> QED BY <2>3, <2>4 DEF QueueInv, Queued
<1>8. CASE AfterChunk
  <2>1. \/ queue' = Tail(queue) /\ phase' \in {"transferring", "waitingForCard"}
        \/ queue' = Append(Tail(queue), "Finish") /\ phase' = "completing"
      BY <1>8 DEF AfterChunk, GoesOn, Halts, Starts, Waits
  <2>2. Tail(queue) \in Seq(Entry) /\ Orderly(Tail(queue)) /\ ~In(Tail(queue),
        "HandleEvent") /\ ~In(Tail(queue), "Finish")
      BY <1>8, <1>a, <1>b, <1>c DEF AfterChunk, Handling, Queued, QueueInv
  <2>3. /\ Orderly(queue') /\ ~In(queue', "HandleEvent")
        /\ In(queue', "Finish") <=> phase' = "completing"
    <3>1. CASE queue' = Tail(queue) /\ phase' \in {"transferring", "waitingForCard"}
        BY <2>2, <3>1
    <3>2. CASE queue' = Append(Tail(queue), "Finish") /\ phase' = "completing"
      <4>1. /\ \A entry : In(Append(Tail(queue), "Finish"), entry) <=> In(Tail(queue),
               entry) \/ entry = "Finish"
            /\ Orderly(Append(Tail(queue), "Finish"))
          BY <1>b, <2>2, AppendIs
      <4> QED BY <2>2, <3>2, <4>1
    <3> QED BY <2>1, <3>1, <3>2
  <2>4. eventScheduled' = FALSE /\ pendingEvent' = "none"
      BY <1>8, <1>a DEF AfterChunk, events, QueueInv, EventTypes
  <2> QED BY <2>3, <2>4 DEF QueueInv, Queued
<1>9. CASE AfterPoll
  <2>1. \/ queue' = queue /\ phase' \in {"transferring", "waitingForCard"}
        \/ queue' = Append(queue, "Finish") /\ phase' = "completing"
      BY <1>9 DEF AfterPoll, GoesOn, Halts, Starts, Waits
  <2>2. queue \in Seq(Entry) /\ Orderly(queue) /\ ~In(queue, "HandleEvent") /\ ~In(queue, "Finish")
      BY <1>9, <1>a, <1>b, <1>c DEF AfterPoll, Handling, Queued, QueueInv
  <2>3. /\ Orderly(queue') /\ ~In(queue', "HandleEvent")
        /\ In(queue', "Finish") <=> phase' = "completing"
    <3>1. CASE queue' = queue /\ phase' \in {"transferring", "waitingForCard"}
        BY <2>2, <3>1
    <3>2. CASE queue' = Append(queue, "Finish") /\ phase' = "completing"
      <4>1. /\ \A entry : In(Append(queue, "Finish"), entry) <=> In(queue,
               entry) \/ entry = "Finish"
            /\ Orderly(Append(queue, "Finish"))
          BY <1>b, <2>2, AppendIs
      <4> QED BY <2>2, <3>2, <4>1
    <3> QED BY <2>1, <3>1, <3>2
  <2>4. eventScheduled' = FALSE /\ pendingEvent' = "none"
      BY <1>9, <1>a DEF AfterPoll, events, QueueInv, EventTypes
  <2> QED BY <2>3, <2>4 DEF QueueInv, Queued
<1>10. CASE TimesOut
    BY <1>10, <1>a, <1>b, <1>c, <1>d DEF TimesOut, task, progress, events, constants, TaskTypes,
                                         ControlTypes, EventTypes, PhaseInv, TransferInv, QueueInv,
                                         Queued, Handling
<1>11. CASE Finish
    BY <1>11, <1>a, <1>b, <1>c, <1>d DEF Finish, progress, events, peripheral, card, constants,
                                         TaskTypes, ControlTypes, EventTypes, PhaseInv, TransferInv,
                                         QueueInv, Queued, Handling
<1>12. CASE MoveBlock
    BY <1>12, <1>a, <1>b, <1>c, <1>d DEF MoveBlock, task, progress, control, events, constants,
                                         TaskTypes, ControlTypes, EventTypes, PhaseInv, TransferInv,
                                         QueueInv, Queued, Handling
<1>13. CASE TransferEnds
    BY <1>13, <1>a, <1>b, <1>c, <1>d DEF TransferEnds, task, progress, control, events, constants,
                                         TaskTypes, ControlTypes, EventTypes, PhaseInv, TransferInv,
                                         QueueInv, Queued, Handling
<1>14. CASE CardReady
    BY <1>14, <1>a, <1>b, <1>c, <1>d DEF CardReady, task, progress, control, events, peripheral,
                                         constants, TaskTypes, ControlTypes, EventTypes, PhaseInv,
                                         TransferInv, QueueInv, Queued, Handling
<1>15. CASE DataCache
    BY <1>15, <1>a, <1>b, <1>c, <1>d DEF DataCache, task, progress, control, events, peripheral,
                                         card, constants, TaskTypes, ControlTypes, EventTypes,
                                         PhaseInv, TransferInv, QueueInv, Queued, Handling
<1>16. CASE UNCHANGED vars
    BY <1>16, <1>a, <1>b, <1>c, <1>d DEF vars, task, progress, control, events, peripheral, card,
                                         constants, TaskTypes, ControlTypes, EventTypes, PhaseInv,
                                         TransferInv, QueueInv, Queued, Handling
<1> QED
    BY StepIs, <1>1, <1>2, <1>3, <1>4, <1>5, <1>6, <1>7, <1>8, <1>9, <1>10, <1>11, <1>12, <1>13,
       <1>14, <1>15, <1>16 DEF Steps

(* A transfer that is waited for is under way, or its report is. *)
LEMMA TransferStep ==
    ASSUME Inv, [Next]_vars
    PROVE  TransferInv'
<1>a. /\ TaskTypes /\ ControlTypes /\ ProgressTypes /\ EventTypes /\ CardTypes
      /\ PhaseInv /\ QueueInv /\ TransferInv
    BY DEF Inv, Types
<1>b. queue \in Seq(Entry) /\ "HandleInterrupt" \in Entry /\ "HandleEvent" \in Entry /\ "Finish" \in Entry
    BY <1>a DEF EventTypes, Entry
<1>c. queue # <<>> =>
        /\ Tail(queue) \in Seq(Entry) /\ Queued(Head(queue))
        /\ \A entry : In(Tail(queue), entry) => Queued(entry)
        /\ \A entry : Queued(entry) /\ entry # Head(queue) => In(Tail(queue), entry)
        /\ Orderly(Tail(queue))
        /\ Head(queue) # "HandleInterrupt" => ~In(Tail(queue), Head(queue))
        /\ Head(queue) = "Finish" => ~Queued("HandleEvent")
    BY <1>a, <1>b, TailIs DEF Queued, QueueInv
<1>d. ASSUME NEW q \in Seq(Entry), NEW last \in Entry
      PROVE  /\ \A entry : In(Append(q, last), entry) <=> In(q, entry) \/ entry = last
             /\ Orderly(q) /\ (last # "HandleInterrupt" => ~In(q, last))
                /\ (last = "HandleEvent" => ~In(q, "Finish")) => Orderly(Append(q, last))
    BY AppendIs
<1>1. ASSUME NEW kind \in {"read", "write"}, NEW first \in Nat, NEW blocks \in 0 .. MaxBlocks,
             BeginsTransfer(kind, first, blocks)
      PROVE  TransferInv'
    BY <1>1, <1>a, <1>b, <1>c, <1>d DEF BeginsTransfer, Accepted, Starts, At, events, constants,
                                        card, TaskTypes, ControlTypes, EventTypes, PhaseInv,
                                        TransferInv, QueueInv, Queued, Handling, Reports, Failures
<1>2. ASSUME NEW kind \in Kind, NEW first \in Nat, NEW end \in Nat, NEW result \in Results,
             EndsAtOnce(kind, first, end, result)
      PROVE  TransferInv'
    BY <1>2, <1>a, <1>b, <1>c, <1>d DEF EndsAtOnce, Accepted, OnlyErases, Halts, OnCard, events,
                                        constants, peripheral, TaskTypes, ControlTypes, EventTypes,
                                        PhaseInv, TransferInv, QueueInv, Queued, Handling, Reports,
                                        Failures
<1>3. ASSUME NEW kind \in Kind, NEW first \in Nat, NEW end \in Nat,
             WaitsAtOnce(kind, first, end)
      PROVE  TransferInv'
    BY <1>3, <1>a, <1>b, <1>c, <1>d DEF WaitsAtOnce, Accepted, OnlyErases, Waits, events, constants,
                                        peripheral, TaskTypes, ControlTypes, EventTypes, PhaseInv,
                                        TransferInv, QueueInv, Queued, Handling, Reports, Failures
<1>4. CASE InterruptIgnored
    BY <1>4, <1>a, <1>b, <1>c, <1>d DEF InterruptIgnored, task, progress, control, events, card,
                                        constants, TaskTypes, ControlTypes, EventTypes, PhaseInv,
                                        TransferInv, QueueInv, Queued, Handling, Reports, Failures
<1>5. CASE InterruptReports
    BY <1>5, <1>a, <1>b, <1>c, <1>d DEF InterruptReports, task, progress, control, card, constants,
                                        TaskTypes, ControlTypes, EventTypes, PhaseInv, TransferInv,
                                        QueueInv, Queued, Handling, Reports, Failures
<1>6. CASE EventIgnored
    BY <1>6, <1>a, <1>b, <1>c, <1>d DEF EventIgnored, task, progress, control, peripheral, card,
                                        constants, TaskTypes, ControlTypes, EventTypes, PhaseInv,
                                        TransferInv, QueueInv, Queued, Handling, Reports, Failures
<1>7. CASE ChunkFails
    BY <1>7, <1>a, <1>b, <1>c, <1>d DEF ChunkFails, Halts, task, progress, peripheral, card,
                                        constants, TaskTypes, ControlTypes, EventTypes, PhaseInv,
                                        TransferInv, QueueInv, Queued, Handling, Reports, Failures
<1>8. CASE AfterChunk
    BY <1>8, <1>a, <1>b, <1>c, <1>d DEF AfterChunk, GoesOn, Halts, Starts, Waits, OnCard, task,
                                        card, constants, peripheral, TaskTypes, ControlTypes,
                                        EventTypes, PhaseInv, TransferInv, QueueInv, Queued,
                                        Handling, Reports, Failures
<1>9. CASE AfterPoll
    BY <1>9, <1>a, <1>b, <1>c, <1>d DEF AfterPoll, GoesOn, Halts, Starts, Waits, task, events, card,
                                        constants, peripheral, TaskTypes, ControlTypes, EventTypes,
                                        PhaseInv, TransferInv, QueueInv, Queued, Handling, Reports,
                                        Failures
<1>10. CASE TimesOut
    BY <1>10, <1>a, <1>b, <1>c, <1>d DEF TimesOut, task, progress, events, constants, TaskTypes,
                                         ControlTypes, EventTypes, PhaseInv, TransferInv, QueueInv,
                                         Queued, Handling, Reports, Failures
<1>11. CASE Finish
    BY <1>11, <1>a, <1>b, <1>c, <1>d DEF Finish, progress, events, peripheral, card, constants,
                                         TaskTypes, ControlTypes, EventTypes, PhaseInv, TransferInv,
                                         QueueInv, Queued, Handling, Reports, Failures
<1>12. CASE MoveBlock
    BY <1>12, <1>a, <1>b, <1>c, <1>d DEF MoveBlock, task, progress, control, events, constants,
                                         TaskTypes, ControlTypes, EventTypes, PhaseInv, TransferInv,
                                         QueueInv, Queued, Handling, Reports, Failures
<1>13. CASE TransferEnds
    BY <1>13, <1>a, <1>b, <1>c, <1>d DEF TransferEnds, task, progress, control, events, constants,
                                         TaskTypes, ControlTypes, EventTypes, PhaseInv, TransferInv,
                                         QueueInv, Queued, Handling, Reports, Failures
<1>14. CASE CardReady
    BY <1>14, <1>a, <1>b, <1>c, <1>d DEF CardReady, task, progress, control, events, peripheral,
                                         constants, TaskTypes, ControlTypes, EventTypes, PhaseInv,
                                         TransferInv, QueueInv, Queued, Handling, Reports, Failures
<1>15. CASE DataCache
    BY <1>15, <1>a, <1>b, <1>c, <1>d DEF DataCache, task, progress, control, events, peripheral,
                                         card, constants, TaskTypes, ControlTypes, EventTypes,
                                         PhaseInv, TransferInv, QueueInv, Queued, Handling, Reports,
                                         Failures
<1>16. CASE UNCHANGED vars
    BY <1>16, <1>a, <1>b, <1>c, <1>d DEF vars, task, progress, control, events, peripheral, card,
                                         constants, TaskTypes, ControlTypes, EventTypes, PhaseInv,
                                         TransferInv, QueueInv, Queued, Handling, Reports, Failures
<1> QED
    BY StepIs, <1>1, <1>2, <1>3, <1>4, <1>5, <1>6, <1>7, <1>8, <1>9, <1>10, <1>11, <1>12, <1>13,
       <1>14, <1>15, <1>16 DEF Steps

(* What is told is what happened. *)
LEMMA DisturbedStep ==
    ASSUME Inv, [Next]_vars
    PROVE  DisturbedInv'
<1>a. /\ TaskTypes /\ ControlTypes /\ ProgressTypes /\ EventTypes /\ CardTypes
      /\ PhaseInv /\ QueueInv /\ TransferInv
    BY DEF Inv, Types
<1>b. DisturbedInv /\ operationId \in Nat
    BY BoundsAssumption DEF Inv, Types, TaskTypes
<1>1. ASSUME NEW kind \in {"read", "write"}, NEW first \in Nat, NEW blocks \in 0 .. MaxBlocks,
             BeginsTransfer(kind, first, blocks)
      PROVE  DisturbedInv'
    BY <1>1, <1>a, <1>b DEF BeginsTransfer, Accepted, Starts, At, events, constants, card,
                            TaskTypes, ControlTypes, EventTypes, PhaseInv, TransferInv, QueueInv,
                            DisturbedInv, Reports, Failures
<1>2. ASSUME NEW kind \in Kind, NEW first \in Nat, NEW end \in Nat, NEW result \in Results,
             EndsAtOnce(kind, first, end, result)
      PROVE  DisturbedInv'
    BY <1>2, <1>a, <1>b DEF EndsAtOnce, Accepted, OnlyErases, Halts, OnCard, events, constants,
                            peripheral, TaskTypes, ControlTypes, EventTypes, PhaseInv, TransferInv,
                            QueueInv, DisturbedInv, Reports, Failures
<1>3. ASSUME NEW kind \in Kind, NEW first \in Nat, NEW end \in Nat,
             WaitsAtOnce(kind, first, end)
      PROVE  DisturbedInv'
    BY <1>3, <1>a, <1>b DEF WaitsAtOnce, Accepted, OnlyErases, Waits, events, constants, peripheral,
                            TaskTypes, ControlTypes, EventTypes, PhaseInv, TransferInv, QueueInv,
                            DisturbedInv, Reports, Failures
<1>4. CASE InterruptIgnored
    BY <1>4, <1>a, <1>b DEF InterruptIgnored, task, progress, control, events, card, constants,
                            TaskTypes, ControlTypes, EventTypes, PhaseInv, TransferInv, QueueInv,
                            DisturbedInv, Reports, Failures
<1>5. CASE InterruptReports
    BY <1>5, <1>a, <1>b DEF InterruptReports, task, progress, control, card, constants, TaskTypes,
                            ControlTypes, EventTypes, PhaseInv, TransferInv, QueueInv, DisturbedInv,
                            Reports, Failures
<1>6. CASE EventIgnored
    BY <1>6, <1>a, <1>b DEF EventIgnored, task, progress, control, peripheral, card, constants,
                            TaskTypes, ControlTypes, EventTypes, PhaseInv, TransferInv, QueueInv,
                            DisturbedInv, Reports, Failures
<1>7. CASE ChunkFails
    BY <1>7, <1>a, <1>b DEF ChunkFails, Halts, task, progress, peripheral, card, constants,
                            TaskTypes, ControlTypes, EventTypes, PhaseInv, TransferInv, QueueInv,
                            DisturbedInv, Reports, Failures
<1>8. CASE AfterChunk
    BY <1>8, <1>a, <1>b DEF AfterChunk, GoesOn, Halts, Starts, Waits, OnCard, task, card, constants,
                            peripheral, TaskTypes, ControlTypes, EventTypes, PhaseInv, TransferInv,
                            QueueInv, DisturbedInv, Reports, Failures
<1>9. CASE AfterPoll
    BY <1>9, <1>a, <1>b DEF AfterPoll, GoesOn, Halts, Starts, Waits, task, events, card, constants,
                            peripheral, TaskTypes, ControlTypes, EventTypes, PhaseInv, TransferInv,
                            QueueInv, DisturbedInv, Reports, Failures
<1>10. CASE TimesOut
    BY <1>10, <1>a, <1>b DEF TimesOut, task, progress, events, constants, TaskTypes, ControlTypes,
                             EventTypes, PhaseInv, TransferInv, QueueInv, DisturbedInv, Reports,
                             Failures
<1>11. CASE Finish
    BY <1>11, <1>a, <1>b DEF Finish, progress, events, peripheral, card, constants, TaskTypes,
                             ControlTypes, EventTypes, PhaseInv, TransferInv, QueueInv,
                             DisturbedInv, Reports, Failures
<1>12. CASE MoveBlock
    BY <1>12, <1>a, <1>b DEF MoveBlock, task, progress, control, events, constants, TaskTypes,
                             ControlTypes, EventTypes, PhaseInv, TransferInv, QueueInv,
                             DisturbedInv, Reports, Failures
<1>13. CASE TransferEnds
    BY <1>13, <1>a, <1>b DEF TransferEnds, task, progress, control, events, constants, TaskTypes,
                             ControlTypes, EventTypes, PhaseInv, TransferInv, QueueInv,
                             DisturbedInv, Reports, Failures
<1>14. CASE CardReady
    BY <1>14, <1>a, <1>b DEF CardReady, task, progress, control, events, peripheral, constants,
                             TaskTypes, ControlTypes, EventTypes, PhaseInv, TransferInv, QueueInv,
                             DisturbedInv, Reports, Failures
<1>15. CASE DataCache
    BY <1>15, <1>a, <1>b DEF DataCache, task, progress, control, events, peripheral, card,
                             constants, TaskTypes, ControlTypes, EventTypes, PhaseInv, TransferInv,
                             QueueInv, DisturbedInv, Reports, Failures
<1>16. CASE UNCHANGED vars
    BY <1>16, <1>a, <1>b DEF vars, task, progress, control, events, peripheral, card, constants,
                             TaskTypes, ControlTypes, EventTypes, PhaseInv, TransferInv, QueueInv,
                             DisturbedInv, Reports, Failures
<1> QED
    BY StepIs, <1>1, <1>2, <1>3, <1>4, <1>5, <1>6, <1>7, <1>8, <1>9, <1>10, <1>11, <1>12, <1>13,
       <1>14, <1>15, <1>16 DEF Steps

(* Where a transfer is between two chunks: in front of what is left.       *)
InFront(at) ==
    /\ OnCard(at)
    /\ operation \in {"read", "write"} =>
         /\ request.first <= request.end /\ request.end <= NumberOfBlocks
         /\ at.block = request.first + at.cursor
         /\ at.left = request.end - at.block

(* Where the operation is when a chunk was transferred.                    *)
LEMMA AfterChunkIs ==
    ASSUME Inv, AfterChunk
    PROVE  /\ operation \in {"read", "write"} /\ InFront(Transferred) /\ Transferred.cursor = Done
           /\ UNCHANGED <<task, buffer, content>> /\ pendingEvent' = "none" /\ Sound
<1>1. /\ request.first \in Nat /\ request.end \in Nat /\ moved \in Nat /\ chunkBlocks \in Nat
      /\ next.cursor \in Nat /\ next.block \in Nat /\ next.left \in Nat
    BY Known, MaxBlocksPerTransferAssumption DEF Inv, Types, TaskTypes, ProgressTypes
<1>2. phase = "transferring" /\ Sound /\ operation \in {"read",
      "write"} /\ pendingEvent = "transferred"
    BY DEF AfterChunk, Inv, PhaseInv, Sound
<1>3. /\ request.first <= request.end /\ request.end <= NumberOfBlocks
      /\ next.block = request.first + next.cursor /\ next.left = request.end - next.block
      /\ moved = chunkBlocks
    BY <1>2 DEF Inv, CursorInv
<1>4. Transferred.cursor = Done
    BY <1>2, <1>3 DEF Done, Transferred, At
<1>5. InFront(Transferred)
    BY <1>1, <1>3 DEF InFront, AfterChunk, Transferred, At
<1> QED BY <1>2, <1>4, <1>5 DEF AfterChunk, card

(* Where the operation is when the card was asked.                         *)
LEMMA AfterPollIs ==
    ASSUME Inv, AfterPoll
    PROVE  /\ InFront(next) /\ next.cursor = Done
           /\ UNCHANGED <<task, buffer, content>> /\ pendingEvent' = "none" /\ Sound
<1>1. phase = "waitingForCard" /\ Sound /\ pendingEvent = "none"
    BY DEF AfterPoll, Inv, QueueInv, Sound
<1>2. InFront(next)
    BY <1>1, Known DEF InFront, Inv, CursorInv
<1> QED BY <1>1, <1>2 DEF Done, AfterPoll, card, events

(* Between two chunks the cursor and the blocks agree.                     *)
LEMMA GoesOnIs ==
    ASSUME Inv, Sound, NEW at, NEW q, InFront(at), GoesOn(operation, at, q),
           at.cursor = Done, UNCHANGED <<task, buffer, content>>, pendingEvent' = "none"
    PROVE  CursorInv' /\ BufferInv'
<1>1. /\ request.first \in Nat /\ request.end \in Nat
      /\ at.cursor \in Nat /\ at.block \in Nat /\ at.left \in Nat
      /\ NumberOfBlocks \in Nat /\ MaxBlocksPerTransfer \in Nat \ {0}
    BY Known, MaxBlocksPerTransferAssumption DEF InFront, OnCard, Inv, Types, TaskTypes
<1>2. /\ UNCHANGED <<operation, operationId, readBuffer, request, buffer, content>>
      /\ Size' = Size
    BY DEF task, Size
<1>3. /\ operation = "erase" => request.end <= NumberOfBlocks
      /\ operation \in {"read", "write"} => (operation = "read" => readBuffer = Size)
    BY DEF Inv, CursorInv
<1>4. CASE \E result \in {"failed", "timeout"} : Halts(result, q)
  <2>1. ~Sound'
      BY <1>4 DEF Halts, Sound
  <2> QED BY <1>2, <2>1 DEF CursorInv, BufferInv, Inv
<1>5. CASE Halts("success", q) /\ (operation \in {"read", "write"} => at.left = 0)
  <2>1. phase' = "completing" /\ Done' = Size'
      BY <1>5 DEF Halts, Done
  <2>2. operation \in {"read", "write"} => Done = Size
      BY <1>1, <1>5 DEF InFront, Size
  <2>3. CursorInv'
      BY <1>2, <1>3, <2>1 DEF CursorInv, InFront
  <2>4. BufferInv'
      BY <1>2, <2>1, <2>2 DEF BufferInv, Inv
  <2> QED BY <2>3, <2>4
<1>6. CASE Starts(at, q) /\ operation \in {"read", "write"}
  <2>1. /\ phase' = "transferring" /\ next' = at /\ moved' = 0 /\ transfer' = "moving"
        /\ chunkBlocks' = Least(at.left, MaxBlocksPerTransfer) /\ at.left # 0
      BY <1>6 DEF Starts
  <2>2. Done' = Done
      BY <1>1, <2>1 DEF Done
  <2>3. chunkBlocks' \in Nat
      BY <1>1, <2>1, LeastIs
  <2>4. CursorInv'
      BY <1>1, <1>2, <1>3, <1>6, <2>1, <2>3 DEF CursorInv, InFront
  <2>5. BufferInv'
      BY <1>2, <2>2 DEF BufferInv, Inv
  <2> QED BY <2>4, <2>5
<1>7. CASE Waits(at, q)
  <2>1. phase' = "waitingForCard" /\ next' = at /\ Done' = Done
      BY <1>7 DEF Waits, Done
  <2>2. CursorInv'
      BY <1>2, <1>3, <2>1 DEF CursorInv, InFront
  <2>3. BufferInv'
      BY <1>2, <2>1 DEF BufferInv, Inv
  <2> QED BY <2>2, <2>3
<1> QED BY <1>4, <1>5, <1>6, <1>7 DEF GoesOn

(* A chunk meets a card that is ready. *)
LEMMA CardInvStep ==
    ASSUME Inv, [Next]_vars
    PROVE  CardInv'
<1>a. /\ TaskTypes /\ ControlTypes /\ ProgressTypes /\ EventTypes /\ CardTypes
      /\ PhaseInv /\ QueueInv /\ TransferInv /\ CardInv /\ CursorInv
    BY DEF Inv, Types
<1>b. Handling("Finish") => phase = "completing"
    BY HandlingIs DEF Inv, QueueInv
<1>1. ASSUME NEW kind \in {"read", "write"}, NEW first \in Nat, NEW blocks \in 0 .. MaxBlocks,
             BeginsTransfer(kind, first, blocks)
      PROVE  CardInv'
    BY <1>1, <1>a, <1>b DEF BeginsTransfer, Accepted, Starts, At, events, constants, card,
                            TaskTypes, ControlTypes, EventTypes, CardTypes, PhaseInv, TransferInv,
                            CardInv, Kind, Reports, Failures
<1>2. ASSUME NEW kind \in Kind, NEW first \in Nat, NEW end \in Nat, NEW result \in Results,
             EndsAtOnce(kind, first, end, result)
      PROVE  CardInv'
    BY <1>2, <1>a, <1>b DEF EndsAtOnce, Accepted, OnlyErases, Halts, OnCard, events, constants,
                            peripheral, TaskTypes, ControlTypes, EventTypes, CardTypes, PhaseInv,
                            TransferInv, CardInv, Kind, Reports, Failures
<1>3. ASSUME NEW kind \in Kind, NEW first \in Nat, NEW end \in Nat,
             WaitsAtOnce(kind, first, end)
      PROVE  CardInv'
    BY <1>3, <1>a, <1>b DEF WaitsAtOnce, Accepted, OnlyErases, Waits, events, constants, peripheral,
                            TaskTypes, ControlTypes, EventTypes, CardTypes, PhaseInv, TransferInv,
                            CardInv, Kind, Reports, Failures
<1>4. CASE InterruptIgnored
    BY <1>4, <1>a, <1>b DEF InterruptIgnored, task, progress, control, events, card, constants,
                            TaskTypes, ControlTypes, EventTypes, CardTypes, PhaseInv, TransferInv,
                            CardInv, Kind, Reports, Failures
<1>5. CASE InterruptReports
    BY <1>5, <1>a, <1>b DEF InterruptReports, task, progress, control, card, constants, TaskTypes,
                            ControlTypes, EventTypes, CardTypes, PhaseInv, TransferInv, CardInv,
                            Kind, Reports, Failures
<1>6. CASE EventIgnored
    BY <1>6, <1>a, <1>b DEF EventIgnored, task, progress, control, peripheral, card, constants,
                            TaskTypes, ControlTypes, EventTypes, CardTypes, PhaseInv, TransferInv,
                            CardInv, Kind, Reports, Failures
<1>7. CASE ChunkFails
    BY <1>7, <1>a, <1>b DEF ChunkFails, Halts, task, progress, peripheral, card, constants,
                            TaskTypes, ControlTypes, EventTypes, CardTypes, PhaseInv, TransferInv,
                            CardInv, Kind, Reports, Failures
<1>8. CASE AfterChunk
    BY <1>8, <1>a, <1>b DEF AfterChunk, GoesOn, Halts, Starts, Waits, OnCard, task, card, constants,
                            peripheral, TaskTypes, ControlTypes, EventTypes, CardTypes, PhaseInv,
                            TransferInv, CardInv, Kind, Reports, Failures
<1>9. CASE AfterPoll
    BY <1>9, <1>a, <1>b DEF AfterPoll, GoesOn, Halts, Starts, Waits, task, events, card, constants,
                            peripheral, TaskTypes, ControlTypes, EventTypes, CardTypes, PhaseInv,
                            TransferInv, CardInv, Kind, Reports, Failures
<1>10. CASE TimesOut
    BY <1>10, <1>a, <1>b DEF TimesOut, task, progress, events, constants, TaskTypes, ControlTypes,
                             EventTypes, CardTypes, PhaseInv, TransferInv, CardInv, Kind, Reports,
                             Failures
<1>11. CASE Finish
    BY <1>11, <1>a, <1>b DEF Finish, progress, events, peripheral, card, constants, TaskTypes,
                             ControlTypes, EventTypes, CardTypes, PhaseInv, TransferInv, CardInv,
                             Kind, Reports, Failures
<1>12. CASE MoveBlock
    BY <1>12, <1>a, <1>b DEF MoveBlock, task, progress, control, events, constants, TaskTypes,
                             ControlTypes, EventTypes, CardTypes, PhaseInv, TransferInv, CardInv,
                             Kind, Reports, Failures
<1>13. CASE TransferEnds
    BY <1>13, <1>a, <1>b DEF TransferEnds, task, progress, control, events, constants, TaskTypes,
                             ControlTypes, EventTypes, CardTypes, PhaseInv, TransferInv, CardInv,
                             Kind, Reports, Failures
<1>14. CASE CardReady
    BY <1>14, <1>a, <1>b DEF CardReady, task, progress, control, events, peripheral, constants,
                             TaskTypes, ControlTypes, EventTypes, CardTypes, PhaseInv, TransferInv,
                             CardInv, Kind, Reports, Failures
<1>15. CASE DataCache
    BY <1>15, <1>a, <1>b DEF DataCache, task, progress, control, events, peripheral, card,
                             constants, TaskTypes, ControlTypes, EventTypes, CardTypes, PhaseInv,
                             TransferInv, CardInv, Kind, Reports, Failures
<1>16. CASE UNCHANGED vars
    BY <1>16, <1>a, <1>b DEF vars, task, progress, control, events, peripheral, card, constants,
                             TaskTypes, ControlTypes, EventTypes, CardTypes, PhaseInv, TransferInv,
                             CardInv, Kind, Reports, Failures
<1> QED
    BY StepIs, <1>1, <1>2, <1>3, <1>4, <1>5, <1>6, <1>7, <1>8, <1>9, <1>10, <1>11, <1>12, <1>13,
       <1>14, <1>15, <1>16 DEF Steps

(* The cursor goes through the range that was asked for. *)
LEMMA CursorStep ==
    ASSUME Inv, [Next]_vars
    PROVE  CursorInv'
<1>a. /\ TaskTypes /\ ControlTypes /\ ProgressTypes /\ EventTypes /\ CardTypes
      /\ PhaseInv /\ QueueInv /\ TransferInv /\ CardInv /\ CursorInv
    BY DEF Inv, Types
<1>b. NumberOfBlocks \in Nat /\ MaxBlocks \in Nat /\ MaxBlocksPerTransfer \in Nat \ {0}
    BY NumberOfBlocksAssumption, MaxBlocksPerTransferAssumption, BoundsAssumption
<1>1. ASSUME NEW kind \in {"read", "write"}, NEW first \in Nat, NEW blocks \in 0 .. MaxBlocks,
             BeginsTransfer(kind, first, blocks)
      PROVE  CursorInv'
  <2>1. /\ phase' = "transferring" /\ operation' = kind /\ transfer' = "moving" /\ pendingEvent' = "none"
        /\ request'.first = first /\ request'.end = first + blocks
        /\ next' = [cursor |-> 0, block |-> first, left |-> blocks]
        /\ chunkBlocks' = Least(blocks, MaxBlocksPerTransfer) /\ moved' = 0
        /\ blocks # 0 /\ first + blocks <= NumberOfBlocks
        /\ kind = "read" => readBuffer' = blocks
      BY <1>1, <1>a DEF BeginsTransfer, Accepted, Starts, At, events, QueueInv
  <2>2. blocks \in Nat /\ chunkBlocks' \in Nat /\ (first + blocks) - first = blocks
      BY <1>b, <2>1, LeastIs
  <2> QED BY <2>1, <2>2 DEF CursorInv, Sound, Size
<1>2. ASSUME NEW kind \in Kind, NEW first \in Nat, NEW end \in Nat, NEW result \in Results,
             EndsAtOnce(kind, first, end, result)
      PROVE  CursorInv'
  <2>1. /\ phase' = "completing" /\ completionResult' = result /\ operation' = kind
        /\ request'.first = first /\ request'.end = end
        /\ result = "success" /\ kind \in {"read", "write"} => first = end /\ readBuffer' = 0
        /\ result = "success" /\ kind = "erase" => end <= NumberOfBlocks
      BY <1>2 DEF EndsAtOnce, Accepted, Halts
  <2>2. end - first \in Int /\ (first = end => end - first = 0 /\ first <= end)
      OBVIOUS
  <2> QED BY <2>1, <2>2 DEF CursorInv, Sound, Size
<1>3. ASSUME NEW kind \in Kind, NEW first \in Nat, NEW end \in Nat,
             WaitsAtOnce(kind, first, end)
      PROVE  CursorInv'
    BY <1>3, <1>a, <1>b DEF WaitsAtOnce, Accepted, OnlyErases, Waits, events, constants, peripheral,
                            TaskTypes, ControlTypes, ProgressTypes, EventTypes, PhaseInv, QueueInv,
                            TransferInv, CursorInv, Sound, Size, NoRequest, Kind, Results
<1>4. CASE InterruptIgnored
    BY <1>4, <1>a, <1>b DEF InterruptIgnored, task, progress, control, events, card, constants,
                            TaskTypes, ControlTypes, ProgressTypes, EventTypes, PhaseInv, QueueInv,
                            TransferInv, CursorInv, Sound, Size, NoRequest, Kind, Results
<1>5. CASE InterruptReports
    BY <1>5, <1>a, <1>b DEF InterruptReports, task, progress, control, card, constants, TaskTypes,
                            ControlTypes, ProgressTypes, EventTypes, PhaseInv, QueueInv,
                            TransferInv, CursorInv, Sound, Size, NoRequest, Kind, Results
<1>6. CASE EventIgnored
    BY <1>6, <1>a, <1>b DEF EventIgnored, task, progress, control, peripheral, card, constants,
                            TaskTypes, ControlTypes, ProgressTypes, EventTypes, PhaseInv, QueueInv,
                            TransferInv, CursorInv, Sound, Size, NoRequest, Kind, Results
<1>7. CASE ChunkFails
    BY <1>7, <1>a, <1>b DEF ChunkFails, Halts, task, progress, peripheral, card, constants,
                            TaskTypes, ControlTypes, ProgressTypes, EventTypes, PhaseInv, QueueInv,
                            TransferInv, CursorInv, Sound, Size, NoRequest, Kind, Results
<1>8. CASE AfterChunk
    BY <1>8, AfterChunkIs, GoesOnIs DEF AfterChunk
<1>9. CASE AfterPoll
    BY <1>9, AfterPollIs, GoesOnIs DEF AfterPoll
<1>10. CASE TimesOut
    BY <1>10, <1>a, <1>b DEF TimesOut, task, progress, events, constants, TaskTypes, ControlTypes,
                             ProgressTypes, EventTypes, PhaseInv, QueueInv, TransferInv, CursorInv,
                             Sound, Size, NoRequest, Kind, Results
<1>11. CASE Finish
    BY <1>11, <1>a, <1>b DEF Finish, progress, events, peripheral, card, constants, TaskTypes,
                             ControlTypes, ProgressTypes, EventTypes, PhaseInv, QueueInv,
                             TransferInv, CursorInv, Sound, Size, NoRequest, Kind, Results
<1>12. CASE MoveBlock
  <2>1. Sound /\ operation \in {"read", "write"} /\ phase = "transferring"
        /\ moved + 1 <= chunkBlocks /\ ~eventScheduled
      BY <1>12, <1>a, MoveBlockIs DEF MoveBlock, TransferInv
  <2>2. /\ UNCHANGED <<phase, operation, request, readBuffer, next, chunkBlocks, transfer,
                       pendingEvent, completionResult>>
        /\ moved' = moved + 1 /\ transfer = "moving" /\ pendingEvent = "none"
      BY <1>12, <1>a, <2>1 DEF MoveBlock, task, progress, control, events, QueueInv
  <2> QED BY <1>a, <2>1, <2>2 DEF CursorInv, Sound, Size
<1>13. CASE TransferEnds
    BY <1>13, <1>a, <1>b DEF TransferEnds, task, progress, control, events, constants, TaskTypes,
                             ControlTypes, ProgressTypes, EventTypes, PhaseInv, QueueInv,
                             TransferInv, CursorInv, Sound, Size, NoRequest, Kind, Results
<1>14. CASE CardReady
    BY <1>14, <1>a, <1>b DEF CardReady, task, progress, control, events, peripheral, constants,
                             TaskTypes, ControlTypes, ProgressTypes, EventTypes, PhaseInv, QueueInv,
                             TransferInv, CursorInv, Sound, Size, NoRequest, Kind, Results
<1>15. CASE DataCache
    BY <1>15, <1>a, <1>b DEF DataCache, task, progress, control, events, peripheral, card,
                             constants, TaskTypes, ControlTypes, ProgressTypes, EventTypes,
                             PhaseInv, QueueInv, TransferInv, CursorInv, Sound, Size, NoRequest,
                             Kind, Results
<1>16. CASE UNCHANGED vars
    BY <1>16, <1>a, <1>b DEF vars, task, progress, control, events, peripheral, card, constants,
                             TaskTypes, ControlTypes, ProgressTypes, EventTypes, PhaseInv, QueueInv,
                             TransferInv, CursorInv, Sound, Size, NoRequest, Kind, Results
<1> QED
    BY StepIs, <1>1, <1>2, <1>3, <1>4, <1>5, <1>6, <1>7, <1>8, <1>9, <1>10, <1>11, <1>12, <1>13,
       <1>14, <1>15, <1>16 DEF Steps

(* What is moved is the block of the request. *)
LEMMA BufferStep ==
    ASSUME Inv, [Next]_vars
    PROVE  BufferInv'
<1>a. /\ TaskTypes /\ ControlTypes /\ ProgressTypes /\ EventTypes /\ CardTypes
      /\ PhaseInv /\ QueueInv /\ TransferInv /\ CardInv /\ CursorInv
    BY DEF Inv, Types
<1>b. BufferInv
    BY DEF Inv
<1>1. ASSUME NEW kind \in {"read", "write"}, NEW first \in Nat, NEW blocks \in 0 .. MaxBlocks,
             BeginsTransfer(kind, first, blocks)
      PROVE  BufferInv'
    BY <1>1, <1>a, <1>b DEF BeginsTransfer, Accepted, Starts, At, events, constants, card,
                            TaskTypes, ControlTypes, ProgressTypes, EventTypes, PhaseInv, QueueInv,
                            TransferInv, CursorInv, BufferInv, Sound, Size, Done, NoRequest, Kind,
                            Results
<1>2. ASSUME NEW kind \in Kind, NEW first \in Nat, NEW end \in Nat, NEW result \in Results,
             EndsAtOnce(kind, first, end, result)
      PROVE  BufferInv'
  <2>1. /\ phase' = "completing" /\ completionResult' = result /\ operation' = kind
        /\ Size' = end - first
        /\ kind \in {"read", "write"} => buffer' \in [1 .. end - first -> Line]
        /\ result = "success" /\ kind \in {"read", "write"} => first = end
      BY <1>2 DEF EndsAtOnce, Accepted, Halts, Size
  <2>2. Done' = Size'
      BY <2>1 DEF Done
  <2>3. Sound' /\ operation' \in {"read", "write"} => Size' = 0
      BY <2>1 DEF Sound
  <2>4. 1 .. 0 = {}
      OBVIOUS
  <2> QED BY <2>1, <2>2, <2>3, <2>4 DEF BufferInv
<1>3. ASSUME NEW kind \in Kind, NEW first \in Nat, NEW end \in Nat,
             WaitsAtOnce(kind, first, end)
      PROVE  BufferInv'
    BY <1>3, <1>a, <1>b DEF WaitsAtOnce, Accepted, OnlyErases, Waits, events, constants, peripheral,
                            TaskTypes, ControlTypes, ProgressTypes, EventTypes, PhaseInv, QueueInv,
                            TransferInv, CursorInv, BufferInv, Sound, Size, Done, NoRequest, Kind,
                            Results
<1>4. CASE InterruptIgnored
    BY <1>4, <1>a, <1>b DEF InterruptIgnored, task, progress, control, events, card, constants,
                            TaskTypes, ControlTypes, ProgressTypes, EventTypes, PhaseInv, QueueInv,
                            TransferInv, CursorInv, BufferInv, Sound, Size, Done, NoRequest, Kind,
                            Results
<1>5. CASE InterruptReports
    BY <1>5, <1>a, <1>b DEF InterruptReports, task, progress, control, card, constants, TaskTypes,
                            ControlTypes, ProgressTypes, EventTypes, PhaseInv, QueueInv,
                            TransferInv, CursorInv, BufferInv, Sound, Size, Done, NoRequest, Kind,
                            Results
<1>6. CASE EventIgnored
    BY <1>6, <1>a, <1>b DEF EventIgnored, task, progress, control, peripheral, card, constants,
                            TaskTypes, ControlTypes, ProgressTypes, EventTypes, PhaseInv, QueueInv,
                            TransferInv, CursorInv, BufferInv, Sound, Size, Done, NoRequest, Kind,
                            Results
<1>7. CASE ChunkFails
    BY <1>7, <1>a, <1>b DEF ChunkFails, Halts, task, progress, peripheral, card, constants,
                            TaskTypes, ControlTypes, ProgressTypes, EventTypes, PhaseInv, QueueInv,
                            TransferInv, CursorInv, BufferInv, Sound, Size, Done, NoRequest, Kind,
                            Results
<1>8. CASE AfterChunk
    BY <1>8, AfterChunkIs, GoesOnIs DEF AfterChunk
<1>9. CASE AfterPoll
    BY <1>9, AfterPollIs, GoesOnIs DEF AfterPoll
<1>10. CASE TimesOut
    BY <1>10, <1>a, <1>b DEF TimesOut, task, progress, events, constants, TaskTypes, ControlTypes,
                             ProgressTypes, EventTypes, PhaseInv, QueueInv, TransferInv, CursorInv,
                             BufferInv, Sound, Size, Done, NoRequest, Kind, Results
<1>11. CASE Finish
    BY <1>11, <1>a, <1>b DEF Finish, progress, events, peripheral, card, constants, TaskTypes,
                             ControlTypes, ProgressTypes, EventTypes, PhaseInv, QueueInv,
                             TransferInv, CursorInv, BufferInv, Sound, Size, Done, NoRequest, Kind,
                             Results
<1>12. CASE MoveBlock
  <2>1. /\ phase = "transferring" /\ Sound /\ operation \in {"read", "write"}
        /\ Size \in Nat /\ Done \in Nat /\ Done + 1 <= Size /\ Done = next.cursor + moved
        /\ request.first \in Nat /\ next.block + moved = request.first + Done
        /\ request.first + Done \in Block
        /\ buffer \in [1 .. Size -> Line] /\ moved \in Nat /\ next.cursor \in Nat
      BY <1>12, <1>a, MoveBlockIs DEF ProgressTypes
  <2>2. /\ UNCHANGED <<phase, operation, operationId, request, next, completionResult>>
        /\ moved' = moved + 1
      BY <1>12 DEF MoveBlock, task, progress, control
  <2>3. Size' = Size /\ Done' = Done + 1 /\ Sound' = Sound
    <3>1. Size' = Size
        BY <2>2 DEF Size
    <3>2. next.cursor + (moved + 1) = next.cursor + moved + 1
        BY <2>1
    <3>3. Done' = next.cursor + (moved + 1)
        BY <2>1, <2>2 DEF Done
    <3>4. Sound' = Sound
        BY <2>2 DEF Sound
    <3> QED BY <2>1, <3>1, <3>2, <3>3, <3>4
  <2>4. next.cursor + moved + 1 = Done + 1 /\ Done + 1 \in 1 .. Size /\ 1 .. Size # {}
      BY <2>1
  <2>5. content \in [Block -> Content]
      BY <1>a DEF CardTypes
  <2>6. CASE operation = "read"
    <3>1. buffer' = [buffer EXCEPT ![Done + 1].memory = content[request.first + Done]] /\ content' = content
        BY <1>12, <2>1, <2>4, <2>6 DEF MoveBlock
    <3>2. content[request.first + Done] \in Content
        BY <2>1, <2>5
    <3>3. \A i \in 1 .. Size : buffer'[i] =
             IF i = Done + 1 THEN [buffer[i] EXCEPT !.memory = content[request.first + Done]] ELSE buffer[i]
        BY <2>1, <2>4, <3>1
    <3>4. buffer' \in [1 .. Size -> Line]
        BY <2>1, <3>1, <3>2 DEF Line
    <3>5. ASSUME NEW i \in 1 .. Size
          PROVE  /\ buffer'[i].line # "dirty"
                 /\ i <= Done + 1 => buffer'[i].memory = content[request.first + i - 1]
      <4>1. buffer[i] \in Line /\ buffer[i].line # "dirty"
            /\ (i <= Done => buffer[i].memory = content[request.first + i - 1])
          BY <1>b, <2>1, <2>6 DEF BufferInv
      <4>2. CASE i = Done + 1
        <5>1. buffer'[i] = [buffer[i] EXCEPT !.memory = content[request.first + Done]]
            BY <3>3, <4>2
        <5>2. buffer'[i].line = buffer[i].line /\ buffer'[i].memory = content[request.first + Done]
            BY <4>1, <5>1 DEF Line
        <5>3. request.first + i - 1 = request.first + Done
            BY <2>1, <4>2
        <5> QED BY <4>1, <5>2, <5>3
      <4>3. CASE i # Done + 1
        <5>1. buffer'[i] = buffer[i]
            BY <3>3, <4>3
        <5>2. i <= Done + 1 => i <= Done
            BY <2>1, <4>3
        <5> QED BY <4>1, <5>1, <5>2
      <4> QED BY <4>2, <4>3
    <3> QED BY <2>1, <2>2, <2>3, <2>6, <3>1, <3>4, <3>5 DEF BufferInv
  <2>7. CASE operation = "write"
    <3>1. content' = [content EXCEPT ![request.first + Done] = buffer[Done + 1].memory] /\ buffer' = buffer
        BY <1>12, <2>1, <2>4, <2>7 DEF MoveBlock
    <3>2. buffer[Done + 1].memory = <<operationId, Done>>
      <4>1. buffer[Done + 1].memory = <<operationId, Done + 1 - 1>>
          BY <1>b, <2>1, <2>4, <2>7 DEF BufferInv
      <4>2. Done + 1 - 1 = Done
          BY <2>1
      <4> QED BY <4>1, <4>2
    <3>3. ASSUME NEW i \in 1 .. Done + 1
          PROVE  content'[request.first + i - 1] = <<operationId, i - 1>>
      <4>1. CASE i = Done + 1
        <5>1. request.first + i - 1 = request.first + Done /\ i - 1 = Done
            BY <2>1, <4>1
        <5> QED BY <2>1, <2>5, <3>1, <3>2, <5>1
      <4>2. CASE i # Done + 1
        <5>1. i \in 1 .. Done /\ request.first + i - 1 # request.first + Done
            BY <2>1, <4>2
        <5>2. content[request.first + i - 1] = <<operationId, i - 1>>
            BY <1>b, <2>1, <2>7, <5>1 DEF BufferInv
        <5>3. content'[request.first + i - 1] = content[request.first + i - 1]
            BY <2>1, <2>5, <3>1, <5>1 DEF Block
        <5> QED BY <5>2, <5>3
      <4> QED BY <4>1, <4>2
    <3> QED BY <1>b, <2>1, <2>2, <2>3, <2>7, <3>1, <3>3 DEF BufferInv
  <2> QED BY <2>1, <2>6, <2>7
<1>13. CASE TransferEnds
    BY <1>13, <1>a, <1>b DEF TransferEnds, task, progress, control, events, constants, TaskTypes,
                             ControlTypes, ProgressTypes, EventTypes, PhaseInv, QueueInv,
                             TransferInv, CursorInv, BufferInv, Sound, Size, Done, NoRequest, Kind,
                             Results
<1>14. CASE CardReady
    BY <1>14, <1>a, <1>b DEF CardReady, task, progress, control, events, peripheral, constants,
                             TaskTypes, ControlTypes, ProgressTypes, EventTypes, PhaseInv, QueueInv,
                             TransferInv, CursorInv, BufferInv, Sound, Size, Done, NoRequest, Kind,
                             Results
<1>15. CASE DataCache
  <2>1. /\ phase \in {"transferring", "completing"}
        /\ \E i \in DOMAIN buffer : Evict(i) \/ Prefetch(i)
        /\ UNCHANGED <<phase, operation, operationId, request, next, moved, completionResult,
                       content>>
      BY <1>15 DEF DataCache, task, progress, control, peripheral, card
  <2>2. Size' = Size /\ Done' = Done /\ Sound' = Sound
    <3>1. Size' = Size /\ Done' = Done
        BY <2>1 DEF Size, Done
    <3>2. Sound' = Sound
        BY <2>1 DEF Sound
    <3> QED BY <3>1, <3>2
  <2>3. CASE operation \in {"read", "write"}
    <3>1. buffer \in [1 .. Size -> Line]
        BY <1>b, <2>3 DEF BufferInv
    <3>2. PICK i \in 1 .. Size : Evict(i) \/ Prefetch(i)
        BY <2>1, <3>1
    <3>3. /\ buffer' \in [1 .. Size -> Line]
          /\ \A j \in 1 .. Size : buffer[j].line # "dirty" =>
                buffer'[j].line # "dirty" /\ buffer'[j].memory = buffer[j].memory
      <4>1. \E value \in Line :
               /\ buffer' = [buffer EXCEPT ![i] = value]
               /\ buffer[i].line # "dirty" => value.line # "dirty" /\ value.memory = buffer[i].memory
        <5>1. CASE Evict(i)
          <6> DEFINE put == Absent(IF buffer[i].line = "dirty" THEN buffer[i].cached ELSE buffer[i].memory)
          <6>1. /\ put \in Line
                /\ buffer[i].line # "dirty" => put.line # "dirty" /\ put.memory = buffer[i].memory
            <7>1. buffer[i] \in Line /\ <<>> \in Content
                BY <3>1 DEF Content
            <7> QED BY <7>1 DEF Line, Absent
          <6>2. buffer' = [buffer EXCEPT ![i] = put]
              BY <5>1 DEF Evict
          <6> QED BY <6>1, <6>2
        <5>2. CASE Prefetch(i)
          <6> DEFINE put == Clean(buffer[i].memory)
          <6>1. put \in Line /\ put.line # "dirty" /\ put.memory = buffer[i].memory
              BY <3>1 DEF Line, Clean
          <6>2. buffer' = [buffer EXCEPT ![i] = put]
              BY <5>2 DEF Prefetch
          <6> QED BY <6>1, <6>2
        <5> QED BY <3>2, <5>1, <5>2
      <4>2. PICK put \in Line :
               /\ buffer' = [buffer EXCEPT ![i] = put]
               /\ buffer[i].line # "dirty" => put.line # "dirty" /\ put.memory = buffer[i].memory
          BY <4>1
      <4>3. \A j \in 1 .. Size : buffer'[j] = IF j = i THEN put ELSE buffer[j]
          BY <3>1, <4>2
      <4>4. buffer' \in [1 .. Size -> Line]
          BY <3>1, <3>2, <4>2
      <4> QED BY <4>2, <4>3, <4>4
    <3>4. ASSUME Sound
          PROVE  /\ \A j \in 1 .. Size : buffer[j].line # "dirty"
                 /\ operation = "read" => \A j \in 1 .. Done : j \in 1 .. Size
      <4>1. Done \in Nat /\ Size \in Nat /\ Done <= Size
        <5>1. CASE phase = "completing"
            BY <3>4, <5>1, <2>3, <1>a DEF Done, Size, CursorInv, TaskTypes
        <5>2. CASE phase = "transferring"
          <6>1. /\ moved \in Nat /\ chunkBlocks \in Nat
                /\ next.cursor \in Nat /\ next.block \in Nat /\ next.left \in Nat
              BY <1>a, MaxBlocksPerTransferAssumption DEF ProgressTypes
          <6>2. chunkBlocks <= next.left
              BY <2>3, <3>4, <5>2, <6>1, <1>a, LeastIs, MaxBlocksPerTransferAssumption DEF CursorInv
          <6> QED BY <2>3, <3>4, <5>2, <6>1, <6>2, <1>a DEF CursorInv, Done, Size, TaskTypes
        <5> QED BY <2>1, <5>1, <5>2
      <4> QED BY <1>b, <2>3, <3>4, <4>1 DEF BufferInv
    <3> QED BY <1>b, <2>1, <2>2, <2>3, <3>3, <3>4 DEF BufferInv
  <2>4. CASE operation \notin {"read", "write"}
      BY <2>1, <2>4 DEF BufferInv
  <2> QED BY <2>3, <2>4
<1>16. CASE UNCHANGED vars
    BY <1>16, <1>a, <1>b DEF vars, task, progress, control, events, peripheral, card, constants,
                             TaskTypes, ControlTypes, ProgressTypes, EventTypes, PhaseInv, QueueInv,
                             TransferInv, CursorInv, BufferInv, Sound, Size, Done, NoRequest, Kind,
                             Results
<1> QED
    BY StepIs, <1>1, <1>2, <1>3, <1>4, <1>5, <1>6, <1>7, <1>8, <1>9, <1>10, <1>11, <1>12, <1>13,
       <1>14, <1>15, <1>16 DEF Steps

(* The driver starts with nothing asked and nothing on its way.            *)
LEMMA InitIs == Init => Inv
<1> SUFFICES ASSUME Init
             PROVE  Inv
    OBVIOUS
<1>1. /\ cardPresent \in BOOLEAN /\ cache \in BOOLEAN
      /\ onDone = FALSE /\ operation = "none" /\ operationId = 0 /\ phase = "idle"
      /\ next = At(0, 0, 0) /\ chunkBlocks = 0
      /\ readBuffer = 0 /\ completionResult = "success" /\ remainingPolls = 0 /\ timer = "off"
      /\ pendingEvent = "none" /\ pendingEventOperation = 0 /\ eventScheduled = FALSE
      /\ queue = <<>> /\ transfer = "none" /\ moved = 0
      /\ content = [block \in Block |-> <<0, block>>]
      /\ unflushed = {} /\ busy = FALSE /\ flushing = FALSE
      /\ request = NoRequest /\ disturbed = 0
    BY DEF Init
<1>2. /\ NumberOfBlocks \in Nat /\ MaxBlocks \in Nat /\ MaxOperations \in Nat /\ MaxPolls \in Nat
      /\ MaxBlocksPerTransfer \in Nat
    BY NumberOfBlocksAssumption, MaxBlocksPerTransferAssumption, BoundsAssumption
<1>3. \A block \in Block : <<0, block>> \in Content
    BY <1>2 DEF Block, Content
<1>4. content \in [Block -> Content]
    BY <1>1, <1>3
<1>5. NoRequest \in [kind : Kind \union {"none"}, first : Nat, end : Nat, id : Nat]
    BY DEF NoRequest
<1>6. TaskTypes
  <2>1. onDone \in BOOLEAN /\ request \in [kind : Kind \union {"none"}, first : Nat, end : Nat,
        id : Nat]
      BY <1>1, <1>5
  <2>2. operation \in Kind \union {"none"}
      BY <1>1
  <2>3. /\ operationId \in 0 .. MaxOperations /\ readBuffer \in 0 .. MaxBlocks
        /\ disturbed \in 0 .. operationId
      BY <1>1, <1>2
  <2> QED BY <2>1, <2>2, <2>3 DEF TaskTypes
<1>7. ControlTypes /\ ProgressTypes /\ EventTypes /\ CardTypes
  <2>1. ControlTypes
      BY <1>1, <1>2 DEF ControlTypes
  <2>2. ProgressTypes
      BY <1>1, <1>2 DEF ProgressTypes, At
  <2>3. EventTypes
    <3>1. queue \in Seq(Entry)
        BY <1>1
    <3>2. eventScheduled \in BOOLEAN
        BY <1>1
    <3>3. operationId = 0 /\ pendingEventOperation = 0
        BY <1>1
    <3>4. pendingEventOperation \in 0 .. operationId
        BY <3>3
    <3> QED BY <1>1, <3>1, <3>2, <3>4 DEF EventTypes
  <2>4. CardTypes
      BY <1>1, <1>4 DEF CardTypes
  <2> QED BY <2>1, <2>2, <2>3, <2>4
<1>8. \A entry : ~Queued(entry)
    BY <1>1 DEF Queued, In
<1>9. Orderly(queue)
    BY <1>1 DEF Orderly
<1>10. PhaseInv /\ TransferInv /\ DisturbedInv /\ CardInv
    BY <1>1 DEF PhaseInv, TransferInv, DisturbedInv, CardInv, NoRequest
<1>11. QueueInv
    BY <1>1, <1>8, <1>9 DEF QueueInv
<1>12. CursorInv /\ BufferInv
    BY <1>1 DEF CursorInv, BufferInv, Sound
<1> QED BY <1>6, <1>7, <1>10, <1>11, <1>12 DEF Inv, Types

(* What holds in every state. *)
THEOREM Invariant == Spec => []Inv
<1>1. Inv /\ [Next]_vars => Inv'
    BY TaskStep, ControlStep, ProgressStep, EventStep, CardStep, PhaseStep, QueueStep, TransferStep,
       DisturbedStep, CardInvStep, CursorStep, BufferStep DEF Inv, Types
<1> QED BY InitIs, <1>1, PTL DEF Spec

(* Every variable keeps its type, and the cursor stays on the card.        *)
THEOREM TypeCorrect == Spec => []TypeOK
<1>1. Inv => TypeOK
  <2> SUFFICES ASSUME Inv
               PROVE  TypeOK
      OBVIOUS
  <2>1. /\ NumberOfBlocks \in Nat /\ MaxBlocks \in Nat /\ MaxOperations \in Nat
        /\ TaskTypes /\ ControlTypes /\ ProgressTypes /\ EventTypes /\ CardTypes
      BY NumberOfBlocksAssumption, BoundsAssumption DEF Inv, Types
  <2>2. /\ cardPresent \in BOOLEAN /\ cache \in BOOLEAN /\ onDone \in BOOLEAN
        /\ eventScheduled \in BOOLEAN /\ busy \in BOOLEAN /\ flushing \in BOOLEAN
      BY <2>1 DEF TaskTypes, EventTypes, CardTypes
  <2>3. {cardPresent, cache, onDone, eventScheduled, busy, flushing} \subseteq BOOLEAN
      BY <2>2, Zenon
  <2>4. /\ operationId \in 0 .. MaxOperations /\ pendingEventOperation \in 0 .. MaxOperations
        /\ disturbed \in 0 .. MaxOperations
      BY <2>1 DEF TaskTypes, EventTypes
  <2>5. {operationId, pendingEventOperation, disturbed} \subseteq 0 .. MaxOperations
      BY <2>4, Zenon
  <2>6. /\ next \in [cursor : 0 .. MaxBlocks, block : Nat, left : 0 .. MaxBlocks]
        /\ onDone => next.block + next.left <= NumberOfBlocks
    <3>1. /\ next.cursor \in Nat /\ next.block \in Nat /\ next.left \in Nat
          /\ next.cursor + next.left <= MaxBlocks /\ next.block + next.left <= NumberOfBlocks
        BY <2>1 DEF ProgressTypes
    <3>2. next.cursor \in 0 .. MaxBlocks /\ next.left \in 0 .. MaxBlocks
        BY <2>1, <3>1
    <3>3. next \in [cursor : Nat, block : Nat, left : Nat]
        BY <2>1 DEF ProgressTypes
    <3> QED BY <3>1, <3>2, <3>3
  <2>7. /\ operation \in {"none", "read", "write", "erase", "flush"}
        /\ readBuffer \in 0 .. MaxBlocks
      BY <2>1 DEF TaskTypes, Kind
  <2>8. /\ phase \in {"idle", "transferring", "waitingForCard", "completing"}
        /\ remainingPolls \in 0 .. MaxPolls /\ timer \in {"off", "transfer", "poll"}
      BY <2>1 DEF ControlTypes
  <2>9. chunkBlocks \in 0 .. MaxBlocksPerTransfer /\ moved \in 0 .. MaxBlocksPerTransfer
      BY <2>1 DEF ProgressTypes
  <2>10. /\ pendingEvent \in {"none", "transferred", "failed"}
         /\ queue \in Seq({"HandleInterrupt", "HandleEvent", "Finish"})
         /\ transfer \in {"none", "moving", "ended", "failed", "stopFailed"}
      BY <2>1 DEF EventTypes, Entry, Reports, Failures
  <2>11. unflushed \subseteq Block
      BY <2>1 DEF CardTypes
  <2> QED BY <2>3, <2>5, <2>6, <2>7, <2>8, <2>9, <2>10, <2>11 DEF TypeOK
<1> QED BY <1>1, Invariant, PTL

(* A request succeeds exactly when nothing went wrong with it, and no      *)
(* report of a transfer is lost on its way to the dispatcher.              *)
THEOREM SuccessExactlyWhenUndisturbed == Spec => []SuccessIffUndisturbed
<1>1. Inv => SuccessIffUndisturbed
  <2> SUFFICES ASSUME Inv
               PROVE  SuccessIffUndisturbed
      OBVIOUS
  <2>1. \A entry : Queued(entry) => \E i \in DOMAIN queue : queue[i] = entry
      BY DEF Queued, In, Inv, Types, EventTypes
  <2>2. ASSUME phase = "transferring"
        PROVE  \/ transfer = "moving"
               \/ transfer # "none" /\ \E i \in DOMAIN queue : queue[i] = "HandleInterrupt"
               \/ /\ pendingEvent # "none" /\ pendingEventOperation = operationId
                  /\ \E i \in DOMAIN queue : queue[i] = "HandleEvent"
    <3>1. CASE transfer \in Reports
      <4>1. Queued("HandleInterrupt") /\ transfer # "none"
          BY <2>2, <3>1 DEF Inv, TransferInv, Reports, Failures
      <4> QED BY <2>1, <4>1
    <3>2. CASE transfer = "none"
      <4>1. pendingEvent # "none" /\ pendingEventOperation = operationId /\ Queued("HandleEvent")
          BY <2>2, <3>2 DEF Inv, TransferInv, QueueInv
      <4> QED BY <2>1, <4>1
    <3> QED BY <3>1, <3>2 DEF Inv, Types, EventTypes
  <2>3. phase = "completing" => (completionResult = "success" <=> disturbed # operationId)
      BY DEF Inv, DisturbedInv
  <2> QED BY <2>2, <2>3 DEF SuccessIffUndisturbed, ReportUnderway
<1> QED BY <1>1, Invariant, PTL

-----------------------------------------------------------------------------
(* The block device implements hal::BlockDevice. *)

(* A request that is accepted, begun or refused, is asked for: of the card *)
(* it erases at most what was asked.                                       *)
LEMMA AcceptedIsAsked ==
    ASSUME Inv, NEW kind \in Kind, NEW first \in Nat, NEW end \in Nat,
           Accepted(kind, first, end), OnlyErases(kind, first, end)
    PROVE  Abstract!Request
<1>1. request.kind = "none"
    BY DEF Accepted, Inv, PhaseInv
<1>2. operationId' \in Nat
    BY Known DEF Accepted
<1>3. request' = [kind |-> kind, first |-> first, end |-> end,
      id |-> operationId'] /\ UNCHANGED told
    BY DEF Accepted
<1>4. request' \in [kind : {"read", "write", "erase", "flush"}, first : Nat, end : Nat, id : Nat]
    BY <1>2, <1>3 DEF Kind
<1>5. request'.kind = kind /\ request'.first = first /\ request'.end = end
    BY <1>3
<1>6. ASSUME NEW block \in Block, content'[block] # content[block]
      PROVE  block \in Abstract!Requested(request') /\ request'.kind = "erase"
  <2>1. kind = "erase" /\ first <= block /\ block < end
      BY <1>6 DEF OnlyErases
  <2> QED BY <1>5, <2>1 DEF Abstract!Requested, Abstract!Block, Block
<1>7. unflushed' = unflushed
    BY DEF OnlyErases
<1>8. Abstract!CarryOut(request')
    BY <1>6, <1>7 DEF Abstract!CarryOut, Abstract!Block, Block
<1> QED BY <1>1, <1>3, <1>4, <1>8 DEF Abstract!Request

(* The DMA of a write writes the data for the block to that block.         *)
LEMMA MoveBlockCarriesOut ==
    ASSUME Inv, MoveBlock
    PROVE  Abstract!Progress \/ UNCHANGED Abstract!vars
<1>1. UNCHANGED <<request, told>>
    BY DEF MoveBlock, task
<1>2. CASE operation = "read"
    BY <1>1, <1>2 DEF MoveBlock, Abstract!vars
<1>3. CASE operation = "write"
  <2>1. /\ Size \in Nat /\ Done \in Nat /\ Done + 1 <= Size /\ Done = next.cursor + moved
        /\ request.first \in Nat /\ next.block + moved = request.first + Done
        /\ request.first + Done \in Block /\ request.first + Size <= NumberOfBlocks
        /\ moved \in Nat /\ Sound
      BY MoveBlockIs
  <2>2. request.end \in Nat /\ next.cursor \in Nat /\ content \in [Block -> Content]
      BY Known DEF OnCard, Inv, Types, TaskTypes
  <2>3. next.cursor + moved + 1 = Done + 1 /\ Done + 1 \in 1 .. Size /\ Done + 1 - 1 = Done
      BY <2>1, <2>2
  <2>4. /\ content' = [content EXCEPT ![request.first + Done] = buffer[Done + 1].memory]
        /\ unflushed' = unflushed \union {request.first + Done}
      BY <1>3, <2>1, <2>3 DEF MoveBlock
  <2>5. \A i \in 1 .. Size : buffer[i].memory = <<operationId, i - 1>>
      BY <1>3, <2>1 DEF Inv, BufferInv
  <2>6. buffer[Done + 1].memory = <<operationId, Done>>
    <3>1. Done + 1 \in 1 .. Size
        BY <2>3
    <3>2. buffer[Done + 1].memory = <<operationId, Done + 1 - 1>>
        BY <2>1, <2>5, <3>1
    <3> QED BY <2>3, <3>2
  <2>7. request.kind = "write" /\ request.id = operationId
      BY <1>3 DEF Inv, PhaseInv
  <2>8. request.first + Done < request.end /\ request.first <= request.first + Done
        /\ (request.first + Done) - request.first = Done
      BY <2>1, <2>2 DEF Size
  <2>9. request.first + Done \in Abstract!Requested(request)
      BY <2>1, <2>8 DEF Abstract!Requested, Abstract!Block, Block
  <2>10. ASSUME NEW block \in Block, content'[block] # content[block]
         PROVE  block = request.first + Done /\ content'[block] = Abstract!Written(request, block)
    <3>1. block = request.first + Done
        BY <2>2, <2>4, <2>10
    <3> QED BY <2>1, <2>2, <2>4, <2>6, <2>7, <2>8, <3>1 DEF Abstract!Written
  <2>11. Abstract!CarryOut(request)
      BY <2>4, <2>7, <2>9, <2>10 DEF Abstract!CarryOut, Abstract!Block, Block
  <2> QED BY <1>1, <2>11 DEF Abstract!Progress
<1> QED BY <1>2, <1>3, MoveBlockIs

(* What is told of a read that succeeds is what the card holds: the lines  *)
(* the cache had of the buffer are gone.                                   *)
LEMMA ReadIsTold ==
    ASSUME Inv, Finish, phase = "completing", completionResult = "success", operation = "read"
    PROVE  told'.data = [i \in 1 .. request.end - request.first |-> content[request.first + i - 1]]
<1>1. /\ Sound /\ Done = Size /\ readBuffer = Size /\ buffer \in [1 .. Size -> Line]
      /\ \A i \in 1 .. Size : buffer[i].memory = content[request.first + i - 1]
    BY DEF Inv, CursorInv, BufferInv, Sound, Done
<1>2. told' = [result |-> completionResult,
               data |-> [i \in 1 .. readBuffer |-> Seen(InvalidateDataCache(buffer)[i])]]
    BY DEF Finish
<1>3. ASSUME NEW i \in 1 .. Size
      PROVE  Seen(InvalidateDataCache(buffer)[i]) = content[request.first + i - 1]
  <2>1. InvalidateDataCache(buffer)[i] = Absent(buffer[i].memory)
      BY <1>1 DEF InvalidateDataCache
  <2> QED BY <1>1, <2>1 DEF Seen, Absent
<1>4. told'.data = [i \in 1 .. Size |-> Seen(InvalidateDataCache(buffer)[i])]
    BY <1>1, <1>2
<1> QED BY <1>3, <1>4 DEF Size

(* The completion ends a request, and one that succeeds was fulfilled.     *)
LEMMA FinishFulfils ==
    ASSUME Inv, Finish
    PROVE  Abstract!Finish
<1>1. phase = "completing"
    BY HandlingIs DEF Finish, Inv, QueueInv
<1>2. /\ request' = NoRequest /\ UNCHANGED <<content, unflushed>>
      /\ told'.result = completionResult
    BY DEF Finish, card
<1>3. /\ request.kind = operation /\ operation # "none" /\ request.id = operationId
      /\ request.first \in Nat /\ request.end \in Nat /\ NumberOfBlocks \in Nat
    BY <1>1, Known DEF Inv, PhaseInv, Types, TaskTypes
<1>4. ASSUME completionResult = "success"
      PROVE  Abstract!Fulfilled(told'.data)
  <2>1. Sound /\ Done = Size
      BY <1>1, <1>4 DEF Sound, Done
  <2>2. /\ request.kind = "flush" => unflushed = {}
        /\ request.kind = "erase" => request.end <= NumberOfBlocks
        /\ request.kind \in {"read",
           "write"} => request.end <= request.first \/ request.end <= NumberOfBlocks
      BY <1>1, <1>3, <1>4, <2>1 DEF Inv, CardInv, CursorInv
  <2>3. ASSUME request.kind = "write", NEW block \in Abstract!Requested(request)
        PROVE  content[block] = Abstract!Written(request, block)
    <3>1. block \in Block /\ block \in Nat /\ request.first <= block /\ block < request.end
        BY <1>3, <2>3 DEF Abstract!Requested, Abstract!Block, Block
    <3>2. (block - request.first) + 1 \in 1 .. Size
        BY <1>3, <3>1 DEF Size
    <3>3. \A i \in 1 .. Size : content[request.first + i - 1] = <<operationId, i - 1>>
        BY <1>3, <2>1, <2>3 DEF Inv, BufferInv
    <3>4. /\ request.first + ((block - request.first) + 1) - 1 = block
          /\ ((block - request.first) + 1) - 1 = block - request.first
        BY <1>3, <3>1
    <3>5. content[request.first + ((block - request.first) + 1) - 1]
              = <<operationId, ((block - request.first) + 1) - 1>>
        BY <3>2, <3>3
    <3> QED BY <1>3, <3>4, <3>5 DEF Abstract!Written
  <2>4. request.kind = "read" =>
            told'.data = [i \in 1 .. request.end - request.first |-> content[request.first + i - 1]]
      BY <1>1, <1>3, <1>4, ReadIsTold
  <2> QED BY <2>2, <2>3, <2>4 DEF Abstract!Fulfilled
<1>5. request' = Abstract!NoRequest
    BY <1>2 DEF NoRequest, Abstract!NoRequest
<1> QED BY <1>2, <1>3, <1>4, <1>5 DEF Abstract!Finish

(* A card that is ready has written its cache, or some of it. *)
LEMMA CardReadyCarriesOut == CardReady => Abstract!Progress
<1> SUFFICES ASSUME CardReady
             PROVE  Abstract!Progress
    OBVIOUS
<1>1. /\ UNCHANGED <<request, told, content>>
      /\ unflushed' = IF flushing \/ ~cache THEN {} ELSE unflushed
    BY DEF CardReady, task
<1>2. unflushed' \subseteq unflushed
    BY <1>1
<1> QED BY <1>1, <1>2 DEF Abstract!Progress, Abstract!CarryOut

(* A request is asked for when it begins, carried out block by block, and  *)
(* told once; every other step changes nothing of what was promised.       *)
THEOREM ImplementsTheBlockDevice == Spec => ImplementsBlockDevice
<1>1. Init => Abstract!Init
    BY DEF Init, Abstract!Init, NoRequest, Abstract!NoRequest, Block, Abstract!Block
<1>2. Inv /\ [Next]_vars => [Abstract!Next]_(Abstract!vars)
  <2> SUFFICES ASSUME Inv, [Next]_vars
               PROVE  Abstract!Next \/ UNCHANGED Abstract!vars
      OBVIOUS
  <2>1. ASSUME NEW kind \in {"read", "write"}, NEW first \in Nat, NEW blocks \in 0 .. MaxBlocks,
               BeginsTransfer(kind, first, blocks)
        PROVE  Abstract!Request
    <3>1. Accepted(kind, first, first + blocks) /\ UNCHANGED card
        BY <2>1 DEF BeginsTransfer
    <3>2. OnlyErases(kind, first, first + blocks)
        BY <3>1, Known DEF OnlyErases, card
    <3>3. kind \in Kind /\ first + blocks \in Nat
        BY Known DEF Kind
    <3> QED BY <3>1, <3>2, <3>3, AcceptedIsAsked
  <2>2. ASSUME NEW kind \in Kind, NEW first \in Nat, NEW end \in Nat, NEW result \in Results,
               EndsAtOnce(kind, first, end, result)
        PROVE  Abstract!Request
      BY <2>2, AcceptedIsAsked DEF EndsAtOnce
  <2>3. ASSUME NEW kind \in Kind, NEW first \in Nat, NEW end \in Nat, WaitsAtOnce(kind, first, end)
        PROVE  Abstract!Request
      BY <2>3, AcceptedIsAsked DEF WaitsAtOnce
  <2>4. CASE InterruptIgnored \/ InterruptReports
      BY <2>4 DEF InterruptIgnored, InterruptReports, task, card, Abstract!vars
  <2>5. CASE EventIgnored \/ ChunkFails \/ AfterChunk
      BY <2>5 DEF EventIgnored, ChunkFails, AfterChunk, task, card, Abstract!vars
  <2>6. CASE AfterPoll
      BY <2>6 DEF AfterPoll, task, card, Abstract!vars
  <2>7. CASE TimesOut
      BY <2>7 DEF TimesOut, task, Abstract!vars
  <2>8. CASE TransferEnds
      BY <2>8 DEF TransferEnds, task, Abstract!vars
  <2>9. CASE DataCache
      BY <2>9 DEF DataCache, task, card, Abstract!vars
  <2>10. CASE UNCHANGED vars
      BY <2>10 DEF vars, task, card, Abstract!vars
  <2> QED BY <2>1, <2>2, <2>3, <2>4, <2>5, <2>6, <2>7, <2>8, <2>9, <2>10, StepIs, FinishFulfils,
             MoveBlockCarriesOut, CardReadyCarriesOut DEF Steps, Abstract!Next
<1> QED BY <1>1, <1>2, Invariant, PTL DEF Spec, ImplementsBlockDevice, Abstract!Spec
=============================================================================
