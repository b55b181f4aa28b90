-------------------------------- MODULE FdCan --------------------------------
(***************************************************************************)
(* hal::FdCanStm: frames out of a transmit FIFO and into a receive queue,  *)
(* with the errors of the bus.  Its interrupt preempts SendData and the    *)
(* dispatcher between any two of their steps.  The application sends a     *)
(* frame once it was told what became of the one before it.                *)
(***************************************************************************)
EXTENDS Integers, Sequences

CONSTANTS
    TxFifoSize,      \* of the peripheral; 3 in the hardware
    RxFifoSize,      \* of the peripheral; 3 in the hardware
    RxQueueSize,     \* frames rxQueue has room for
    MaxSends, MaxFrames, MaxBusErrors   \* bounds of the model

ASSUME SizesAssumption == {TxFifoSize, RxFifoSize, RxQueueSize} \subseteq Nat \ {0}
ASSUME BoundsAssumption == {MaxSends, MaxFrames, MaxBusErrors} \subseteq Nat

VARIABLES
    (* Sending. *)
    sending, onSendComplete, sendCompletions,
    adding,                 \* SendData is before HAL_FDCAN_AddMessageToTxFifoQ
    txFifo, started,
    (* Receiving. *)
    rxFifo, rxQueue, notified,
    (* Errors and the bus. *)
    pendingErrors, previousWarning, previousPassive, busOff, autoBusOffRecovery,
    level,                  \* the peripheral's error state
    lastErrorCode, protocolErrors,      \* there is one, and it interrupts
    recovering,             \* the peripheral was started again after bus-off
    flags,                  \* of the interrupt
    queue, running,         \* the dispatcher's, and what it is in the middle of
    (* Kept by the model: frames sent and received, what was told of them,  *)
    (* errors no call of onError has begun for, and bus-off amid SendData.  *)
    sent, transmitted, outcome, arrived, lost, delivered, owed, raced, busErrors

transmission == <<sending, onSendComplete, sendCompletions, adding, txFifo, started, sent, transmitted, outcome, raced>>
reception == <<rxFifo, rxQueue, notified, arrived, lost, delivered>>
status == <<previousWarning, previousPassive, busOff, autoBusOffRecovery, lastErrorCode, protocolErrors, recovering>>
bus == <<level, busErrors>>
dispatcher == <<queue, running, pendingErrors>>
vars == <<transmission, reception, status, bus, dispatcher, flags, owed>>

Levels == <<"active", "warning", "passive", "off">>
Above(one) == {Levels[i] : i \in {j \in 2 .. 4 : \E k \in 1 .. j - 1 : Levels[k] = one}}
Frames == 1 .. MaxSends

Init ==
    /\ autoBusOffRecovery \in BOOLEAN
    /\ sending = FALSE /\ onSendComplete = 0 /\ sendCompletions = <<>> /\ adding = FALSE
    /\ txFifo = <<>> /\ started = TRUE
    /\ rxFifo = <<>> /\ rxQueue = <<>> /\ notified = FALSE
    /\ pendingErrors = {} /\ previousWarning = FALSE /\ previousPassive = FALSE /\ busOff = FALSE
    /\ level = "active" /\ lastErrorCode = FALSE /\ protocolErrors = TRUE /\ recovering = FALSE
    /\ flags = {} /\ queue = <<>> /\ running = "nothing"
    /\ sent = 0 /\ transmitted = {} /\ outcome = [frame \in Frames |-> "none"]
    /\ arrived = 0 /\ lost = {} /\ delivered = <<>> /\ owed = {} /\ raced = FALSE /\ busErrors = 0

-----------------------------------------------------------------------------
(* Sending a frame, in the application's turn of the dispatcher.           *)

Completion(success) == [frame |-> onSendComplete, success |-> success]

Unanswered == IF sent = 0 THEN FALSE ELSE outcome[sent] = "none"

SendData ==
    /\ ~adding
    /\ sent < MaxSends
    /\ ~Unanswered
    /\ onSendComplete' = sent + 1
    /\ sending' = TRUE
    /\ adding' = TRUE
    /\ sent' = sent + 1
    /\ UNCHANGED <<sendCompletions, txFifo, started, transmitted, outcome, raced>>
    /\ UNCHANGED <<reception, status, bus, dispatcher, flags, owed>>

AddMessageToTxFifoQ ==
    /\ adding
    /\ adding' = FALSE
    /\ IF started /\ Len(txFifo) < TxFifoSize
       THEN /\ txFifo' = Append(txFifo, sent)
            /\ UNCHANGED <<sending, sendCompletions, queue>>
       ELSE /\ sending' = FALSE
            /\ sendCompletions' = sendCompletions \o IF sending THEN <<Completion(FALSE)>> ELSE <<>>
            /\ queue' = queue \o IF sending THEN <<"send">> ELSE <<>>
            /\ UNCHANGED txFifo
    /\ UNCHANGED <<onSendComplete, started, sent, transmitted, outcome, raced>>
    /\ UNCHANGED <<reception, status, bus, running, pendingErrors, flags, owed>>

-----------------------------------------------------------------------------
(* The interrupt. *)

(* Mutant: the queue is not asked whether it is full. *)
AcceptedAll == rxFifo

(* Frames that find the queue full are dropped. *)
Accepted ==
    LET room == RxQueueSize - Len(rxQueue)
    IN  IF Len(rxFifo) < room THEN rxFifo ELSE SubSeq(rxFifo, 1, room)

Dropped == {rxFifo[i] : i \in Len(Accepted) + 1 .. Len(rxFifo)}

HandleRxInterrupt ==
    IF "rx" \in flags
    THEN /\ rxFifo' = <<>>
         /\ rxQueue' = rxQueue \o Accepted
         /\ notified' = (notified \/ Accepted # <<>>)
         /\ lost' = lost \union Dropped
         /\ UNCHANGED <<arrived, delivered>>
    ELSE UNCHANGED reception

Notification == IF "rx" \in flags /\ Accepted # <<>> /\ ~notified THEN <<"rx">> ELSE <<>>

RxErrors == IF ("rx" \in flags /\ Dropped # {}) \/ "lost" \in flags THEN {"messageLost"} ELSE {}

Warning == level # "active"
Passive == level \in {"passive", "off"}

StatusErrors ==
    IF "status" \in flags
    THEN {error \in {"protocol", "errorWarning", "errorPassive", "busOff"} :
            \/ error = "protocol" /\ lastErrorCode
            \/ error = "errorWarning" /\ Warning /\ ~previousWarning
            \/ error = "errorPassive" /\ Passive /\ ~previousPassive
            \/ error = "busOff" /\ level = "off" /\ ~busOff}
    ELSE {}

InOrder(errors) ==
    LET Entry(error) == IF error \in errors THEN <<error>> ELSE <<>>
    IN  Entry("messageLost") \o Entry("protocol")
            \o Entry("errorWarning") \o Entry("errorPassive") \o Entry("busOff")

(* Mutant: an error counts as waiting until onError has returned. *)
ScheduledUnlessReporting(errors) == InOrder(errors \ (pendingErrors \union {running}))

(* ScheduleError: an error that still waits to be reported is not again.   *)
Scheduled(errors) == InOrder(errors \ pendingErrors)

(* Mutant: what is in the FIFO is sent after the recovery. *)
NoAbortTxRequest == UNCHANGED txFifo

AbortTxRequest == txFifo' = <<>>

(* The peripheral is stopped and started again, which a stop that fails    *)
(* makes the last time.                                                    *)
HandleBusOff ==
    /\ busOff' = TRUE
    /\ protocolErrors' = FALSE
    /\ AbortTxRequest
    /\ started' \in {started} \union (IF autoBusOffRecovery THEN {FALSE} ELSE {})
    /\ recovering' = (autoBusOffRecovery /\ started')
    /\ raced' = (raced \/ adding)

HandleStatusInterrupt ==
    IF "status" \in flags
    THEN /\ lastErrorCode' = FALSE
         /\ previousWarning' = Warning
         /\ previousPassive' = Passive
         /\ IF level = "off" /\ ~busOff
            THEN HandleBusOff
            ELSE /\ busOff' = (busOff /\ level = "off")
                 /\ protocolErrors' = (protocolErrors \/ (busOff /\ level # "off"))
                 /\ UNCHANGED <<txFifo, started, recovering, raced>>
         /\ UNCHANGED autoBusOffRecovery
    ELSE UNCHANGED <<status, txFifo, started, raced>>

(* Mutant: bus-off completes nothing. *)
CompletedWhenSent == IF sending /\ "tx" \in flags THEN <<Completion(TRUE)>> ELSE <<>>

(* A frame that is sent completes before a bus-off that comes with it.     *)
Completed ==
    IF sending /\ "tx" \in flags THEN <<Completion(TRUE)>>
    ELSE IF sending /\ "busOff" \in StatusErrors THEN <<Completion(FALSE)>>
    ELSE <<>>

StillSending == sending /\ Completed = <<>>

Invoke ==
    /\ flags # {}
    /\ flags' = {}
    /\ HandleRxInterrupt
    /\ HandleStatusInterrupt
    /\ sending' = StillSending
    /\ sendCompletions' = sendCompletions \o Completed
    /\ pendingErrors' = pendingErrors \union RxErrors \union StatusErrors
    /\ queue' = LET send == IF Completed = <<>> THEN <<>> ELSE <<"send">>
                    before == Notification \o Scheduled(RxErrors)
                IN  queue \o before \o IF "tx" \in flags
                                       THEN send \o Scheduled(StatusErrors)
                                       ELSE Scheduled(StatusErrors) \o send
    /\ owed' = owed \union RxErrors
    /\ UNCHANGED <<running, bus, onSendComplete, adding, sent, transmitted, outcome>>

-----------------------------------------------------------------------------
(* The dispatcher. *)

Errors == {"messageLost", "protocol", "errorWarning", "errorPassive", "busOff"}

Take(entries) ==
    /\ ~adding
    /\ running = "nothing"
    /\ queue # <<>>
    /\ Head(queue) \in entries
    /\ queue' = Tail(queue)

DispatchSendCompletion ==
    /\ Take({"send"})
    /\ LET completion == Head(sendCompletions)
       IN  outcome' = [outcome EXCEPT ![completion.frame] = IF completion.success THEN "sent" ELSE "failed"]
    /\ sendCompletions' = Tail(sendCompletions)
    /\ UNCHANGED <<sending, onSendComplete, adding, txFifo, started, sent, transmitted, raced>>
    /\ UNCHANGED <<reception, status, bus, running, pendingErrors, flags, owed>>

(* The error no longer waits when onError is called: one that comes during *)
(* the call needs a report of its own.                                     *)
DispatchError ==
    /\ Take(Errors)
    /\ running' = Head(queue)
    /\ pendingErrors' = pendingErrors \ {Head(queue)}
    /\ owed' = owed \ {Head(queue)}
    /\ UNCHANGED <<transmission, reception, status, bus, flags>>

OnError ==
    /\ ~adding
    /\ running \in Errors
    /\ running' = "nothing"
    /\ UNCHANGED <<transmission, reception, status, bus, queue, pendingErrors, flags, owed>>

DispatchReceived ==
    /\ Take({"rx"})
    /\ running' = "rx"
    /\ notified' = FALSE
    /\ UNCHANGED <<rxFifo, rxQueue, arrived, lost, delivered>>
    /\ UNCHANGED <<transmission, status, bus, pendingErrors, flags, owed>>

(* Mutant: one frame of those in the queue. *)
NextFrameLater == running' = "nothing"

NextFrame == UNCHANGED running

ProcessRxBuffer ==
    /\ ~adding
    /\ running = "rx"
    /\ IF rxQueue = <<>>
       THEN running' = "nothing" /\ UNCHANGED <<rxQueue, delivered>>
       ELSE /\ delivered' = Append(delivered, Head(rxQueue))
            /\ rxQueue' = Tail(rxQueue)
            /\ NextFrame
    /\ UNCHANGED <<rxFifo, notified, arrived, lost>>
    /\ UNCHANGED <<transmission, status, bus, queue, pendingErrors, flags, owed>>

-----------------------------------------------------------------------------
(* The peripheral and the bus.  The interrupt is served before the bus can *)
(* have recovered and gone off again.                                      *)

Transmit ==
    /\ started /\ level # "off" /\ txFifo # <<>>
    /\ txFifo' = Tail(txFifo)
    /\ transmitted' = transmitted \union {Head(txFifo)}
    /\ flags' = flags \union {"tx"}
    /\ UNCHANGED <<sending, onSendComplete, sendCompletions, adding, started, sent, outcome, raced>>
    /\ UNCHANGED <<reception, status, bus, dispatcher, owed>>

Arrive ==
    /\ started /\ level # "off" /\ arrived < MaxFrames
    /\ arrived' = arrived + 1
    /\ IF Len(rxFifo) < RxFifoSize
       THEN /\ rxFifo' = Append(rxFifo, arrived')
            /\ flags' = flags \union {"rx"}
            /\ UNCHANGED <<lost, owed>>
       ELSE /\ lost' = lost \union {arrived'}
            /\ flags' = flags \union {"lost"}
            /\ owed' = owed \union {"messageLost"}
            /\ UNCHANGED rxFifo
    /\ UNCHANGED <<rxQueue, notified, delivered, transmission, status, bus, dispatcher>>

BusError ==
    /\ busErrors < MaxBusErrors
    /\ busErrors' = busErrors + 1
    /\ lastErrorCode' = TRUE
    /\ level' \in {level} \union Above(level)
    /\ level' = "off" /\ level # "off" => ~busOff
    /\ flags' = IF protocolErrors \/ level' # level THEN flags \union {"status"} ELSE flags
    /\ owed' = IF level' = "off" /\ level # "off" THEN owed \union {"busOff"} ELSE owed
    /\ UNCHANGED <<transmission, reception, previousWarning, previousPassive, busOff, autoBusOffRecovery,
                   protocolErrors, recovering, dispatcher>>

BusRecovers ==
    /\ \/ level = "passive" /\ level' = "warning" /\ UNCHANGED recovering
       \/ level = "warning" /\ level' = "active" /\ UNCHANGED recovering
       \/ level = "off" /\ recovering /\ level' = "active" /\ recovering' = FALSE
    /\ flags' = flags \union {"status"}
    /\ UNCHANGED <<transmission, reception, previousWarning, previousPassive, busOff, autoBusOffRecovery,
                   lastErrorCode, protocolErrors, busErrors, dispatcher, owed>>

-----------------------------------------------------------------------------
Dispatch == DispatchSendCompletion \/ DispatchError \/ OnError \/ DispatchReceived \/ ProcessRxBuffer
Next ==
    \/ SendData \/ AddMessageToTxFifoQ \/ Invoke \/ Dispatch
    \/ Transmit \/ Arrive \/ BusError \/ BusRecovers

(* The processor runs, and the bus carries a frame when it can.            *)
Fairness ==
    /\ WF_vars(AddMessageToTxFifoQ) /\ WF_vars(Invoke) /\ WF_vars(Dispatch)
    /\ WF_vars(Transmit) /\ WF_vars(BusRecovers)

Spec == Init /\ [][Next]_vars /\ Fairness

-----------------------------------------------------------------------------
TypeOK ==
    /\ {sending, adding, started, notified, previousWarning, previousPassive, busOff, autoBusOffRecovery,
        lastErrorCode, protocolErrors, recovering, raced} \subseteq BOOLEAN
    /\ onSendComplete \in 0 .. MaxSends
    /\ sendCompletions \in Seq([frame : Frames, success : BOOLEAN])
    /\ txFifo \in Seq(Frames) /\ Len(txFifo) <= TxFifoSize
    /\ rxFifo \in Seq(1 .. MaxFrames) /\ Len(rxFifo) <= RxFifoSize
    /\ rxQueue \in Seq(1 .. MaxFrames) /\ Len(rxQueue) <= RxQueueSize
    /\ {pendingErrors, owed} \subseteq SUBSET Errors
    /\ level \in {"active", "warning", "passive", "off"}
    /\ flags \subseteq {"rx", "lost", "tx", "status"}
    /\ queue \in Seq(Errors \union {"send", "rx"})
    /\ running \in Errors \union {"nothing", "rx"}
    /\ outcome \in [Frames -> {"none", "sent", "failed"}]

(* What the application is told of a frame is what became of it: a frame   *)
(* told sent was on the bus, and one told failed never will be, unless     *)
(* bus-off came in the middle of SendData.  The assertions of SendData and *)
(* QueueSendCompletion hold: nothing is under way when the application     *)
(* sends, and the two places for completions are enough.                   *)
OutcomeIsOwn ==
    /\ ~adding /\ ~Unanswered => ~sending
    /\ Len(sendCompletions) <= 2
    /\ ~raced => \A frame \in Frames :
            /\ outcome[frame] = "sent" => frame \in transmitted
            /\ outcome[frame] = "failed" => frame \notin transmitted /\ \A i \in DOMAIN txFifo : txFifo[i] # frame

(* A frame told sent was on the bus, also after bus-off amid SendData.     *)
SentIsTransmitted == \A frame \in Frames : outcome[frame] = "sent" => frame \in transmitted

Received == delivered \o rxQueue \o rxFifo

(* Frames reach the application once and in order, but for those that were *)
(* lost, and none is left behind: an interrupt or the dispatcher is on its *)
(* way to it.                                                              *)
FramesUnderway ==
    /\ \A i, j \in DOMAIN Received : i < j => Received[i] < Received[j]
    /\ {Received[i] : i \in DOMAIN Received} = (1 .. arrived) \ lost
    /\ rxFifo # <<>> => "rx" \in flags
    /\ rxQueue # <<>> => running = "rx" \/ \E i \in DOMAIN queue : queue[i] = "rx"

(* A lost frame and a bus-off are always on their way to a call of onError *)
(* that is still to begin, also when errors that wait are taken together   *)
(* and when one of the same kind is being reported.                        *)
ErrorsUnderway ==
    \A error \in owed :
        \/ \E i \in DOMAIN queue : queue[i] = error
        \/ error = "messageLost" /\ "lost" \in flags
        \/ error = "busOff" /\ "status" \in flags /\ level = "off" /\ ~busOff

(* Nothing that came in or went wrong is forgotten on its way.             *)
NothingForgotten == FramesUnderway /\ ErrorsUnderway

(* With automatic recovery the application is told of every frame it       *)
(* sends, also when the peripheral cannot be started again.                *)
SendsEnd ==
    autoBusOffRecovery /\ Unanswered ~> ~Unanswered
=============================================================================
