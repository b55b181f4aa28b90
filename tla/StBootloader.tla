---------------------------- MODULE StBootloader ----------------------------
(***************************************************************************)
(* services::StBootloaderCommunicatorUart: the host side of the bootloader *)
(* in the system memory of an STM32, over a UART.  A command is a list of  *)
(* actions that transmit a frame or receive a part of the answer.          *)
(*                                                                         *)
(* Received bytes come from an interrupt, which puts them in a queue and   *)
(* has the dispatcher call TryHandleDataReceived.  That takes one step     *)
(* here for each action it executes, so that bytes may come in between.    *)
(***************************************************************************)
EXTENDS Integers, Sequences

CONSTANTS
    Commands,      \* the commands the application gives
    MaxData,       \* largest ReadMemory; 256 in the code
    PayloadBytes,  \* bytes the target has in its memory
    MaxFaults      \* bound of the model: refusals, lost bytes, late and lost answers

(* A byte counts up to 256 bytes of data. *)
ASSUME MaxDataAssumption == MaxData \in 1 .. 256
ASSUME CommandsAssumption ==
    Commands \subseteq {"GetCommand", "GetVersion", "GetId", "ReadMemory", "Go", "WriteMemory", "Erase",
                        "ExtendedErase", "MassErase", "ExtendedMassErase", "Special", "ExtendedSpecial"}
ASSUME PayloadBytesAssumption == PayloadBytes \subseteq 0 .. 255
ASSUME MaxFaultsAssumption == MaxFaults \in Nat

ack == 121
nack == 31
(* Mutant: the queue holds the largest block of memory. *)
QueueSizeOfBlock == MaxData

QueueSize == MaxData + 1
InternalBufferSize == 3
Byte == 0 .. 255

-----------------------------------------------------------------------------
(* Actions.  A frame is given to the UART in `parts` calls of SendData; a  *)
(* buffer receives `size` bytes into a range of the caller or into         *)
(* internalRange.                                                          *)

Transmit(parts) == [kind |-> "transmit", parts |-> parts, size |-> 0, range |-> "none"]
Receive(kind, size, range) == [kind |-> kind, parts |-> 0, size |-> size, range |-> range]

TransmitRaw == Transmit(1)
TransmitWithTwosComplementChecksum == Transmit(2)
TransmitChecksummedBuffer == Transmit(2)
TransmitSmallBuffer == Transmit(3)
TransmitBigBuffer(empty) == Transmit(IF empty THEN 2 ELSE 3)
ReceiveAck == Receive("ack", 0, "none")
ReceivePredefinedBuffer(size, range) == Receive("predefined", size, range)
ReceiveSmallBuffer(size, range) == Receive("small", size, range)
ReceiveBigBuffer(size) == Receive("big", size, "caller")

Action ==
    [kind : {"transmit", "ack", "predefined", "small", "big"}, parts : 0 .. 3,
     size : Nat, range : {"none", "caller", "internal"}]

InitializeUartBootloader == <<TransmitRaw, ReceiveAck>>
CommandFrame == <<TransmitWithTwosComplementChecksum, ReceiveAck>>

(* The ways a command can go, one list of actions for each size of data it *)
(* can transmit or be answered with.                                       *)
Actions(command) ==
    CASE command = "GetCommand" ->
           {CommandFrame \o <<ReceiveSmallBuffer(size, "caller"), ReceiveAck>> : size \in 1 .. MaxData}
      [] command = "GetVersion" ->
           {CommandFrame \o <<ReceivePredefinedBuffer(3, "internal"), ReceiveAck>>}
      [] command = "GetId" ->
           {CommandFrame \o <<ReceiveSmallBuffer(2, "internal"), ReceiveAck>>}
      [] command = "ReadMemory" ->
           {CommandFrame \o <<TransmitChecksummedBuffer, ReceiveAck,
                              TransmitWithTwosComplementChecksum, ReceiveAck,
                              ReceivePredefinedBuffer(size, "caller")>> : size \in 1 .. MaxData}
      [] command \in {"Go", "ExtendedMassErase"} ->
           {CommandFrame \o <<TransmitChecksummedBuffer, ReceiveAck>>}
      [] command = "WriteMemory" ->
           {CommandFrame \o <<TransmitChecksummedBuffer, ReceiveAck,
                              TransmitSmallBuffer, ReceiveAck>>}
      [] command = "MassErase" ->
           {CommandFrame \o <<TransmitWithTwosComplementChecksum, ReceiveAck>>}
      [] command = "Erase" ->
           {CommandFrame \o <<TransmitSmallBuffer, ReceiveAck>>}
      [] command = "ExtendedErase" ->
           {CommandFrame \o <<TransmitBigBuffer(FALSE), ReceiveAck>>}
      [] command = "Special" ->
           {CommandFrame \o <<TransmitChecksummedBuffer, ReceiveAck,
                              TransmitBigBuffer(empty), ReceiveAck,
                              ReceiveBigBuffer(size), ReceiveBigBuffer(status), ReceiveAck>> :
               empty \in BOOLEAN, size \in 0 .. 1, status \in 0 .. 1}
      [] command = "ExtendedSpecial" ->
           {CommandFrame \o <<TransmitChecksummedBuffer, ReceiveAck,
                              TransmitBigBuffer(empty), ReceiveAck,
                              TransmitBigBuffer(empty), ReceiveAck,
                              ReceiveBigBuffer(size), ReceiveAck>> :
               empty \in BOOLEAN, size \in 0 .. 1}

-----------------------------------------------------------------------------
VARIABLES
    commandActions,
    parts,           \* calls of SendData of the first action not completed
    nBytesTotal,     \* of the first action; Unknown until it is received
    nBytesReceived,
    internalRange,   \* its size
    queue,
    notified,        \* TryHandleDataReceived is scheduled
    handling,        \* and is being executed
    timeoutTimer,
    listening,       \* the serial's receive callback fills `queue`
    onError,         \* not called yet
    (* The target. *)
    answer,          \* what it still has to send, as the host's actions
    line,            \* bytes on their way
    faults,
    (* What the callers saw, kept by the model. *)
    outcomes,        \* "done" and "error", for the last command
    sent, got        \* the payload of the last command, at either end

Unknown == -1
actions == <<commandActions, parts, nBytesTotal, nBytesReceived>>
target == <<answer, line, faults>>
vars == <<actions, internalRange, queue, notified, handling, timeoutTimer,
          listening, onError, target, outcomes, sent, got>>

TypeOK ==
    /\ commandActions \in Seq(Action) /\ Len(commandActions) <= 12
    /\ parts \in 0 .. 3
    /\ nBytesTotal \in Nat \cup {Unknown}
    /\ nBytesReceived \in 0 .. (IF nBytesTotal = Unknown THEN 0 ELSE nBytesTotal)
    /\ internalRange \in 0 .. InternalBufferSize
    /\ {notified, handling, timeoutTimer, listening, onError} \subseteq BOOLEAN
    /\ answer \in Seq(Action) /\ faults \in Nat
    /\ {queue, line, sent, got} \subseteq Seq(Byte)
    /\ outcomes \in Seq({"done", "error"})

(* The part of the answer the target gives to the frame just sent. *)
Awaited(rest) ==
    LET stops == {i \in 1 .. Len(rest) : rest[i].kind = "transmit"}
        next == CHOOSE i \in stops : \A j \in stops : i <= j
    IN  IF stops = {} THEN rest ELSE SubSeq(rest, 1, next - 1)

(* TryHandleDataReceived is called.  Mutant: only by the next interrupt.   *)
Untried == FALSE
TriesData == TRUE

(* StartCurrentAction, up to TryHandleDataReceived. *)
StartCurrentAction(list) ==
    /\ commandActions' = list
    /\ parts' = Head(list).parts
    /\ nBytesTotal' = Unknown
    /\ nBytesReceived' = 0
    /\ answer' = IF Head(list).parts = 1 THEN Awaited(Tail(list)) ELSE answer
    /\ handling' = TriesData

OnError ==
    /\ timeoutTimer' = FALSE
    /\ listening' = FALSE
    /\ onError' = FALSE
    /\ outcomes' = IF onError THEN Append(outcomes, "error") ELSE outcomes

OnActionExecuted ==
    IF Len(commandActions) = 1
    THEN /\ commandActions' = <<>>
         /\ timeoutTimer' = FALSE
         /\ outcomes' = Append(outcomes, "done")
         /\ parts' = 0
         /\ nBytesTotal' = Unknown
         /\ nBytesReceived' = 0
         /\ handling' = FALSE
         /\ UNCHANGED answer
    ELSE /\ StartCurrentAction(Tail(commandActions))
         /\ UNCHANGED <<timeoutTimer, outcomes>>

Init ==
    /\ commandActions = InitializeUartBootloader
    /\ parts = 1 /\ nBytesTotal = Unknown /\ nBytesReceived = 0
    /\ internalRange = InternalBufferSize
    /\ queue = <<>> /\ notified = FALSE /\ handling = FALSE
    /\ timeoutTimer = TRUE /\ listening = TRUE /\ onError = TRUE
    /\ answer = <<ReceiveAck>> /\ line = <<>> /\ faults = 0
    /\ outcomes = <<>> /\ sent = <<>> /\ got = <<>>

-----------------------------------------------------------------------------
(* The application.  After an error it gives no more commands: the list of *)
(* the failed one is still there, and every command asserts it is not.     *)

(* SetCommandTimeout.  Mutant: it is left out. *)
NoCommandTimeout == timeoutTimer
CommandTimeout == TRUE

Execute(command) ==
    /\ ~handling
    /\ commandActions = <<>>
    /\ onError
    /\ \E list \in Actions(command) : StartCurrentAction(list)
    /\ timeoutTimer' = CommandTimeout
    /\ outcomes' = <<>>
    /\ sent' = <<>>
    /\ got' = <<>>
    /\ UNCHANGED <<internalRange, queue, notified, listening, onError, line, faults>>

Stop ==
    /\ ~handling
    /\ listening
    /\ faults < MaxFaults
    /\ faults' = faults + 1
    /\ listening' = FALSE
    /\ UNCHANGED <<actions, internalRange, queue, notified, handling, timeoutTimer,
                   onError, answer, line, outcomes, sent, got>>

-----------------------------------------------------------------------------
(* The dispatcher. *)

SendCompleted ==
    /\ ~handling
    /\ parts > 0
    /\ IF parts = 1
       THEN OnActionExecuted
       ELSE /\ parts' = parts - 1
            /\ answer' = IF parts = 2 THEN Awaited(Tail(commandActions)) ELSE answer
            /\ UNCHANGED <<commandActions, nBytesTotal, nBytesReceived, handling,
                           timeoutTimer, outcomes>>
    /\ UNCHANGED <<internalRange, queue, notified, listening, onError, line, faults, sent, got>>

DataReceived ==
    /\ ~handling
    /\ notified
    /\ notified' = FALSE
    /\ handling' = TRUE
    /\ UNCHANGED <<actions, internalRange, queue, timeoutTimer, listening, onError,
                   target, outcomes, sent, got>>

(* Nothing is on its way in either direction.  A target that answers does  *)
(* so before the timeout: one that is slower counts as a fault.            *)
Quiet == parts = 0 /\ ~notified /\ answer = <<>> /\ (line = <<>> \/ ~listening)

Timeout ==
    /\ ~handling
    /\ timeoutTimer
    /\ \/ Quiet /\ UNCHANGED faults
       \/ ~Quiet /\ faults < MaxFaults /\ faults' = faults + 1
    /\ OnError
    /\ UNCHANGED <<actions, internalRange, queue, notified, handling, answer, line, sent, got>>

-----------------------------------------------------------------------------
(* TryHandleDataReceived, one action at a time. *)

Front == commandActions[1]
FrontKind == IF commandActions = <<>> THEN "none" ELSE Front.kind

NothingToHandle ==
    /\ handling
    /\ queue = <<>> \/ FrontKind \in {"none", "transmit"}
    /\ handling' = FALSE
    /\ UNCHANGED <<actions, internalRange, queue, notified, timeoutTimer, listening,
                   onError, target, outcomes, sent, got>>

HandleAck ==
    /\ handling
    /\ queue # <<>>
    /\ FrontKind = "ack"
    /\ queue' = Tail(queue)
    /\ CASE Head(queue) = ack -> OnActionExecuted /\ UNCHANGED <<listening, onError>>
         [] Head(queue) = nack -> OnError /\ handling' = FALSE /\ UNCHANGED <<actions, answer>>
         [] OTHER -> UNCHANGED <<actions, handling, timeoutTimer, listening, onError, answer, outcomes>>
    /\ UNCHANGED <<internalRange, notified, line, faults, sent, got>>

(* Bytes that give the size, and the size they give. *)
SizeBytes == IF nBytesTotal # Unknown THEN 0
             ELSE CASE Front.kind = "small" -> 1
                    [] Front.kind = "big" -> 2
                    [] OTHER -> 0

(* Mutant: the size as it is transmitted, less one. *)
OneLess == Front.size - 1
PredefinedSize == Front.size

Total == IF nBytesTotal # Unknown THEN nBytesTotal
         ELSE CASE Front.kind = "small" -> queue[1] + 1
                [] Front.kind = "big" -> queue[1] * 256 + queue[2]
                [] OTHER -> PredefinedSize

RangeSize == IF Front.range = "internal" THEN internalRange ELSE Front.size

Least(S) == CHOOSE i \in S : \A j \in S : i <= j

(* Mutant: what was received before is not subtracted. *)
RetrievableFromStart(available) == Least({available, Total, RangeSize})

Retrievable(available) ==
    Least({available, Total - nBytesReceived, RangeSize - nBytesReceived})

HandleBuffer ==
    /\ handling
    /\ queue # <<>>
    /\ FrontKind \in {"predefined", "small", "big"}
    /\ IF Len(queue) < SizeBytes
       THEN /\ handling' = FALSE
            /\ UNCHANGED <<actions, internalRange, queue, timeoutTimer, answer, outcomes, got>>
       ELSE LET size == Retrievable(Len(queue) - SizeBytes)
                received == nBytesReceived + size
            IN  /\ queue' = SubSeq(queue, SizeBytes + size + 1, Len(queue))
                /\ got' = got \o SubSeq(queue, SizeBytes + 1, SizeBytes + size)
                /\ IF received = Total
                   THEN /\ internalRange' = IF Front.range = "internal" THEN received ELSE internalRange
                        /\ OnActionExecuted
                   ELSE /\ nBytesTotal' = Total
                        /\ nBytesReceived' = received
                        /\ handling' = FALSE
                        /\ UNCHANGED <<commandActions, parts, internalRange, timeoutTimer, answer, outcomes>>
    /\ UNCHANGED <<notified, listening, onError, line, faults, sent>>

-----------------------------------------------------------------------------
(* The UART's interrupt and the target.                                    *)

BytesReceived ==
    /\ line # <<>>
    /\ \E n \in 1 .. Len(line) :
         /\ line' = SubSeq(line, n + 1, Len(line))
         /\ queue' = IF listening THEN queue \o SubSeq(line, 1, n) ELSE queue
    /\ notified' = (notified \/ listening)
    /\ UNCHANGED <<actions, internalRange, handling, timeoutTimer, listening,
                   onError, answer, faults, outcomes, sent, got>>

Framed(kind, payload) ==
    CASE kind = "small" -> <<Len(payload) - 1>> \o payload
      [] kind = "big" -> <<0, Len(payload)>> \o payload
      [] OTHER -> payload

Answers ==
    /\ answer # <<>>
    /\ answer' = Tail(answer)
    /\ IF Head(answer).kind = "ack"
       THEN line' = Append(line, ack) /\ UNCHANGED sent
       ELSE \E payload \in [1 .. Head(answer).size -> PayloadBytes] :
              /\ line' = line \o Framed(Head(answer).kind, payload)
              /\ sent' = sent \o payload
    /\ UNCHANGED <<actions, internalRange, queue, notified, handling, timeoutTimer,
                   listening, onError, faults, outcomes, got>>

(* The target refuses the frame, sends a byte too many first, or stops. *)
Fault ==
    /\ faults < MaxFaults
    /\ faults' = faults + 1
    /\ answer # <<>>
    /\ \/ Head(answer).kind = "ack" /\ answer' = <<>> /\ line' = Append(line, nack)
       \/ Head(answer).kind = "ack" /\ answer' = answer /\ line' = Append(line, 0)
       \/ answer' = <<>> /\ line' = line
    /\ UNCHANGED <<actions, internalRange, queue, notified, handling, timeoutTimer,
                   listening, onError, outcomes, sent, got>>

-----------------------------------------------------------------------------
Handle == NothingToHandle \/ HandleAck \/ HandleBuffer
Dispatch == SendCompleted \/ DataReceived \/ Timeout \/ Handle

Next ==
    \/ \E command \in Commands : Execute(command)
    \/ Stop
    \/ Dispatch
    \/ BytesReceived
    \/ Answers
    \/ Fault

Fairness ==
    /\ WF_vars(SendCompleted)
    /\ WF_vars(DataReceived)
    /\ WF_vars(Timeout)
    /\ WF_vars(Handle)
    /\ WF_vars(BytesReceived)
    /\ WF_vars(Answers)

Spec == Init /\ [][Next]_vars
FairSpec == Spec /\ Fairness

-----------------------------------------------------------------------------
(* Properties. *)

(* A command is done with all of its answer and nothing but its answer:    *)
(* whatever the pieces the bytes come in, whether before or after the UART *)
(* reports the frame sent, and whatever values they have.  No error is     *)
(* reported of it any more.                                                *)
DoneInStep ==
    /\ outcomes = <<"done">> /\ commandActions = <<>> =>
           got = sent /\ queue = <<>> /\ line = <<>> /\ answer = <<>>
    /\ \A i \in 2 .. Len(outcomes) : outcomes[i - 1] # "done"

(* A target that answers is never given up. *)
AnsweredIsDone == faults = 0 => onError

(* The memory that ReadMemory (the only command to end in its data) reads  *)
(* fits in the queue with the acknowledgement before it, also when the     *)
(* dispatcher is busy until all of it came.                                *)
QueueHasRoom ==
    faults = 0 /\ commandActions # <<>> /\ commandActions[Len(commandActions)].kind = "predefined" =>
        Len(queue) <= QueueSize

(* A command that failed is not reported done any more. *)
NoDoneAfterError == \A i \in 2 .. Len(outcomes) : outcomes[i - 1] # "error"

(* Every command is done or fails. *)
CommandsEnd == commandActions # <<>> /\ onError ~> outcomes # <<>>
=============================================================================
