--------------------------- MODULE UartStmDuplexDma ---------------------------
(***************************************************************************)
(* The receiving half of hal::UartStmDuplexDma: the DMA goes round and     *)
(* round in a buffer, and what it put there is handed to the application   *)
(* by the DMA's interrupt at the half and at the end, and by the UART's    *)
(* when the line falls silent.  Each of them takes the bytes from where    *)
(* the last one stopped, while the DMA goes on.                            *)
(***************************************************************************)
EXTENDS Integers, Sequences

CONSTANTS
    RxBufferSize,
    Priorities,             \* whose interrupt may preempt the other's: "dma", "uart" or "none"
    MaxBytes, MaxStarts     \* bounds of the model

ASSUME SizeAssumption == RxBufferSize \in Nat \ {0} /\ RxBufferSize % 2 = 0
ASSUME PrioritiesAssumption == Priorities \subseteq {"dma", "uart", "none"}
ASSUME BoundsAssumption == {MaxBytes, MaxStarts} \subseteq Nat

VARIABLES
    dataReceived,           \* it is set
    lastReceivedPosition,
    (* The hardware: bytes of this round, flags, and whether the silence    *)
    (* after the last byte was noticed.                                     *)
    receiving, position, half, full, rtof, quiet,
    priority,               \* an element of Priorities
    dma, uart,              \* what their interrupts are in the middle of
    stopping,               \* ReceiveData(nullptr) is past Clear
    (* Kept by the model: bytes by their number, and a failed assertion.    *)
    rxBuffer, arrived, delivered, starts, failed

hardware == <<receiving, position, half, full, rtof, quiet>>
line == <<rxBuffer, arrived>>
application == <<stopping, starts, priority>>
handling == <<lastReceivedPosition, delivered, failed, dma, uart>>
vars == <<dataReceived, hardware, line, application, handling>>

Idle == [step |-> "idle", from |-> 0, to |-> 0]
At(step, to) == [step |-> step, from |-> 0, to |-> to]

Init ==
    /\ dataReceived = FALSE /\ lastReceivedPosition = 0
    /\ receiving = FALSE /\ position = 0 /\ half = FALSE /\ full = FALSE /\ rtof = FALSE /\ quiet = TRUE
    /\ priority \in Priorities
    /\ dma = Idle /\ uart = Idle /\ stopping = FALSE
    /\ rxBuffer = [cell \in 0 .. RxBufferSize - 1 |-> 0]
    /\ arrived = 0 /\ delivered = <<>> /\ starts = 0 /\ failed = FALSE

-----------------------------------------------------------------------------
(* The application, which any interrupt preempts.                          *)

NoInterrupt == ~failed /\ dma = Idle /\ uart = Idle /\ ~half /\ ~full /\ ~rtof

(* ReceiveData(dataReceived).  The position is that of the last time.      *)
Receive ==
    /\ NoInterrupt
    /\ ~dataReceived /\ ~stopping
    /\ starts < MaxStarts
    /\ starts' = starts + 1
    /\ dataReceived' = TRUE
    /\ receiving' = TRUE
    /\ position' = 0
    /\ UNCHANGED <<half, full, rtof, quiet, stopping, priority, line, handling>>

(* ReceiveData(nullptr), up to and after Clear. *)
Clear ==
    /\ NoInterrupt
    /\ dataReceived
    /\ dataReceived' = FALSE
    /\ stopping' = TRUE
    /\ UNCHANGED <<hardware, line, starts, priority, handling>>

StopTransfer ==
    /\ NoInterrupt
    /\ stopping
    /\ stopping' = FALSE
    /\ receiving' = FALSE
    /\ quiet' = TRUE
    /\ UNCHANGED <<dataReceived, position, half, full, rtof, line, starts, priority, handling>>

-----------------------------------------------------------------------------
(* The line and the DMA, at any time.  The DMA's interrupt is over before  *)
(* the DMA ends the next half, and before the line was silent for the      *)
(* receive timeout.                                                        *)

Boundary(count) == count \in {RxBufferSize \div 2, RxBufferSize}
DmaAnswered == ~half /\ ~full /\ dma = Idle

ReceiveByte ==
    /\ receiving
    /\ arrived < MaxBytes
    /\ Boundary(position + 1) => DmaAnswered
    /\ arrived' = arrived + 1
    /\ rxBuffer' = [rxBuffer EXCEPT ![position] = arrived + 1]
    /\ position' = (position + 1) % RxBufferSize
    /\ half' = (half \/ position + 1 = RxBufferSize \div 2)
    /\ full' = (full \/ position + 1 = RxBufferSize)
    /\ quiet' = FALSE
    /\ UNCHANGED <<dataReceived, receiving, rtof, application, handling>>

(* Mutant: the timeout's interrupt is not enabled. *)
TimeoutNotEnabled == FALSE

(* RTOEN, RTOIE *)
TimeoutEnabled == TRUE

ReceiveTimeout ==
    /\ receiving /\ TimeoutEnabled
    /\ ~quiet /\ DmaAnswered
    /\ quiet' = TRUE
    /\ rtof' = TRUE
    /\ UNCHANGED <<dataReceived, receiving, position, half, full, line, application, handling>>

-----------------------------------------------------------------------------
(* ReceiveComplete, by one of the two interrupts, then dataReceived.       *)

(* Mutant: no round after the first. *)
NotWrapped(current) == current

Wrapped(current) == IF current = RxBufferSize THEN 0 ELSE current

ReceiveComplete(handler, next) ==
    LET current == handler.to IN
    IF current = lastReceivedPosition \/ ~dataReceived
    THEN next = Idle /\ UNCHANGED <<lastReceivedPosition, failed>>
    ELSE IF lastReceivedPosition > current
    THEN next = Idle /\ failed' = TRUE /\ UNCHANGED lastReceivedPosition
    ELSE /\ next = [step |-> "deliver", from |-> lastReceivedPosition, to |-> current]
         /\ lastReceivedPosition' = Wrapped(current)
         /\ UNCHANGED failed

Deliver(handler) ==
    delivered' = delivered \o [i \in 1 .. handler.to - handler.from |-> rxBuffer[handler.from + i - 1]]

(* A failed assertion stops the program. *)
DmaRuns == ~failed /\ (uart = Idle \/ (priority = "dma" /\ uart.step = "timeout"))
UartRuns == ~failed /\ (dma = Idle \/ priority = "uart")

(* CircularStreamInterruptHandler::OnInterrupt *)
HalfComplete ==
    /\ DmaRuns /\ dma = Idle /\ half
    /\ half' = FALSE
    /\ dma' = At("complete", RxBufferSize \div 2)
    /\ UNCHANGED <<dataReceived, receiving, position, full, rtof, quiet, line, application,
                   lastReceivedPosition, delivered, failed, uart>>

FullComplete ==
    /\ DmaRuns /\ dma = Idle /\ full /\ ~half
    /\ full' = FALSE
    /\ dma' = At("complete", RxBufferSize)
    /\ UNCHANGED <<dataReceived, receiving, position, half, rtof, quiet, line, application,
                   lastReceivedPosition, delivered, failed, uart>>

DmaReceiveComplete ==
    /\ DmaRuns /\ dma.step = "complete"
    /\ ReceiveComplete(dma, dma')
    /\ UNCHANGED <<dataReceived, hardware, line, application, delivered, uart>>

DmaDelivers ==
    /\ DmaRuns /\ dma.step = "deliver"
    /\ Deliver(dma)
    /\ dma' = Idle
    /\ UNCHANGED <<dataReceived, hardware, line, application, lastReceivedPosition, failed, uart>>

(* Invoke: the flag; then, with interrupts masked, the size received, the  *)
(* DMA's flags, and the bytes.                                             *)
Invoke ==
    /\ UartRuns /\ uart = Idle /\ rtof
    /\ rtof' = FALSE
    /\ uart' = At("timeout", 0)
    /\ UNCHANGED <<dataReceived, receiving, position, half, full, quiet, line, application,
                   lastReceivedPosition, delivered, failed, dma>>

ReceivedSize ==
    /\ UartRuns /\ uart.step = "timeout"
    /\ uart' = At("complete", position)
    /\ UNCHANGED <<dataReceived, hardware, line, application, lastReceivedPosition, delivered, failed, dma>>

(* Mutant: the DMA's interrupt is left out of account. *)
NeverPending == FALSE

IsInterruptPending == half \/ full

UartReceiveComplete ==
    /\ UartRuns /\ uart.step = "complete"
    /\ IF IsInterruptPending
       THEN uart' = Idle /\ UNCHANGED <<lastReceivedPosition, failed>>
       ELSE ReceiveComplete(uart, uart')
    /\ UNCHANGED <<dataReceived, hardware, line, application, delivered, dma>>

UartDelivers ==
    /\ UartRuns /\ uart.step = "deliver"
    /\ Deliver(uart)
    /\ uart' = Idle
    /\ UNCHANGED <<dataReceived, hardware, line, application, lastReceivedPosition, failed, dma>>

-----------------------------------------------------------------------------
DmaInterrupt == HalfComplete \/ FullComplete \/ DmaReceiveComplete \/ DmaDelivers
UartInterrupt == Invoke \/ ReceivedSize \/ UartReceiveComplete \/ UartDelivers

Next ==
    \/ Receive
    \/ Clear
    \/ StopTransfer
    \/ ReceiveByte
    \/ ReceiveTimeout
    \/ DmaInterrupt
    \/ UartInterrupt

(* Interrupts are served, and a line without bytes is silent at last.      *)
Fairness == WF_vars(DmaInterrupt) /\ WF_vars(UartInterrupt) /\ WF_vars(ReceiveTimeout)

Spec == Init /\ [][Next]_vars
FairSpec == Spec /\ Fairness

-----------------------------------------------------------------------------
TypeOK ==
    /\ {dataReceived, receiving, half, full, rtof, quiet, stopping, failed} \subseteq BOOLEAN
    /\ {lastReceivedPosition, position} \subseteq 0 .. RxBufferSize - 1
    /\ priority \in Priorities
    /\ dma \in [step : {"idle", "complete", "deliver"}, from : 0 .. RxBufferSize, to : 0 .. RxBufferSize]
    /\ uart \in [step : {"idle", "timeout", "complete", "deliver"}, from : 0 .. RxBufferSize, to : 0 .. RxBufferSize]
    /\ rxBuffer \in [0 .. RxBufferSize - 1 -> 0 .. MaxBytes]
    /\ arrived \in 0 .. MaxBytes
    /\ delivered \in Seq(0 .. MaxBytes)
    /\ starts \in 0 .. MaxStarts

(* ReceiveComplete's assertion: whichever interrupts come together, no     *)
(* position lies before the one reached already.                           *)
PositionsAscend == ~failed

(* The application gets the bytes of the line once, in their order, and    *)
(* never what lies in the buffer from an earlier round; the positions the  *)
(* interrupts deliver up to ascend.                                        *)
BytesInOrder == PositionsAscend /\ \A i \in DOMAIN delivered : delivered[i] = i

(* The bytes before a silence reach the application without waiting for    *)
(* another byte, unless it stops listening first.                          *)
SilenceDelivers ==
    \A n \in 1 .. MaxBytes :
        arrived = n /\ dataReceived ~> Len(delivered) >= n \/ ~dataReceived
=============================================================================
