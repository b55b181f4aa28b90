------------------------ MODULE UartStmDuplexDmaProofs ------------------------
(***************************************************************************)
(* The bytes of a reception are delivered once and in order, for every     *)
(* size of the buffer.                                                     *)
(***************************************************************************)
EXTENDS UartStmDuplexDma, SequenceTheorems, TLAPS

Half == RxBufferSize \div 2

(* The bytes of the rounds before this one. *)
Round == arrived - position

(* The bytes delivered, or about to be by an interrupt that has moved      *)
(* lastReceivedPosition past them.                                         *)
Taken ==
    Len(delivered) + (IF dma.step = "deliver" THEN dma.to - dma.from ELSE 0)
                   + (IF uart.step = "deliver" THEN uart.to - uart.from ELSE 0)

(* The DMA reached a boundary that its interrupt has not handled. *)
Due == half \/ full \/ dma.step = "complete"

HandlersInv ==
    /\ dma.from <= dma.to /\ uart.from <= uart.to
    /\ dma.step # "idle" => dma.to > 0
    /\ ~(half /\ full)
    /\ dma.step # "idle" => ~half /\ ~full

(* Which boundary is due follows from where the DMA is: it does not reach  *)
(* the next one before.                                                    *)
BoundaryInv ==
    /\ half => position >= Half
    /\ full => position < Half
    /\ dma.step = "complete" => dma.to = IF position < Half THEN RxBufferSize ELSE Half

(* Nobody preempts the UART's interrupt while it handles the bytes. *)
ExclusionInv == dma.step # "idle" => uart.step \in {"idle", "timeout"}

(* The buffer holds the last RxBufferSize bytes. *)
BufferInv ==
    /\ Round >= 0
    /\ \A cell \in 0 .. RxBufferSize - 1 :
         /\ cell < position => rxBuffer[cell] = Round + cell + 1
         /\ cell >= position /\ Round > 0 => rxBuffer[cell] = Round + cell + 1 - RxBufferSize

(* Where lastReceivedPosition is: behind the boundary that is due, and at  *)
(* or past the last one that is not.                                       *)
TakenInv ==
    dataReceived =>
        /\ ~Due => /\ Taken = Round + lastReceivedPosition
                   /\ lastReceivedPosition <= position
                   /\ position >= Half => lastReceivedPosition >= Half
        /\ Due /\ position >= Half => /\ Taken = Round + lastReceivedPosition
                                      /\ lastReceivedPosition < Half
        /\ Due /\ position < Half => /\ Taken = Round + lastReceivedPosition - RxBufferSize
                                     /\ lastReceivedPosition >= Half

(* The position the UART's interrupt has read is ahead of the last one,    *)
(* unless a boundary came since.                                           *)
ReadInv ==
    uart.step = "complete" /\ dataReceived =>
        half \/ full \/ (lastReceivedPosition <= uart.to /\ uart.to <= position)

(* What is being delivered is still in the buffer. *)
DeliverInv ==
    /\ dma.step = "deliver" =>
        /\ dataReceived
        /\ IF position >= Half
           THEN Len(delivered) = Round + dma.from /\ dma.to <= position
           ELSE Len(delivered) = Round + dma.from - RxBufferSize /\ dma.from >= Half
    /\ uart.step = "deliver" =>
        /\ dataReceived
        /\ \/ /\ Len(delivered) = Round + uart.from
              /\ uart.to <= position
              /\ position >= Half /\ ~half => uart.from >= Half
           \/ /\ full
              /\ Len(delivered) = Round + uart.from - RxBufferSize
              /\ uart.from >= Half

(* Before the first reception nothing happens. *)
StartInv ==
    starts = 0 =>
        /\ ~dataReceived /\ ~stopping /\ ~receiving /\ ~half /\ ~full /\ ~rtof
        /\ position = 0 /\ arrived = 0 /\ lastReceivedPosition = 0
        /\ dma = Idle /\ uart = Idle /\ delivered = <<>>

ReceptionInv ==
    /\ HandlersInv /\ BoundaryInv /\ ExclusionInv /\ BufferInv /\ TakenInv
    /\ ReadInv /\ DeliverInv /\ StartInv
    /\ BytesInOrder

(* The conditions BytesInOrder holds under: the reception is started once, *)
(* and the UART's interrupt does not preempt the DMA's.                    *)
OneReception == starts <= 1 /\ priority # "uart"

-----------------------------------------------------------------------------
(* The buffer is two halves that are not empty. *)
LEMMA Sizes == Half \in Nat \ {0} /\ RxBufferSize = 2 * Half /\ RxBufferSize \in Nat
BY SizeAssumption, Z3T(30) DEF Half

(* What is delivered follows what was delivered before. *)
LEMMA Delivery ==
    ASSUME NEW S, NEW s \in Seq(S), NEW n \in Nat, NEW f \in [1 .. n -> S]
    PROVE  /\ s \o f \in Seq(S)
           /\ Len(s \o f) = Len(s) + n
           /\ \A i \in 1 .. Len(s) + n : (s \o f)[i] = IF i <= Len(s) THEN s[i] ELSE f[i - Len(s)]
<1>1. f \in Seq(S) /\ Len(f) = n
    BY SeqDef, LenProperties
<1> QED BY <1>1, ConcatProperties

(* Where the DMA goes on after a byte. *)
LEMMA WrapIs ==
    ASSUME NEW count \in 0 .. RxBufferSize - 1
    PROVE  (count + 1) % RxBufferSize = IF count + 1 = RxBufferSize THEN 0 ELSE count + 1
BY Sizes, SMTT(30)

-----------------------------------------------------------------------------
(* TypeOK, and a handler's bytes are never fewer than none. *)
PlainTypes ==
    /\ dataReceived \in BOOLEAN /\ receiving \in BOOLEAN /\ half \in BOOLEAN /\ full \in BOOLEAN
    /\ rtof \in BOOLEAN /\ quiet \in BOOLEAN /\ stopping \in BOOLEAN /\ failed \in BOOLEAN
    /\ priority \in Priorities

CountTypes ==
    /\ lastReceivedPosition \in 0 .. RxBufferSize - 1 /\ position \in 0 .. RxBufferSize - 1
    /\ rxBuffer \in [0 .. RxBufferSize - 1 -> 0 .. MaxBytes]
    /\ arrived \in 0 .. MaxBytes
    /\ delivered \in Seq(0 .. MaxBytes)
    /\ starts \in 0 .. MaxStarts

HandlerTypes ==
    /\ dma \in [step : {"idle", "complete", "deliver"}, from : 0 .. RxBufferSize,
       to : 0 .. RxBufferSize]
    /\ uart \in [step : {"idle", "timeout", "complete", "deliver"}, from : 0 .. RxBufferSize,
       to : 0 .. RxBufferSize]
    /\ dma.from <= dma.to /\ uart.from <= uart.to

Types == PlainTypes /\ CountTypes /\ HandlerTypes

(* What ReceiveComplete leaves a handler with. *)
LEMMA ReceiveCompleteIs ==
    ASSUME NEW handler, NEW next,
           handler.to \in 0 .. RxBufferSize, lastReceivedPosition \in 0 .. RxBufferSize - 1,
           ReceiveComplete(handler, next)
    PROVE  \/ /\ handler.to = lastReceivedPosition \/ ~dataReceived
              /\ next = Idle
              /\ UNCHANGED <<lastReceivedPosition, failed>>
           \/ /\ dataReceived /\ lastReceivedPosition > handler.to
              /\ next = Idle
              /\ failed' = TRUE
              /\ UNCHANGED lastReceivedPosition
           \/ /\ dataReceived /\ lastReceivedPosition < handler.to
              /\ next = [step |-> "deliver", from |-> lastReceivedPosition, to |-> handler.to]
              /\ lastReceivedPosition' = IF handler.to = RxBufferSize THEN 0 ELSE handler.to
              /\ UNCHANGED failed
BY Sizes DEF ReceiveComplete, Wrapped

(* dataReceived appends the cells from one position to the other. *)
LEMMA DeliverTypes ==
    ASSUME Types, NEW handler, Deliver(handler),
           handler.from \in 0 .. RxBufferSize, handler.to \in 0 .. RxBufferSize,
           handler.from <= handler.to
    PROVE  /\ delivered' \in Seq(0 .. MaxBytes)
           /\ Len(delivered') = Len(delivered) + (handler.to - handler.from)
           /\ \A i \in 1 .. Len(delivered') :
                delivered'[i] = IF i <= Len(delivered) THEN delivered[i]
                                ELSE rxBuffer[handler.from + (i - Len(delivered)) - 1]
<1> DEFINE n == handler.to - handler.from
           f == [i \in 1 .. handler.to - handler.from |-> rxBuffer[handler.from + i - 1]]
<1>1. n \in Nat /\ f \in [1 .. n -> 0 .. MaxBytes]
  <2>1. n \in Nat /\ \A i \in 1 .. n : handler.from + i - 1 \in 0 .. RxBufferSize - 1
      BY Sizes
  <2>2. rxBuffer \in [0 .. RxBufferSize - 1 -> 0 .. MaxBytes]
      BY DEF Types, CountTypes
  <2> QED BY <2>1, <2>2
<1>2. delivered \in Seq(0 .. MaxBytes) /\ Len(delivered) \in Nat
    BY LenProperties DEF Types, CountTypes
<1>3. delivered' = delivered \o f
    BY DEF Deliver
<1>4. \A i \in 1 .. n : f[i] = rxBuffer[handler.from + i - 1]
    OBVIOUS
<1> HIDE DEF n, f
<1>5. /\ delivered' \in Seq(0 .. MaxBytes)
      /\ Len(delivered') = Len(delivered) + n
      /\ \A i \in 1 .. Len(delivered) + n :
           delivered'[i] = IF i <= Len(delivered) THEN delivered[i] ELSE f[i - Len(delivered)]
  <2>1. /\ delivered \o f \in Seq(0 .. MaxBytes)
        /\ Len(delivered \o f) = Len(delivered) + n
        /\ \A i \in 1 .. Len(delivered) + n :
             (delivered \o f)[i] = IF i <= Len(delivered) THEN delivered[i] ELSE f[i - Len(delivered)]
      BY ONLY <1>1, <1>2, Delivery, Zenon
  <2> QED BY <1>3, <2>1
<1>6. \A i \in 1 .. Len(delivered) + n : ~(i <= Len(delivered)) => i - Len(delivered) \in 1 .. n
    BY <1>1, <1>2
<1>7. \A i \in 1 .. n : f[i] = rxBuffer[handler.from + i - 1]
    BY <1>4
<1>8. \A i \in 1 .. Len(delivered) + n : ~(i <= Len(delivered)) =>
        f[i - Len(delivered)] = rxBuffer[handler.from + (i - Len(delivered)) - 1]
    BY <1>6, <1>7
<1> QED BY <1>5, <1>8 DEF n

(* The types are an invariant of every behaviour. *)
THEOREM TypesInvariant == Spec => []Types
<1> USE Sizes, BoundsAssumption
<1>1. ASSUME Init PROVE Types
  <2>1. PlainTypes
      BY <1>1 DEF Init, PlainTypes
  <2>2. CountTypes
    <3>1. delivered \in Seq(0 .. MaxBytes)
        BY <1>1 DEF Init
    <3>2. rxBuffer \in [0 .. RxBufferSize - 1 -> 0 .. MaxBytes]
        BY <1>1 DEF Init
    <3> QED BY <1>1, <3>1, <3>2 DEF Init, CountTypes
  <2>3. HandlerTypes
      BY <1>1 DEF Init, HandlerTypes, Idle
  <2> QED BY <2>1, <2>2, <2>3 DEF Types
<1>2. Types /\ [Next]_vars => Types'
  <2> SUFFICES ASSUME Types, [Next]_vars PROVE Types'
      OBVIOUS
  <2> USE DEF Types
  <2>1. CASE Receive
    <3>1. PlainTypes'
        BY <2>1 DEF Receive, line, handling, PlainTypes, CountTypes, HandlerTypes
    <3>2. CountTypes'
        BY <2>1 DEF Receive, line, handling, CountTypes
    <3>3. HandlerTypes'
        BY <2>1 DEF Receive, line, handling, CountTypes, HandlerTypes
    <3> QED BY <3>1, <3>2, <3>3
  <2>2. CASE Clear
    <3>1. PlainTypes'
        BY <2>2 DEF Clear, hardware, line, handling, PlainTypes, CountTypes, HandlerTypes
    <3>2. CountTypes'
        BY <2>2 DEF Clear, hardware, line, handling, CountTypes
    <3>3. HandlerTypes'
        BY <2>2 DEF Clear, hardware, line, handling, CountTypes, HandlerTypes
    <3> QED BY <3>1, <3>2, <3>3
  <2>3. CASE StopTransfer
    <3>1. PlainTypes'
        BY <2>3 DEF StopTransfer, line, handling, PlainTypes, CountTypes, HandlerTypes
    <3>2. CountTypes'
        BY <2>3 DEF StopTransfer, line, handling, CountTypes
    <3>3. HandlerTypes'
        BY <2>3 DEF StopTransfer, line, handling, CountTypes, HandlerTypes
    <3> QED BY <3>1, <3>2, <3>3
  <2>4. CASE ReceiveByte
    <3>1. PlainTypes'
        BY <2>4 DEF ReceiveByte, application, handling, PlainTypes, CountTypes, HandlerTypes
    <3>2. CountTypes'
        BY <2>4, WrapIs DEF ReceiveByte, application, handling, CountTypes
    <3>3. HandlerTypes'
        BY <2>4 DEF ReceiveByte, application, handling, CountTypes, HandlerTypes
    <3> QED BY <3>1, <3>2, <3>3
  <2>5. CASE ReceiveTimeout
    <3>1. PlainTypes'
        BY <2>5
           DEF ReceiveTimeout, line, application, handling, PlainTypes, CountTypes, HandlerTypes
    <3>2. CountTypes'
        BY <2>5 DEF ReceiveTimeout, line, application, handling, CountTypes
    <3>3. HandlerTypes'
        BY <2>5 DEF ReceiveTimeout, line, application, handling, CountTypes, HandlerTypes
    <3> QED BY <3>1, <3>2, <3>3
  <2>6. CASE HalfComplete
    <3>1. PlainTypes'
        BY <2>6 DEF HalfComplete, line, application, PlainTypes, CountTypes, HandlerTypes
    <3>2. CountTypes'
        BY <2>6 DEF HalfComplete, line, application, CountTypes
    <3>3. HandlerTypes'
        BY <2>6 DEF HalfComplete, line, application, CountTypes, HandlerTypes, At
    <3> QED BY <3>1, <3>2, <3>3
  <2>7. CASE FullComplete
    <3>1. PlainTypes'
        BY <2>7 DEF FullComplete, line, application, PlainTypes, CountTypes, HandlerTypes
    <3>2. CountTypes'
        BY <2>7 DEF FullComplete, line, application, CountTypes
    <3>3. HandlerTypes'
        BY <2>7 DEF FullComplete, line, application, CountTypes, HandlerTypes, At
    <3> QED BY <3>1, <3>2, <3>3
  <2>8. CASE DmaReceiveComplete
    <3>1. PlainTypes'
        BY <2>8, ReceiveCompleteIs
           DEF DmaReceiveComplete, hardware, line, application, PlainTypes, CountTypes, HandlerTypes
    <3>2. \/ dma' = Idle /\ UNCHANGED lastReceivedPosition
          \/ /\ dma' = [step |-> "deliver", from |-> lastReceivedPosition, to |-> dma.to]
             /\ lastReceivedPosition < dma.to
             /\ lastReceivedPosition' = IF dma.to = RxBufferSize THEN 0 ELSE dma.to
        BY <2>8, ReceiveCompleteIs DEF DmaReceiveComplete, CountTypes, HandlerTypes
    <3>3. CountTypes'
      <4>1. dma.to \in 0 .. RxBufferSize /\ lastReceivedPosition \in 0 .. RxBufferSize - 1
          BY DEF HandlerTypes, CountTypes
      <4>2. lastReceivedPosition' \in 0 .. RxBufferSize - 1
        <5>1. CASE lastReceivedPosition' = lastReceivedPosition
            BY <4>1, <5>1
        <5>2. CASE lastReceivedPosition' = IF dma.to = RxBufferSize THEN 0 ELSE dma.to
            BY <4>1, <5>2
        <5> QED BY <3>2, <5>1, <5>2
      <4>3. UNCHANGED <<position, rxBuffer, arrived, delivered, starts>>
          BY <2>8 DEF DmaReceiveComplete, hardware, line, application
      <4> QED BY <4>2, <4>3 DEF CountTypes
    <3>4. HandlerTypes'
        BY <2>8, <3>2
           DEF DmaReceiveComplete, hardware, line, application, CountTypes, HandlerTypes, Idle
    <3> QED BY <3>1, <3>3, <3>4
  <2>9. CASE DmaDelivers
    <3>1. PlainTypes'
        BY <2>9 DEF DmaDelivers, hardware, line, application, PlainTypes, CountTypes, HandlerTypes
    <3>2. delivered' \in Seq(0 .. MaxBytes)
        BY <2>9, DeliverTypes DEF DmaDelivers, HandlerTypes
    <3>3. CountTypes'
        BY <2>9, <3>2 DEF DmaDelivers, hardware, line, application, CountTypes
    <3>4. HandlerTypes'
        BY <2>9 DEF DmaDelivers, hardware, line, application, HandlerTypes, Idle
    <3> QED BY <3>1, <3>3, <3>4
  <2>10. CASE Invoke
    <3>1. PlainTypes'
        BY <2>10 DEF Invoke, line, application, PlainTypes, CountTypes, HandlerTypes
    <3>2. CountTypes'
        BY <2>10 DEF Invoke, line, application, CountTypes
    <3>3. HandlerTypes'
        BY <2>10 DEF Invoke, line, application, CountTypes, HandlerTypes, At
    <3> QED BY <3>1, <3>2, <3>3
  <2>11. CASE ReceivedSize
    <3>1. PlainTypes'
        BY <2>11 DEF ReceivedSize, hardware, line, application, PlainTypes, CountTypes, HandlerTypes
    <3>2. CountTypes'
        BY <2>11 DEF ReceivedSize, hardware, line, application, CountTypes
    <3>3. HandlerTypes'
        BY <2>11 DEF ReceivedSize, hardware, line, application, CountTypes, HandlerTypes, At
    <3> QED BY <3>1, <3>2, <3>3
  <2>12. CASE UartReceiveComplete
    <3>1. PlainTypes'
        BY <2>12, ReceiveCompleteIs
           DEF UartReceiveComplete, hardware, line, application, PlainTypes, CountTypes,
               HandlerTypes
    <3>2. \/ uart' = Idle /\ UNCHANGED lastReceivedPosition
          \/ /\ uart' = [step |-> "deliver", from |-> lastReceivedPosition, to |-> uart.to]
             /\ lastReceivedPosition < uart.to
             /\ lastReceivedPosition' = IF uart.to = RxBufferSize THEN 0 ELSE uart.to
        BY <2>12, ReceiveCompleteIs DEF UartReceiveComplete, CountTypes, HandlerTypes
    <3>3. CountTypes'
      <4>1. uart.to \in 0 .. RxBufferSize /\ lastReceivedPosition \in 0 .. RxBufferSize - 1
          BY DEF HandlerTypes, CountTypes
      <4>2. lastReceivedPosition' \in 0 .. RxBufferSize - 1
        <5>1. CASE lastReceivedPosition' = lastReceivedPosition
            BY <4>1, <5>1
        <5>2. CASE lastReceivedPosition' = IF uart.to = RxBufferSize THEN 0 ELSE uart.to
            BY <4>1, <5>2
        <5> QED BY <3>2, <5>1, <5>2
      <4>3. UNCHANGED <<position, rxBuffer, arrived, delivered, starts>>
          BY <2>12 DEF UartReceiveComplete, hardware, line, application
      <4> QED BY <4>2, <4>3 DEF CountTypes
    <3>4. HandlerTypes'
        BY <2>12, <3>2
           DEF UartReceiveComplete, hardware, line, application, CountTypes, HandlerTypes, Idle
    <3> QED BY <3>1, <3>3, <3>4
  <2>13. CASE UartDelivers
    <3>1. PlainTypes'
        BY <2>13 DEF UartDelivers, hardware, line, application, PlainTypes, CountTypes, HandlerTypes
    <3>2. delivered' \in Seq(0 .. MaxBytes)
        BY <2>13, DeliverTypes DEF UartDelivers, HandlerTypes
    <3>3. CountTypes'
        BY <2>13, <3>2 DEF UartDelivers, hardware, line, application, CountTypes
    <3>4. HandlerTypes'
        BY <2>13 DEF UartDelivers, hardware, line, application, HandlerTypes, Idle
    <3> QED BY <3>1, <3>3, <3>4
  <2>14. CASE UNCHANGED vars
      BY <2>14 DEF vars, hardware, line, application, handling, PlainTypes, CountTypes, HandlerTypes
  <2> QED BY <2>1, <2>2, <2>3, <2>4, <2>5, <2>6, <2>7, <2>8, <2>9, <2>10, <2>11, <2>12, <2>13, <2>14
             DEF Next, DmaInterrupt, UartInterrupt
<1> QED BY <1>1, <1>2, PTL DEF Spec

(* Every variable keeps its type. *)
THEOREM TypeCorrect == Spec => []TypeOK
<1>1. Types => TypeOK
    BY DEF Types, PlainTypes, CountTypes, HandlerTypes, TypeOK
<1> QED BY <1>1, TypesInvariant, PTL

(* The types of the parts. *)
LEMMA Parts ==
    ASSUME Types
    PROVE  /\ position \in 0 .. RxBufferSize - 1 /\ lastReceivedPosition \in 0 .. RxBufferSize - 1
           /\ arrived \in Nat /\ starts \in Nat
           /\ dma.step \in {"idle", "complete", "deliver"}
           /\ dma.from \in 0 .. RxBufferSize /\ dma.to \in 0 .. RxBufferSize /\ dma.from <= dma.to
           /\ uart.step \in {"idle", "timeout", "complete", "deliver"}
           /\ uart.from \in 0 .. RxBufferSize /\ uart.to \in 0 .. RxBufferSize /\ uart.from <= uart.to
           /\ delivered \in Seq(0 .. MaxBytes) /\ Len(delivered) \in Nat
           /\ rxBuffer \in [0 .. RxBufferSize - 1 -> 0 .. MaxBytes]
           /\ half \in BOOLEAN /\ full \in BOOLEAN /\ dataReceived \in BOOLEAN
<1>1. delivered \in Seq(0 .. MaxBytes) /\ Len(delivered) \in Nat
    BY LenProperties DEF Types, CountTypes
<1> QED BY <1>1, BoundsAssumption DEF Types, PlainTypes, CountTypes, HandlerTypes

(* A handler that is Idle is in no step. *)
LEMMA IdleStep == Idle.step = "idle"
BY DEF Idle

(* What is delivered next are the bytes after those delivered. *)
LEMMA NextBytes ==
    ASSUME Types, NEW handler, Deliver(handler), BytesInOrder,
           handler.from \in 0 .. RxBufferSize, handler.to \in 0 .. RxBufferSize,
           handler.from <= handler.to,
           \A i \in 1 .. handler.to - handler.from :
                rxBuffer[handler.from + i - 1] = Len(delivered) + i
    PROVE  /\ Len(delivered') = Len(delivered) + (handler.to - handler.from)
           /\ \A i \in DOMAIN delivered' : delivered'[i] = i
<1>1. /\ delivered \in Seq(0 .. MaxBytes) /\ Len(delivered) \in Nat
      /\ DOMAIN delivered = 1 .. Len(delivered)
    BY Parts, LenProperties
<1>2. /\ delivered' \in Seq(0 .. MaxBytes)
      /\ Len(delivered') = Len(delivered) + (handler.to - handler.from)
      /\ \A i \in 1 .. Len(delivered') :
           delivered'[i] = IF i <= Len(delivered) THEN delivered[i]
                           ELSE rxBuffer[handler.from + (i - Len(delivered)) - 1]
    BY DeliverTypes
<1>3. DOMAIN delivered' = 1 .. Len(delivered')
    BY <1>2, LenProperties
<1>4. ASSUME NEW i \in 1 .. Len(delivered') PROVE delivered'[i] = i
  <2>1. CASE i <= Len(delivered)
      BY <1>1, <1>2, <2>1 DEF BytesInOrder
  <2>2. CASE ~(i <= Len(delivered))
    <3>1. i - Len(delivered) \in 1 .. handler.to - handler.from
        BY <1>1, <1>2, <2>2, Sizes
    <3>2. rxBuffer[handler.from + (i - Len(delivered)) - 1] = Len(delivered) + (i - Len(delivered))
        BY <3>1
    <3> QED BY <1>1, <1>2, <2>2, <3>2
  <2> QED BY <2>1, <2>2
<1> QED BY <1>2, <1>3, <1>4

(* The invariant of one reception. *)
LEMMA ReceptionStep ==
    ASSUME Types, Types', ReceptionInv, OneReception, OneReception', [Next]_vars
    PROVE  ReceptionInv'
<1> USE Sizes
<1>1. /\ HandlersInv /\ BoundaryInv /\ ExclusionInv /\ BufferInv /\ TakenInv
      /\ ReadInv /\ DeliverInv /\ StartInv /\ BytesInOrder
    BY DEF ReceptionInv
<1>2. /\ position \in 0 .. RxBufferSize - 1 /\ lastReceivedPosition \in 0 .. RxBufferSize - 1
      /\ arrived \in Nat /\ starts \in Nat
      /\ dma.step \in {"idle", "complete", "deliver"}
      /\ dma.from \in 0 .. RxBufferSize /\ dma.to \in 0 .. RxBufferSize /\ dma.from <= dma.to
      /\ uart.step \in {"idle", "timeout", "complete", "deliver"}
      /\ uart.from \in 0 .. RxBufferSize /\ uart.to \in 0 .. RxBufferSize /\ uart.from <= uart.to
      /\ Len(delivered) \in Nat
      /\ rxBuffer \in [0 .. RxBufferSize - 1 -> 0 .. MaxBytes]
      /\ half \in BOOLEAN /\ full \in BOOLEAN /\ dataReceived \in BOOLEAN
    BY Parts
<1>3. CASE Receive
  <2>1. /\ ~half /\ ~full /\ ~rtof /\ dma = Idle /\ uart = Idle /\ ~failed
        /\ ~dataReceived /\ ~stopping /\ starts = 0
        /\ dataReceived' = TRUE /\ position' = 0 /\ starts' = starts + 1
        /\ UNCHANGED <<half, full, rtof, quiet, rxBuffer, arrived, stopping, priority,
                       lastReceivedPosition, delivered, failed, dma, uart>>
      BY <1>3, <1>1, <1>2 DEF Receive, NoInterrupt, line, handling, OneReception
  <2>2. HandlersInv'
      BY <1>1, <1>2, <2>1 DEF HandlersInv, BoundaryInv, ExclusionInv, Idle, StartInv
  <2>3. BoundaryInv'
      BY <1>1, <1>2, <2>1 DEF BoundaryInv, HandlersInv, ExclusionInv, Idle, StartInv
  <2>4. ExclusionInv'
      BY <1>1, <1>2, <2>1 DEF ExclusionInv, HandlersInv, BoundaryInv, Idle, StartInv
  <2>5. BufferInv'
      BY <1>1, <1>2, <2>1
         DEF BufferInv, Round, HandlersInv, BoundaryInv, ExclusionInv, Idle, StartInv
  <2>6. TakenInv'
      BY <1>1, <1>2, <2>1
         DEF TakenInv, Taken, Round, Due, HandlersInv, BoundaryInv, ExclusionInv, Idle, StartInv
  <2>7. ReadInv'
      BY <1>1, <1>2, <2>1 DEF ReadInv, HandlersInv, BoundaryInv, ExclusionInv, Idle, StartInv
  <2>8. DeliverInv'
      BY <1>1, <1>2, <2>1
         DEF DeliverInv, Round, HandlersInv, BoundaryInv, ExclusionInv, Idle, StartInv
  <2>9. StartInv'
      BY <1>1, <1>2, <2>1 DEF StartInv, HandlersInv, BoundaryInv, ExclusionInv, Idle
  <2>10. BytesInOrder'
      BY <1>1, <1>2, <2>1
         DEF BytesInOrder, PositionsAscend, HandlersInv, BoundaryInv, ExclusionInv, Idle, StartInv
  <2> QED BY <2>2, <2>3, <2>4, <2>5, <2>6, <2>7, <2>8, <2>9, <2>10 DEF ReceptionInv
<1>4. CASE Clear
  <2>1. /\ ~half /\ ~full /\ ~rtof /\ dma = Idle /\ uart = Idle /\ ~failed
        /\ starts # 0
        /\ dataReceived' = FALSE
        /\ UNCHANGED <<receiving, position, half, full, rtof, quiet, rxBuffer, arrived, starts,
                       priority, lastReceivedPosition, delivered, failed, dma, uart>>
      BY <1>4, <1>1, <1>2 DEF Clear, NoInterrupt, hardware, line, handling, StartInv
  <2>2. HandlersInv'
      BY <1>1, <1>2, <2>1 DEF HandlersInv, BoundaryInv, ExclusionInv, Idle
  <2>3. BoundaryInv'
      BY <1>1, <1>2, <2>1 DEF BoundaryInv, HandlersInv, ExclusionInv, Idle
  <2>4. ExclusionInv'
      BY <1>1, <1>2, <2>1 DEF ExclusionInv, HandlersInv, BoundaryInv, Idle
  <2>5. BufferInv'
      BY <1>1, <1>2, <2>1 DEF BufferInv, Round, HandlersInv, BoundaryInv, ExclusionInv, Idle
  <2>6. TakenInv'
      BY <1>1, <1>2, <2>1
         DEF TakenInv, Taken, Round, Due, HandlersInv, BoundaryInv, ExclusionInv, Idle
  <2>7. ReadInv'
      BY <1>1, <1>2, <2>1 DEF ReadInv, HandlersInv, BoundaryInv, ExclusionInv, Idle
  <2>8. DeliverInv'
      BY <1>1, <1>2, <2>1 DEF DeliverInv, Round, HandlersInv, BoundaryInv, ExclusionInv, Idle
  <2>9. StartInv'
      BY <1>1, <1>2, <2>1 DEF StartInv, HandlersInv, BoundaryInv, ExclusionInv, Idle
  <2>10. BytesInOrder'
      BY <1>1, <1>2, <2>1
         DEF BytesInOrder, PositionsAscend, HandlersInv, BoundaryInv, ExclusionInv, Idle
  <2> QED BY <2>2, <2>3, <2>4, <2>5, <2>6, <2>7, <2>8, <2>9, <2>10 DEF ReceptionInv
<1>5. CASE StopTransfer
  <2>1. /\ starts # 0
        /\ UNCHANGED <<dataReceived, position, half, full, rtof, rxBuffer, arrived, starts,
                       priority, lastReceivedPosition, delivered, failed, dma, uart>>
      BY <1>5, <1>1, <1>2 DEF StopTransfer, NoInterrupt, line, handling, StartInv
  <2>2. HandlersInv'
      BY <1>1, <1>2, <2>1 DEF HandlersInv, BoundaryInv, ExclusionInv, Idle
  <2>3. BoundaryInv'
      BY <1>1, <1>2, <2>1 DEF BoundaryInv, HandlersInv, ExclusionInv, Idle
  <2>4. ExclusionInv'
      BY <1>1, <1>2, <2>1 DEF ExclusionInv, HandlersInv, BoundaryInv, Idle
  <2>5. BufferInv'
      BY <1>1, <1>2, <2>1 DEF BufferInv, Round, HandlersInv, BoundaryInv, ExclusionInv, Idle
  <2>6. TakenInv'
      BY <1>1, <1>2, <2>1
         DEF TakenInv, Taken, Round, Due, HandlersInv, BoundaryInv, ExclusionInv, Idle
  <2>7. ReadInv'
      BY <1>1, <1>2, <2>1 DEF ReadInv, HandlersInv, BoundaryInv, ExclusionInv, Idle
  <2>8. DeliverInv'
      BY <1>1, <1>2, <2>1 DEF DeliverInv, Round, HandlersInv, BoundaryInv, ExclusionInv, Idle
  <2>9. StartInv'
      BY <1>1, <1>2, <2>1 DEF StartInv, HandlersInv, BoundaryInv, ExclusionInv, Idle
  <2>10. BytesInOrder'
      BY <1>1, <1>2, <2>1
         DEF BytesInOrder, PositionsAscend, HandlersInv, BoundaryInv, ExclusionInv, Idle
  <2> QED BY <2>2, <2>3, <2>4, <2>5, <2>6, <2>7, <2>8, <2>9, <2>10 DEF ReceptionInv
<1>6. CASE ReceiveByte
  <2>1. /\ starts # 0
        /\ position + 1 = Half \/ position + 1 = RxBufferSize => ~half /\ ~full /\ dma = Idle
        /\ arrived' = arrived + 1
        /\ rxBuffer' = [rxBuffer EXCEPT ![position] = arrived + 1]
        /\ position' = IF position + 1 = RxBufferSize THEN 0 ELSE position + 1
        /\ half' = (half \/ position + 1 = Half)
        /\ full' = (full \/ position + 1 = RxBufferSize)
        /\ UNCHANGED <<dataReceived, rtof, stopping, starts, priority, lastReceivedPosition,
                       delivered, failed, dma, uart>>
      BY <1>6, <1>1, <1>2, WrapIs
         DEF ReceiveByte, Boundary, DmaAnswered, Half, application, handling, StartInv
  <2>2. /\ Round \in Int
        /\ position + 1 = RxBufferSize =>
             /\ position' = 0 /\ Round' = Round + RxBufferSize
             /\ ~half /\ ~full /\ dma.step = "idle" /\ full' /\ ~half'
        /\ position + 1 = Half =>
             /\ position' = position + 1 /\ Round' = Round
             /\ ~half /\ ~full /\ dma.step = "idle" /\ ~full' /\ half'
        /\ position + 1 # RxBufferSize /\ position + 1 # Half =>
             /\ position' = position + 1 /\ Round' = Round
             /\ (half' <=> half) /\ (full' <=> full)
    <3>1. Round \in Int /\ Round' = arrived + 1 - position'
        BY <1>2, <2>1 DEF Round
    <3>2. Round' = IF position + 1 = RxBufferSize THEN Round + RxBufferSize ELSE Round
        BY <1>2, <2>1, <3>1 DEF Round
    <3>3. (half' <=> half \/ position + 1 = Half) /\ (full' <=> full \/ position + 1 = RxBufferSize)
        BY <2>1
    <3>4. position + 1 = Half => position + 1 # RxBufferSize
        BY <1>2
    <3> QED BY <2>1, <3>1, <3>2, <3>3, <3>4 DEF Idle
  <2>3. \A cell \in 0 .. RxBufferSize - 1 :
             rxBuffer'[cell] = IF cell = position THEN arrived + 1 ELSE rxBuffer[cell]
      BY <1>2, <2>1
  <2>4. HandlersInv'
      BY <1>1, <1>2, <2>1, <2>2 DEF HandlersInv, BoundaryInv, ExclusionInv, Idle
  <2>5. BoundaryInv'
      BY <1>1, <1>2, <2>1, <2>2 DEF BoundaryInv, HandlersInv, ExclusionInv, Idle
  <2>6. ExclusionInv'
      BY <1>1, <1>2, <2>1, <2>2 DEF ExclusionInv, HandlersInv, BoundaryInv, Idle
  <2>7. BufferInv'
    <3>1. Round' >= 0
        BY <1>1, <2>2 DEF BufferInv
    <3>2. ASSUME NEW cell \in 0 .. RxBufferSize - 1
          PROVE  /\ cell < position' => rxBuffer'[cell] = Round' + cell + 1
                 /\ cell >= position' /\ Round' > 0 => rxBuffer'[cell] = Round' + cell + 1 - RxBufferSize
      <4>1. /\ cell < position => rxBuffer[cell] = Round + cell + 1
            /\ cell >= position /\ Round > 0 => rxBuffer[cell] = Round + cell + 1 - RxBufferSize
            /\ Round >= 0
          BY <1>1 DEF BufferInv
      <4>2. cell = position => rxBuffer'[cell] = Round + cell + 1
          BY <1>2, <2>3 DEF Round
      <4>3. cell # position => rxBuffer'[cell] = rxBuffer[cell]
          BY <2>3
      <4>4. CASE position + 1 = RxBufferSize
        <5>1. position' = 0 /\ Round' = Round + RxBufferSize /\ cell <= position
            BY <1>2, <2>2, <4>4
        <5>2. rxBuffer'[cell] = Round + cell + 1
            BY <1>2, <4>1, <4>2, <4>3, <5>1
        <5> QED BY <1>2, <2>2, <5>1, <5>2
      <4>5. CASE position + 1 # RxBufferSize
        <5>1. position' = position + 1 /\ Round' = Round
            BY <1>2, <2>2, <4>5
        <5>2. cell < position + 1 => rxBuffer'[cell] = Round + cell + 1
            BY <1>2, <4>1, <4>2, <4>3
        <5>3. cell >= position + 1 /\ Round > 0 => rxBuffer'[cell] = Round + cell + 1 - RxBufferSize
            BY <1>2, <4>1, <4>3
        <5> QED BY <5>1, <5>2, <5>3
      <4> QED BY <4>4, <4>5
    <3> QED BY <3>1, <3>2 DEF BufferInv
  <2>8. TakenInv'
    <3>1. CASE position + 1 = RxBufferSize
        BY <1>1, <1>2, <2>1, <2>2, <3>1 DEF TakenInv, Taken, Due, Idle, HandlersInv, BoundaryInv
    <3>2. CASE position + 1 = Half
        BY <1>1, <1>2, <2>1, <2>2, <3>2 DEF TakenInv, Taken, Due, Idle, HandlersInv, BoundaryInv
    <3>3. CASE position + 1 # RxBufferSize /\ position + 1 # Half
        BY <1>1, <1>2, <2>1, <2>2, <3>3 DEF TakenInv, Taken, Due, Idle, HandlersInv, BoundaryInv
    <3> QED BY <3>1, <3>2, <3>3
  <2>9. ReadInv'
    <3>1. CASE position + 1 = RxBufferSize
        BY <1>1, <1>2, <2>1, <2>2, <3>1 DEF ReadInv, Idle, HandlersInv, ExclusionInv
    <3>2. CASE position + 1 = Half
        BY <1>1, <1>2, <2>1, <2>2, <3>2 DEF ReadInv, Idle, HandlersInv, ExclusionInv
    <3>3. CASE position + 1 # RxBufferSize /\ position + 1 # Half
        BY <1>1, <1>2, <2>1, <2>2, <3>3 DEF ReadInv, Idle, HandlersInv, ExclusionInv
    <3> QED BY <3>1, <3>2, <3>3
  <2>10. DeliverInv'
    <3>1. CASE position + 1 = RxBufferSize
        BY <1>1, <1>2, <2>1, <2>2, <3>1 DEF DeliverInv, HandlersInv, BoundaryInv, Idle
    <3>2. CASE position + 1 = Half
        BY <1>1, <1>2, <2>1, <2>2, <3>2 DEF DeliverInv, HandlersInv, BoundaryInv, Idle
    <3>3. CASE position + 1 # RxBufferSize /\ position + 1 # Half
        BY <1>1, <1>2, <2>1, <2>2, <3>3 DEF DeliverInv, HandlersInv, BoundaryInv, Idle
    <3> QED BY <3>1, <3>2, <3>3
  <2>11. StartInv'
      BY <1>1, <1>2, <2>1, <2>2 DEF StartInv, HandlersInv, BoundaryInv, ExclusionInv, Idle
  <2>12. BytesInOrder'
      BY <1>1, <1>2, <2>1, <2>2
         DEF BytesInOrder, PositionsAscend, HandlersInv, BoundaryInv, ExclusionInv, Idle
  <2> QED BY <2>4, <2>5, <2>6, <2>7, <2>8, <2>9, <2>10, <2>11, <2>12 DEF ReceptionInv
<1>7. CASE ReceiveTimeout
  <2>1. /\ starts # 0
        /\ UNCHANGED <<dataReceived, position, half, full, rxBuffer, arrived, stopping, starts,
                       priority, lastReceivedPosition, delivered, failed, dma, uart>>
      BY <1>7, <1>1, <1>2 DEF ReceiveTimeout, TimeoutEnabled, line, application, handling, StartInv
  <2>2. HandlersInv'
      BY <1>1, <1>2, <2>1 DEF HandlersInv, BoundaryInv, ExclusionInv, Idle
  <2>3. BoundaryInv'
      BY <1>1, <1>2, <2>1 DEF BoundaryInv, HandlersInv, ExclusionInv, Idle
  <2>4. ExclusionInv'
      BY <1>1, <1>2, <2>1 DEF ExclusionInv, HandlersInv, BoundaryInv, Idle
  <2>5. BufferInv'
      BY <1>1, <1>2, <2>1 DEF BufferInv, Round, HandlersInv, BoundaryInv, ExclusionInv, Idle
  <2>6. TakenInv'
      BY <1>1, <1>2, <2>1
         DEF TakenInv, Taken, Round, Due, HandlersInv, BoundaryInv, ExclusionInv, Idle
  <2>7. ReadInv'
      BY <1>1, <1>2, <2>1 DEF ReadInv, HandlersInv, BoundaryInv, ExclusionInv, Idle
  <2>8. DeliverInv'
      BY <1>1, <1>2, <2>1 DEF DeliverInv, Round, HandlersInv, BoundaryInv, ExclusionInv, Idle
  <2>9. StartInv'
      BY <1>1, <1>2, <2>1 DEF StartInv, HandlersInv, BoundaryInv, ExclusionInv, Idle
  <2>10. BytesInOrder'
      BY <1>1, <1>2, <2>1
         DEF BytesInOrder, PositionsAscend, HandlersInv, BoundaryInv, ExclusionInv, Idle
  <2> QED BY <2>2, <2>3, <2>4, <2>5, <2>6, <2>7, <2>8, <2>9, <2>10 DEF ReceptionInv
<1>8. CASE HalfComplete
  <2>1. /\ starts # 0
        /\ half /\ ~full /\ dma = Idle
        /\ half' = FALSE /\ dma' = [step |-> "complete", from |-> 0, to |-> Half]
        /\ uart.step \in {"idle", "timeout"}
        /\ UNCHANGED <<dataReceived, position, full, rxBuffer, arrived, stopping, starts, priority,
                       lastReceivedPosition, delivered, failed, uart>>
      BY <1>8, <1>1, <1>2, IdleStep
         DEF HalfComplete, At, DmaRuns, Half, line, application, StartInv, HandlersInv
  <2>2. HandlersInv'
      BY <1>1, <1>2, <2>1 DEF HandlersInv, BoundaryInv, ExclusionInv, Idle
  <2>3. BoundaryInv'
      BY <1>1, <1>2, <2>1 DEF BoundaryInv, HandlersInv, ExclusionInv, Idle
  <2>4. ExclusionInv'
      BY <1>1, <1>2, <2>1 DEF ExclusionInv, HandlersInv, BoundaryInv, Idle
  <2>5. BufferInv'
      BY <1>1, <1>2, <2>1 DEF BufferInv, Round, HandlersInv, BoundaryInv, ExclusionInv, Idle
  <2>6. TakenInv'
      BY <1>1, <1>2, <2>1
         DEF TakenInv, Taken, Round, Due, HandlersInv, BoundaryInv, ExclusionInv, Idle
  <2>7. ReadInv'
      BY <1>1, <1>2, <2>1 DEF ReadInv, HandlersInv, BoundaryInv, ExclusionInv, Idle
  <2>8. DeliverInv'
      BY <1>1, <1>2, <2>1 DEF DeliverInv, Round, HandlersInv, BoundaryInv, ExclusionInv, Idle
  <2>9. StartInv'
      BY <1>1, <1>2, <2>1 DEF StartInv, HandlersInv, BoundaryInv, ExclusionInv, Idle
  <2>10. BytesInOrder'
      BY <1>1, <1>2, <2>1
         DEF BytesInOrder, PositionsAscend, HandlersInv, BoundaryInv, ExclusionInv, Idle
  <2> QED BY <2>2, <2>3, <2>4, <2>5, <2>6, <2>7, <2>8, <2>9, <2>10 DEF ReceptionInv
<1>9. CASE FullComplete
  <2>1. /\ starts # 0
        /\ ~half /\ full /\ dma = Idle
        /\ full' = FALSE /\ dma' = [step |-> "complete", from |-> 0, to |-> RxBufferSize]
        /\ uart.step \in {"idle", "timeout"}
        /\ UNCHANGED <<dataReceived, position, half, rxBuffer, arrived, stopping, starts, priority,
                       lastReceivedPosition, delivered, failed, uart>>
      BY <1>9, <1>1, <1>2, IdleStep
         DEF FullComplete, At, DmaRuns, line, application, StartInv, HandlersInv
  <2>2. HandlersInv'
      BY <1>1, <1>2, <2>1 DEF HandlersInv, BoundaryInv, ExclusionInv, Idle
  <2>3. BoundaryInv'
      BY <1>1, <1>2, <2>1 DEF BoundaryInv, HandlersInv, ExclusionInv, Idle
  <2>4. ExclusionInv'
      BY <1>1, <1>2, <2>1 DEF ExclusionInv, HandlersInv, BoundaryInv, Idle
  <2>5. BufferInv'
      BY <1>1, <1>2, <2>1 DEF BufferInv, Round, HandlersInv, BoundaryInv, ExclusionInv, Idle
  <2>6. TakenInv'
      BY <1>1, <1>2, <2>1
         DEF TakenInv, Taken, Round, Due, HandlersInv, BoundaryInv, ExclusionInv, Idle
  <2>7. ReadInv'
      BY <1>1, <1>2, <2>1 DEF ReadInv, HandlersInv, BoundaryInv, ExclusionInv, Idle
  <2>8. DeliverInv'
      BY <1>1, <1>2, <2>1 DEF DeliverInv, Round, HandlersInv, BoundaryInv, ExclusionInv, Idle
  <2>9. StartInv'
      BY <1>1, <1>2, <2>1 DEF StartInv, HandlersInv, BoundaryInv, ExclusionInv, Idle
  <2>10. BytesInOrder'
      BY <1>1, <1>2, <2>1
         DEF BytesInOrder, PositionsAscend, HandlersInv, BoundaryInv, ExclusionInv, Idle
  <2> QED BY <2>2, <2>3, <2>4, <2>5, <2>6, <2>7, <2>8, <2>9, <2>10 DEF ReceptionInv
<1>10. CASE DmaReceiveComplete
  <2>1. /\ starts # 0
        /\ dma.step = "complete" /\ uart.step \in {"idle", "timeout"}
        /\ \/ /\ dma.to = lastReceivedPosition \/ ~dataReceived
              /\ dma' = Idle
              /\ UNCHANGED <<lastReceivedPosition, failed>>
           \/ /\ dataReceived /\ lastReceivedPosition > dma.to
              /\ dma' = Idle
              /\ failed' = TRUE
              /\ UNCHANGED lastReceivedPosition
           \/ /\ dataReceived /\ lastReceivedPosition < dma.to
              /\ dma' = [step |-> "deliver", from |-> lastReceivedPosition, to |-> dma.to]
              /\ lastReceivedPosition' = IF dma.to = RxBufferSize THEN 0 ELSE dma.to
              /\ UNCHANGED failed
        /\ UNCHANGED <<dataReceived, receiving, position, half, full, rtof, quiet, rxBuffer,
                       arrived, stopping, starts, priority, delivered, uart>>
      BY <1>10, <1>1, <1>2, IdleStep, ReceiveCompleteIs
         DEF DmaReceiveComplete, DmaRuns, hardware, line, application, StartInv
  <2>2. IF dataReceived
        THEN /\ dma' = [step |-> "deliver", from |-> lastReceivedPosition, to |-> dma.to]
             /\ lastReceivedPosition' = IF position < Half THEN 0 ELSE Half
             /\ failed' = failed
             /\ dma.to = IF position < Half THEN RxBufferSize ELSE Half
             /\ ~half /\ ~full /\ uart.step # "deliver"
             /\ IF position < Half
                THEN Len(delivered) = Round + lastReceivedPosition - RxBufferSize /\ lastReceivedPosition >= Half
                ELSE Len(delivered) = Round + lastReceivedPosition /\ lastReceivedPosition < Half
        ELSE dma' = Idle /\ UNCHANGED <<lastReceivedPosition, failed>>
    <3>1. Taken = Len(delivered) /\ Due /\ ~half /\ ~full /\ uart.step # "deliver"
        BY <1>1, <1>2, <2>1 DEF Taken, Due, HandlersInv
    <3>2. dma.to = IF position < Half THEN RxBufferSize ELSE Half
        BY <1>1, <2>1 DEF BoundaryInv
    <3>3. dataReceived =>
            IF position < Half
            THEN Len(delivered) = Round + lastReceivedPosition - RxBufferSize /\ lastReceivedPosition >= Half
            ELSE Len(delivered) = Round + lastReceivedPosition /\ lastReceivedPosition < Half
        BY <1>1, <1>2, <3>1 DEF TakenInv
    <3>4. dataReceived => lastReceivedPosition < dma.to
        BY <1>2, <3>2, <3>3
    <3>5. dataReceived =>
            /\ dma' = [step |-> "deliver", from |-> lastReceivedPosition, to |-> dma.to]
            /\ lastReceivedPosition' = IF dma.to = RxBufferSize THEN 0 ELSE dma.to
            /\ failed' = failed
        BY <1>2, <2>1, <3>4
    <3>6. ~dataReceived => dma' = Idle /\ UNCHANGED <<lastReceivedPosition, failed>>
        BY <2>1
    <3> QED BY <1>2, <3>1, <3>2, <3>3, <3>5, <3>6
  <2>3. HandlersInv'
      BY <1>1, <1>2, <2>1, <2>2 DEF HandlersInv, BoundaryInv, ExclusionInv, Idle
  <2>4. BoundaryInv'
      BY <1>1, <1>2, <2>1, <2>2 DEF BoundaryInv, HandlersInv, ExclusionInv, Idle
  <2>5. ExclusionInv'
      BY <1>1, <1>2, <2>1, <2>2 DEF ExclusionInv, HandlersInv, BoundaryInv, Idle
  <2>6. BufferInv'
      BY <1>1, <1>2, <2>1, <2>2 DEF BufferInv, Round, HandlersInv, BoundaryInv, ExclusionInv, Idle
  <2>7. TakenInv'
    <3>1. CASE dataReceived
      <4>1. Taken' = Len(delivered) + (dma.to - lastReceivedPosition) /\ ~Due'
          BY <1>1, <1>2, <2>1, <2>2, <3>1 DEF Taken, Due
      <4>2. Round' = Round
          BY <2>1 DEF Round
      <4>3. Round \in Int
          BY <1>2 DEF Round
      <4>4. /\ Taken' = Round' + lastReceivedPosition'
            /\ lastReceivedPosition' <= position
            /\ position >= Half => lastReceivedPosition' >= Half
        <5>1. CASE position < Half
            BY <1>2, <2>2, <3>1, <4>1, <4>2, <4>3, <5>1
        <5>2. CASE position >= Half
          <6>1. /\ dma.to = Half /\ lastReceivedPosition' = Half
                /\ Len(delivered) = Round + lastReceivedPosition
              BY <1>2, <2>2, <3>1, <5>2
          <6> QED BY <1>2, <4>1, <4>2, <4>3, <5>2, <6>1
        <5> QED BY <1>2, <5>1, <5>2
      <4> QED BY <2>1, <4>1, <4>4 DEF TakenInv
    <3>2. CASE ~dataReceived
        BY <2>1, <3>2 DEF TakenInv
    <3> QED BY <3>1, <3>2
  <2>8. ReadInv'
      BY <1>1, <1>2, <2>1, <2>2 DEF ReadInv, HandlersInv, BoundaryInv, ExclusionInv, Idle
  <2>9. DeliverInv'
    <3>1. CASE dataReceived
      <4>1. /\ dma'.step = "deliver" /\ dma'.from = lastReceivedPosition /\ dma'.to = dma.to
            /\ Len(delivered') = Len(delivered) /\ Round' = Round /\ position' = position
            /\ dataReceived' /\ uart'.step # "deliver"
          BY <2>1, <2>2, <3>1 DEF Round
      <4> QED BY <1>2, <2>2, <3>1, <4>1 DEF DeliverInv
    <3>2. CASE ~dataReceived
        BY <1>1, <2>1, <2>2, <3>2 DEF DeliverInv, Idle
    <3> QED BY <3>1, <3>2
  <2>10. StartInv'
      BY <1>1, <1>2, <2>1, <2>2 DEF StartInv, HandlersInv, BoundaryInv, ExclusionInv, Idle
  <2>11. BytesInOrder'
      BY <1>1, <2>1, <2>2 DEF BytesInOrder, PositionsAscend
  <2> QED BY <2>3, <2>4, <2>5, <2>6, <2>7, <2>8, <2>9, <2>10, <2>11 DEF ReceptionInv
<1>11. CASE DmaDelivers
  <2>1. /\ starts # 0
        /\ dma.step = "deliver" /\ uart.step \in {"idle", "timeout"}
        /\ Deliver(dma)
        /\ dma' = Idle
        /\ UNCHANGED <<dataReceived, receiving, position, half, full, rtof, quiet, rxBuffer,
                       arrived, stopping, starts, priority, lastReceivedPosition, failed, uart>>
      BY <1>11, <1>1, <1>2, IdleStep DEF DmaDelivers, DmaRuns, hardware, line, application, StartInv
  <2>2. /\ Len(delivered') = Len(delivered) + (dma.to - dma.from)
        /\ \A i \in DOMAIN delivered' : delivered'[i] = i
    <3>1. \A i \in 1 .. dma.to - dma.from : rxBuffer[dma.from + i - 1] = Len(delivered) + i
      <4>1. SUFFICES ASSUME NEW i \in 1 .. dma.to - dma.from
                     PROVE  rxBuffer[dma.from + i - 1] = Len(delivered) + i
          OBVIOUS
      <4>2. dma.from + i - 1 \in 0 .. RxBufferSize - 1
          BY <1>2
      <4>3. \/ /\ dma.from + i - 1 < position
               /\ Len(delivered) = Round + dma.from
            \/ /\ dma.from + i - 1 >= position
               /\ Len(delivered) = Round + dma.from - RxBufferSize
        <5>1. CASE position >= Half
          <6>1. Len(delivered) = Round + dma.from /\ dma.to <= position
              BY <1>1, <2>1, <5>1 DEF DeliverInv
          <6> QED BY <1>2, <6>1
        <5>2. CASE ~(position >= Half)
          <6>1. Len(delivered) = Round + dma.from - RxBufferSize /\ dma.from >= Half
              BY <1>1, <2>1, <5>2 DEF DeliverInv
          <6> QED BY <1>2, <5>2, <6>1
        <5> QED BY <5>1, <5>2
      <4>4. Round \in Int /\ Round >= 0
          BY <1>1, <1>2 DEF BufferInv, Round
      <4>5. \A cell \in 0 .. RxBufferSize - 1 :
              /\ cell < position => rxBuffer[cell] = Round + cell + 1
              /\ cell >= position /\ Round > 0 => rxBuffer[cell] = Round + cell + 1 - RxBufferSize
          BY <1>1 DEF BufferInv
      <4> DEFINE cell == dma.from + i - 1
      <4>6. /\ cell < position => rxBuffer[cell] = Round + cell + 1
            /\ cell >= position /\ Round > 0 => rxBuffer[cell] = Round + cell + 1 - RxBufferSize
          BY <4>2, <4>5
      <4>7. cell \in Int /\ i \in Int /\ dma.from = cell - i + 1
          BY <1>2
      <4> HIDE DEF cell
      <4>8. rxBuffer[cell] = Len(delivered) + i
        <5>1. CASE cell < position /\ Len(delivered) = Round + dma.from
            BY <1>2, <4>4, <4>6, <4>7, <5>1
        <5>2. CASE cell >= position /\ Len(delivered) = Round + dma.from - RxBufferSize
          <6>1. Round > 0
              BY <1>2, <4>2, <4>4, <4>7, <5>2 DEF cell
          <6> QED BY <1>2, <4>4, <4>6, <4>7, <5>2, <6>1
        <5> QED BY <4>3, <5>1, <5>2 DEF cell
      <4> QED BY <4>8 DEF cell
    <3> QED BY <1>1, <1>2, <2>1, <3>1, NextBytes
  <2>3. HandlersInv'
      BY <1>1, <1>2, <2>1, <2>2 DEF HandlersInv, BoundaryInv, ExclusionInv, Idle
  <2>4. BoundaryInv'
      BY <1>1, <1>2, <2>1, <2>2 DEF BoundaryInv, HandlersInv, ExclusionInv, Idle
  <2>5. ExclusionInv'
      BY <1>1, <1>2, <2>1, <2>2 DEF ExclusionInv, HandlersInv, BoundaryInv, Idle
  <2>6. BufferInv'
      BY <1>1, <1>2, <2>1, <2>2 DEF BufferInv, Round, HandlersInv, BoundaryInv, ExclusionInv, Idle
  <2>7. TakenInv'
    <3>1. Taken' = Taken /\ Due' = Due /\ Round' = Round
        BY <1>2, <2>1, <2>2 DEF Taken, Due, Round, Idle
    <3> QED BY <1>1, <2>1, <3>1 DEF TakenInv
  <2>8. ReadInv'
      BY <1>1, <1>2, <2>1, <2>2 DEF ReadInv, HandlersInv, BoundaryInv, ExclusionInv, Idle
  <2>9. DeliverInv'
      BY <1>1, <1>2, <2>1, <2>2 DEF DeliverInv, Round, HandlersInv, BoundaryInv, ExclusionInv, Idle
  <2>10. StartInv'
      BY <1>1, <1>2, <2>1, <2>2 DEF StartInv, HandlersInv, BoundaryInv, ExclusionInv, Idle
  <2>11. BytesInOrder'
      BY <1>1, <2>1, <2>2 DEF BytesInOrder, PositionsAscend
  <2> QED BY <2>3, <2>4, <2>5, <2>6, <2>7, <2>8, <2>9, <2>10, <2>11 DEF ReceptionInv
<1>12. CASE Invoke
  <2>1. /\ starts # 0
        /\ dma = Idle /\ uart = Idle
        /\ uart' = [step |-> "timeout", from |-> 0, to |-> 0]
        /\ UNCHANGED <<dataReceived, position, half, full, rxBuffer, arrived, stopping, starts,
                       priority, lastReceivedPosition, delivered, failed, dma>>
      BY <1>12, <1>1, <1>2 DEF Invoke, At, UartRuns, line, application, StartInv, OneReception
  <2>2. HandlersInv'
      BY <1>1, <1>2, <2>1 DEF HandlersInv, BoundaryInv, ExclusionInv, Idle
  <2>3. BoundaryInv'
      BY <1>1, <1>2, <2>1 DEF BoundaryInv, HandlersInv, ExclusionInv, Idle
  <2>4. ExclusionInv'
      BY <1>1, <1>2, <2>1 DEF ExclusionInv, HandlersInv, BoundaryInv, Idle
  <2>5. BufferInv'
      BY <1>1, <1>2, <2>1 DEF BufferInv, Round, HandlersInv, BoundaryInv, ExclusionInv, Idle
  <2>6. TakenInv'
      BY <1>1, <1>2, <2>1
         DEF TakenInv, Taken, Round, Due, HandlersInv, BoundaryInv, ExclusionInv, Idle
  <2>7. ReadInv'
      BY <1>1, <1>2, <2>1 DEF ReadInv, HandlersInv, BoundaryInv, ExclusionInv, Idle
  <2>8. DeliverInv'
      BY <1>1, <1>2, <2>1 DEF DeliverInv, Round, HandlersInv, BoundaryInv, ExclusionInv, Idle
  <2>9. StartInv'
      BY <1>1, <1>2, <2>1 DEF StartInv, HandlersInv, BoundaryInv, ExclusionInv, Idle
  <2>10. BytesInOrder'
      BY <1>1, <1>2, <2>1
         DEF BytesInOrder, PositionsAscend, HandlersInv, BoundaryInv, ExclusionInv, Idle
  <2> QED BY <2>2, <2>3, <2>4, <2>5, <2>6, <2>7, <2>8, <2>9, <2>10 DEF ReceptionInv
<1>13. CASE ReceivedSize
  <2>1. /\ starts # 0
        /\ dma = Idle /\ uart.step = "timeout"
        /\ uart' = [step |-> "complete", from |-> 0, to |-> position]
        /\ UNCHANGED <<dataReceived, receiving, position, half, full, rtof, quiet, rxBuffer,
                       arrived, stopping, starts, priority, lastReceivedPosition, delivered,
                       failed, dma>>
      BY <1>13, <1>1, <1>2
         DEF ReceivedSize, At, UartRuns, hardware, line, application, StartInv, OneReception, Idle
  <2>2. HandlersInv'
      BY <1>1, <1>2, <2>1 DEF HandlersInv, BoundaryInv, ExclusionInv, Idle
  <2>3. BoundaryInv'
      BY <1>1, <1>2, <2>1 DEF BoundaryInv, HandlersInv, ExclusionInv, Idle
  <2>4. ExclusionInv'
      BY <1>1, <1>2, <2>1 DEF ExclusionInv, HandlersInv, BoundaryInv, Idle
  <2>5. BufferInv'
      BY <1>1, <1>2, <2>1 DEF BufferInv, Round, HandlersInv, BoundaryInv, ExclusionInv, Idle
  <2>6. TakenInv'
      BY <1>1, <1>2, <2>1
         DEF TakenInv, Taken, Round, Due, HandlersInv, BoundaryInv, ExclusionInv, Idle
  <2>7. ReadInv'
      BY <1>1, <1>2, <2>1 DEF ReadInv, TakenInv, Due, Idle
  <2>8. DeliverInv'
      BY <1>1, <1>2, <2>1 DEF DeliverInv, Round, HandlersInv, BoundaryInv, ExclusionInv, Idle
  <2>9. StartInv'
      BY <1>1, <1>2, <2>1 DEF StartInv, HandlersInv, BoundaryInv, ExclusionInv, Idle
  <2>10. BytesInOrder'
      BY <1>1, <1>2, <2>1
         DEF BytesInOrder, PositionsAscend, HandlersInv, BoundaryInv, ExclusionInv, Idle
  <2> QED BY <2>2, <2>3, <2>4, <2>5, <2>6, <2>7, <2>8, <2>9, <2>10 DEF ReceptionInv
<1>14. CASE UartReceiveComplete
  <2>1. /\ starts # 0
        /\ dma = Idle /\ uart.step = "complete"
        /\ UNCHANGED <<dataReceived, receiving, position, half, full, rtof, quiet, rxBuffer,
                       arrived, stopping, starts, priority, delivered, dma>>
      BY <1>14, <1>1, <1>2
         DEF UartReceiveComplete, UartRuns, IsInterruptPending, hardware, line, application,
             StartInv, OneReception, Idle
  <2>2. uart.step = "complete" /\ dma.step = "idle"
      BY <2>1 DEF Idle
  <2>3. \/ uart' = Idle /\ UNCHANGED <<lastReceivedPosition, failed>>
        \/ /\ ~half /\ ~full /\ dataReceived
           /\ lastReceivedPosition < uart.to /\ uart.to <= position
           /\ uart' = [step |-> "deliver", from |-> lastReceivedPosition, to |-> uart.to]
           /\ lastReceivedPosition' = uart.to
           /\ UNCHANGED failed
    <3>1. CASE half \/ full
        BY <1>14, <3>1 DEF UartReceiveComplete, IsInterruptPending
    <3>2. CASE ~half /\ ~full
      <4>1. ReceiveComplete(uart, uart')
          BY <1>14, <3>2 DEF UartReceiveComplete, IsInterruptPending
      <4>2. dataReceived => lastReceivedPosition <= uart.to /\ uart.to <= position
          BY <1>1, <2>1, <3>2 DEF ReadInv
      <4>3. \/ /\ uart.to = lastReceivedPosition \/ ~dataReceived
               /\ uart' = Idle
               /\ UNCHANGED <<lastReceivedPosition, failed>>
            \/ dataReceived /\ lastReceivedPosition > uart.to
            \/ /\ dataReceived /\ lastReceivedPosition < uart.to
               /\ uart' = [step |-> "deliver", from |-> lastReceivedPosition, to |-> uart.to]
               /\ lastReceivedPosition' = IF uart.to = RxBufferSize THEN 0 ELSE uart.to
               /\ UNCHANGED failed
          BY <1>2, <4>1, ReceiveCompleteIs
      <4> QED BY <1>2, <3>2, <4>2, <4>3
    <3> QED BY <3>1, <3>2
  <2>4. HandlersInv'
      BY <1>1, <1>2, <2>1, <2>2, <2>3 DEF HandlersInv, BoundaryInv, ExclusionInv, Idle
  <2>5. BoundaryInv'
      BY <1>1, <1>2, <2>1, <2>2, <2>3 DEF BoundaryInv, HandlersInv, ExclusionInv, Idle
  <2>6. ExclusionInv'
      BY <1>1, <1>2, <2>1, <2>2, <2>3 DEF ExclusionInv, HandlersInv, BoundaryInv, Idle
  <2>7. BufferInv'
      BY <1>1, <1>2, <2>1, <2>2, <2>3
         DEF BufferInv, Round, HandlersInv, BoundaryInv, ExclusionInv, Idle
  <2>8. TakenInv'
    <3>1. Due' = Due /\ Round' = Round /\ Round \in Int
        BY <1>2, <2>1 DEF Due, Round
    <3>2. CASE uart' = Idle /\ UNCHANGED <<lastReceivedPosition, failed>>
      <4>1. Taken' = Taken
          BY <1>2, <2>1, <2>2, <3>2 DEF Taken, Idle
      <4> QED BY <1>1, <2>1, <3>1, <3>2, <4>1 DEF TakenInv
    <3>3. CASE /\ ~half /\ ~full /\ dataReceived
               /\ lastReceivedPosition < uart.to /\ uart.to <= position
               /\ uart' = [step |-> "deliver", from |-> lastReceivedPosition, to |-> uart.to]
               /\ lastReceivedPosition' = uart.to
      <4>1. Taken = Len(delivered) /\ Taken' = Len(delivered) + (uart.to - lastReceivedPosition) /\ ~Due
          BY <1>2, <2>1, <2>2, <3>3 DEF Taken, Due
      <4>2. /\ Taken = Round + lastReceivedPosition
            /\ position >= Half => lastReceivedPosition >= Half
          BY <1>1, <3>3, <4>1 DEF TakenInv
      <4>3. Taken' = Round' + lastReceivedPosition'
          BY <1>2, <3>1, <3>3, <4>1, <4>2
      <4> QED BY <1>2, <2>1, <3>1, <3>3, <4>1, <4>2, <4>3 DEF TakenInv
    <3> QED BY <2>3, <3>2, <3>3
  <2>9. ReadInv'
      BY <1>1, <1>2, <2>1, <2>2, <2>3 DEF ReadInv, HandlersInv, BoundaryInv, ExclusionInv, Idle
  <2>10. DeliverInv'
    <3>1. Round' = Round /\ Round \in Int
        BY <1>2, <2>1 DEF Round
    <3>2. CASE uart' = Idle
        BY <1>1, <2>1, <2>2, <3>1, <3>2 DEF DeliverInv, Idle
    <3>3. CASE /\ ~half /\ ~full /\ dataReceived
               /\ lastReceivedPosition < uart.to /\ uart.to <= position
               /\ uart' = [step |-> "deliver", from |-> lastReceivedPosition, to |-> uart.to]
               /\ lastReceivedPosition' = uart.to
      <4>1. Taken = Len(delivered) /\ ~Due
          BY <1>2, <2>1, <2>2, <3>3 DEF Taken, Due
      <4>2. /\ Len(delivered) = Round + lastReceivedPosition
            /\ position >= Half => lastReceivedPosition >= Half
          BY <1>1, <3>3, <4>1 DEF TakenInv
      <4> QED BY <1>2, <2>1, <2>2, <3>1, <3>3, <4>2 DEF DeliverInv
    <3> QED BY <2>3, <3>2, <3>3
  <2>11. StartInv'
      BY <1>1, <1>2, <2>1, <2>2, <2>3 DEF StartInv, HandlersInv, BoundaryInv, ExclusionInv, Idle
  <2>12. BytesInOrder'
      BY <1>1, <2>1, <2>3 DEF BytesInOrder, PositionsAscend
  <2> QED BY <2>4, <2>5, <2>6, <2>7, <2>8, <2>9, <2>10, <2>11, <2>12 DEF ReceptionInv
<1>15. CASE UartDelivers
  <2>1. /\ starts # 0
        /\ dma = Idle /\ uart.step = "deliver"
        /\ Deliver(uart)
        /\ uart' = Idle
        /\ UNCHANGED <<dataReceived, receiving, position, half, full, rtof, quiet, rxBuffer,
                       arrived, stopping, starts, priority, lastReceivedPosition, failed, dma>>
      BY <1>15, <1>1, <1>2
         DEF UartDelivers, UartRuns, hardware, line, application, StartInv, OneReception, Idle
  <2>2. /\ Len(delivered') = Len(delivered) + (uart.to - uart.from)
        /\ \A i \in DOMAIN delivered' : delivered'[i] = i
    <3>1. \A i \in 1 .. uart.to - uart.from : rxBuffer[uart.from + i - 1] = Len(delivered) + i
      <4>1. SUFFICES ASSUME NEW i \in 1 .. uart.to - uart.from
                     PROVE  rxBuffer[uart.from + i - 1] = Len(delivered) + i
          OBVIOUS
      <4>2. uart.from + i - 1 \in 0 .. RxBufferSize - 1
          BY <1>2
      <4>3. \/ /\ uart.from + i - 1 < position
               /\ Len(delivered) = Round + uart.from
            \/ /\ uart.from + i - 1 >= position
               /\ Len(delivered) = Round + uart.from - RxBufferSize
        <5>1. CASE Len(delivered) = Round + uart.from /\ uart.to <= position
            BY <1>2, <5>1
        <5>2. CASE full /\ Len(delivered) = Round + uart.from - RxBufferSize /\ uart.from >= Half
          <6>1. position < Half
              BY <1>1, <5>2 DEF BoundaryInv
          <6> QED BY <1>2, <5>2, <6>1
        <5> QED BY <1>1, <2>1, <5>1, <5>2 DEF DeliverInv
      <4>4. Round \in Int /\ Round >= 0
          BY <1>1, <1>2 DEF BufferInv, Round
      <4>5. \A cell \in 0 .. RxBufferSize - 1 :
              /\ cell < position => rxBuffer[cell] = Round + cell + 1
              /\ cell >= position /\ Round > 0 => rxBuffer[cell] = Round + cell + 1 - RxBufferSize
          BY <1>1 DEF BufferInv
      <4> DEFINE cell == uart.from + i - 1
      <4>6. /\ cell < position => rxBuffer[cell] = Round + cell + 1
            /\ cell >= position /\ Round > 0 => rxBuffer[cell] = Round + cell + 1 - RxBufferSize
          BY <4>2, <4>5
      <4>7. cell \in Int /\ i \in Int /\ uart.from = cell - i + 1
          BY <1>2
      <4> HIDE DEF cell
      <4>8. rxBuffer[cell] = Len(delivered) + i
        <5>1. CASE cell < position /\ Len(delivered) = Round + uart.from
            BY <1>2, <4>4, <4>6, <4>7, <5>1
        <5>2. CASE cell >= position /\ Len(delivered) = Round + uart.from - RxBufferSize
          <6>1. Round > 0
              BY <1>2, <4>2, <4>4, <4>7, <5>2 DEF cell
          <6> QED BY <1>2, <4>4, <4>6, <4>7, <5>2, <6>1
        <5> QED BY <4>3, <5>1, <5>2 DEF cell
      <4> QED BY <4>8 DEF cell
    <3> QED BY <1>1, <1>2, <2>1, <3>1, NextBytes
  <2>3. HandlersInv'
      BY <1>1, <1>2, <2>1, <2>2 DEF HandlersInv, BoundaryInv, ExclusionInv, Idle
  <2>4. BoundaryInv'
      BY <1>1, <1>2, <2>1, <2>2 DEF BoundaryInv, HandlersInv, ExclusionInv, Idle
  <2>5. ExclusionInv'
      BY <1>1, <1>2, <2>1, <2>2 DEF ExclusionInv, HandlersInv, BoundaryInv, Idle
  <2>6. BufferInv'
      BY <1>1, <1>2, <2>1, <2>2 DEF BufferInv, Round, HandlersInv, BoundaryInv, ExclusionInv, Idle
  <2>7. TakenInv'
    <3>1. Taken' = Taken /\ Due' = Due /\ Round' = Round
        BY <1>2, <2>1, <2>2 DEF Taken, Due, Round, Idle
    <3> QED BY <1>1, <2>1, <3>1 DEF TakenInv
  <2>8. ReadInv'
      BY <1>1, <1>2, <2>1, <2>2 DEF ReadInv, HandlersInv, BoundaryInv, ExclusionInv, Idle
  <2>9. DeliverInv'
      BY <1>1, <1>2, <2>1, <2>2 DEF DeliverInv, Round, HandlersInv, BoundaryInv, ExclusionInv, Idle
  <2>10. StartInv'
      BY <1>1, <1>2, <2>1, <2>2 DEF StartInv, HandlersInv, BoundaryInv, ExclusionInv, Idle
  <2>11. BytesInOrder'
      BY <1>1, <2>1, <2>2 DEF BytesInOrder, PositionsAscend
  <2> QED BY <2>3, <2>4, <2>5, <2>6, <2>7, <2>8, <2>9, <2>10, <2>11 DEF ReceptionInv
<1>16. CASE UNCHANGED vars
    BY <1>1, <1>16
       DEF vars, hardware, line, application, handling, ReceptionInv, HandlersInv, BoundaryInv,
       ExclusionInv, BufferInv, TakenInv, ReadInv, DeliverInv, StartInv, BytesInOrder,
       PositionsAscend,
       Taken, Round, Due
<1> QED BY <1>3, <1>4, <1>5, <1>6, <1>7, <1>8, <1>9, <1>10, <1>11, <1>12, <1>13, <1>14, <1>15, <1>16
           DEF Next, DmaInterrupt, UartInterrupt

(* Through one reception, the application gets the bytes of the line once, *)
(* in their order and not over others, and the positions the interrupts    *)
(* deliver up to ascend.                                                   *)
THEOREM BytesOfOneReceptionInOrder == Spec /\ []OneReception => []BytesInOrder
<1>1. Init => ReceptionInv
  <2> SUFFICES ASSUME Init PROVE ReceptionInv
      OBVIOUS
  <2> USE Sizes
  <2>1. HandlersInv /\ BoundaryInv /\ ExclusionInv /\ ReadInv /\ DeliverInv /\ TakenInv
      BY DEF Init, Idle, HandlersInv, BoundaryInv, ExclusionInv, ReadInv, DeliverInv, TakenInv
  <2>2. BufferInv /\ StartInv
      BY DEF Init, BufferInv, StartInv, Round
  <2>3. BytesInOrder
      BY DEF Init, BytesInOrder, PositionsAscend
  <2> QED BY <2>1, <2>2, <2>3 DEF ReceptionInv
<1>2. Types /\ Types' /\ ReceptionInv /\ OneReception /\ OneReception' /\ [Next]_vars => ReceptionInv'
    BY ReceptionStep
<1>3. ReceptionInv => BytesInOrder
    BY DEF ReceptionInv
<1> QED BY <1>1, <1>2, <1>3, TypesInvariant, PTL DEF Spec

(* The same of a program that starts one reception, on a board whose UART  *)
(* interrupt does not have the higher priority: the board of the run.      *)
THEOREM BytesInOrderWhenStartedOnce ==
    ASSUME MaxStarts <= 1, "uart" \notin Priorities
    PROVE  Spec => []BytesInOrder
<1>1. Types => OneReception
    BY Sizes, BoundsAssumption DEF Types, PlainTypes, CountTypes, OneReception
<1> QED BY <1>1, TypesInvariant, BytesOfOneReceptionInOrder, PTL
=============================================================================
