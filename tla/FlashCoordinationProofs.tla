----------------------- MODULE FlashCoordinationProofs -----------------------
(***************************************************************************)
(* The invariants of FlashCoordination, for every size of the flash and    *)
(* every number of retries in the event queue.                             *)
(***************************************************************************)
EXTENDS FlashCoordination, TLAPS

(* What holds of the queue after its first event is taken. *)
LEMMA TailFacts ==
    ASSUME NEW q \in Seq(Events), q # <<>>
    PROVE  /\ Tail(q) \in Seq(Events)
           /\ OneSequel(q) => OneSequel(Tail(q))
           /\ NoSequel(q) => NoSequel(Tail(q))
           /\ OneSequel(q) /\ Head(q) # "TryStep" => NoSequel(Tail(q))
           /\ \A e \in Events : Has(Tail(q), e) => Has(q, e)
           /\ \A e \in Events : Has(q, e) /\ Head(q) # e => Has(Tail(q), e)
<1>1. /\ Tail(q) \in Seq(Events)
      /\ DOMAIN q = 1 .. Len(q)
      /\ Len(q) \in Nat \ {0}
      /\ DOMAIN Tail(q) = 1 .. (Len(q) - 1)
      /\ \A i \in 1 .. (Len(q) - 1) : Tail(q)[i] = q[i + 1]
      /\ Head(q) = q[1]
    OBVIOUS
<1>2. OneSequel(q) => OneSequel(Tail(q))
  <2>1. SUFFICES ASSUME OneSequel(q),
                        NEW i \in DOMAIN Tail(q), NEW j \in DOMAIN Tail(q),
                        Tail(q)[i] # "TryStep", Tail(q)[j] # "TryStep"
                 PROVE  i = j
      BY DEF OneSequel
  <2>2. i + 1 \in DOMAIN q /\ j + 1 \in DOMAIN q
      BY <1>1
  <2>3. q[i + 1] # "TryStep" /\ q[j + 1] # "TryStep"
      BY <1>1, <2>1
  <2>4. i + 1 = j + 1
      BY <2>1, <2>2, <2>3 DEF OneSequel
  <2> QED BY <1>1, <2>4
<1>3. NoSequel(q) => NoSequel(Tail(q))
    BY <1>1 DEF NoSequel
<1>4. OneSequel(q) /\ Head(q) # "TryStep" => NoSequel(Tail(q))
  <2>1. SUFFICES ASSUME OneSequel(q), Head(q) # "TryStep",
                        NEW i \in DOMAIN Tail(q), Tail(q)[i] # "TryStep"
                 PROVE  FALSE
      BY DEF NoSequel
  <2>2. i + 1 \in DOMAIN q /\ 1 \in DOMAIN q /\ q[i + 1] # "TryStep" /\ q[1] # "TryStep"
      BY <1>1, <2>1
  <2>3. i + 1 = 1
      BY <2>1, <2>2 DEF OneSequel
  <2> QED BY <1>1, <2>3
<1>5. \A e \in Events : Has(Tail(q), e) => Has(q, e)
  <2>1. SUFFICES ASSUME NEW e \in Events, NEW i \in DOMAIN Tail(q), Tail(q)[i] = e
                 PROVE  Has(q, e)
      BY DEF Has
  <2>2. i + 1 \in DOMAIN q /\ q[i + 1] = e
      BY <1>1, <2>1
  <2> QED BY <2>2 DEF Has
<1>6. \A e \in Events : Has(q, e) /\ Head(q) # e => Has(Tail(q), e)
  <2>1. SUFFICES ASSUME NEW e \in Events, Head(q) # e,
                        NEW i \in DOMAIN q, q[i] = e
                 PROVE  Has(Tail(q), e)
      BY DEF Has
  <2>2. i # 1
      BY <1>1, <2>1
  <2>3. i - 1 \in DOMAIN Tail(q) /\ Tail(q)[i - 1] = e
      BY <1>1, <2>1, <2>2
  <2> QED BY <2>3 DEF Has
<1> QED BY <1>1, <1>2, <1>3, <1>4, <1>5, <1>6

(* What holds of the queue after an event is scheduled. *)
LEMMA AppendFacts ==
    ASSUME NEW q \in Seq(Events), NEW e \in Events
    PROVE  /\ Append(q, e) \in Seq(Events)
           /\ NoSequel(q) => OneSequel(Append(q, e))
           /\ OneSequel(q) /\ e = "TryStep" => OneSequel(Append(q, e))
           /\ NoSequel(q) /\ e = "TryStep" => NoSequel(Append(q, e))
           /\ NoSequel(Append(q, e)) => NoSequel(q)
           /\ \A f \in Events : Has(Append(q, e), f) <=> Has(q, f) \/ f = e
<1> DEFINE r == Append(q, e)
<1>1. /\ r \in Seq(Events)
      /\ DOMAIN q = 1 .. Len(q)
      /\ Len(q) \in Nat
      /\ DOMAIN r = 1 .. (Len(q) + 1)
      /\ \A i \in 1 .. Len(q) : r[i] = q[i]
      /\ r[Len(q) + 1] = e
    OBVIOUS
<1> HIDE DEF r
<1>2. NoSequel(q) => OneSequel(r)
    BY <1>1 DEF NoSequel, OneSequel
<1>3. OneSequel(q) /\ e = "TryStep" => OneSequel(r)
    BY <1>1 DEF OneSequel
<1>4. NoSequel(q) /\ e = "TryStep" => NoSequel(r)
    BY <1>1 DEF NoSequel
<1>5. NoSequel(r) => NoSequel(q)
    BY <1>1 DEF NoSequel
<1>6. \A f \in Events : Has(r, f) <=> Has(q, f) \/ f = e
  <2>1. SUFFICES ASSUME NEW f \in Events PROVE Has(r, f) <=> Has(q, f) \/ f = e
      OBVIOUS
  <2>2. ASSUME Has(r, f) PROVE Has(q, f) \/ f = e
    <3>1. PICK i \in DOMAIN r : r[i] = f
        BY <2>2 DEF Has
    <3>2. i \in DOMAIN q \/ i = Len(q) + 1
        BY <1>1
    <3> QED BY <1>1, <3>1, <3>2 DEF Has
  <2>3. ASSUME Has(q, f) PROVE Has(r, f)
    <3>1. PICK i \in DOMAIN q : q[i] = f
        BY <2>3 DEF Has
    <3>2. i \in DOMAIN r /\ r[i] = f
        BY <1>1, <3>1
    <3> QED BY <3>2 DEF Has
  <2>4. ASSUME f = e PROVE Has(r, f)
    <3>1. Len(q) + 1 \in DOMAIN r
        BY <1>1
    <3> QED BY <1>1, <3>1, <2>4 DEF Has
  <2> QED BY <2>2, <2>3, <2>4
<1> QED BY <1>1, <1>2, <1>3, <1>4, <1>5, <1>6 DEF r

-----------------------------------------------------------------------------
(* A piece of a write is never more than what remains of it. *)
LEMMA PieceSizeFits ==
    ASSUME remaining \in Nat, address \in Nat
    PROVE  PieceSize \in Nat /\ PieceSize <= remaining
<1>1. address % DoubleWordSize \in 0 .. (DoubleWordSize - 1)
    BY DoubleWordSizeAssumption
<1>2. DoubleWordSize - (address % DoubleWordSize) \in Nat
    BY <1>1, DoubleWordSizeAssumption
<1> QED BY <1>2 DEF PieceSize

(* Every variable keeps its type. *)
THEOREM TypeCorrect == Spec => []TypeOK
<1>1. ASSUME Init PROVE TypeOK
  <2>1. flashActivityControl \in BOOLEAN
      BY <1>1 DEF Init
  <2>2. eraseActivityReported \in BOOLEAN /\ stepPending \in BOOLEAN
        /\ onDone \in BOOLEAN
      BY <1>1 DEF Init
  <2>3. hsemFlag \in BOOLEAN /\ hsemEnabled \in BOOLEAN /\ crLocked \in BOOLEAN
        /\ halLocked \in BOOLEAN /\ eccError \in BOOLEAN
        /\ pageErase \in {"none", "open", "locked"}
      BY <1>1 DEF Init
  <2>4. cpu2EraseActivity \in BOOLEAN /\ cpu2Reported \in BOOLEAN
      BY <1>1 DEF Init
  <2>5. queue \in Seq(Events)
      BY <1>1 DEF Init
  <2>6. remaining \in Nat /\ address \in Nat /\ currentSector \in Nat /\ endSector \in Nat
      BY <1>1 DEF Init
  <2>7. /\ wirelessStack \in {"stopped", "starting", "running"}
        /\ operation \in {"write", "erase"} /\ step \in {"write", "erase"}
        /\ sem7 \in {"free", "cpu1", "cpu2"} /\ pc = "dispatch"
      BY <1>1 DEF Init
  <2> QED BY <2>1, <2>2, <2>3, <2>4, <2>5, <2>6, <2>7 DEF TypeOK
<1>2. TypeOK /\ [Next]_vars => TypeOK'
  <2> SUFFICES ASSUME TypeOK, [Next]_vars PROVE TypeOK'
      OBVIOUS
  <2>1. queue \in Seq(Events) /\ \A e \in Events : Append(queue, e) \in Seq(Events)
      BY AppendFacts DEF TypeOK
  <2>2. queue # <<>> => Tail(queue) \in Seq(Events)
      BY <2>1, TailFacts
  <2>3. queue # <<>> => \A e \in Events : Append(Tail(queue), e) \in Seq(Events)
      BY <2>2, AppendFacts
  <2>4. "TryStep" \in Events /\ "WriteNextDoubleWord" \in Events
        /\ "EraseNextSector" \in Events /\ "Finish" \in Events
      BY DEF Events
  <2>5. ASSUME NEW begin \in 0 .. FlashSize,
               NEW size \in 0 .. (FlashSize - begin), WriteBuffer(begin, size)
        PROVE  TypeOK'
    <3>1. remaining' \in Nat /\ address' \in Nat
        BY <2>5, FlashSizeAssumption DEF WriteBuffer
    <3>2. onDone' \in BOOLEAN /\ operation' = "write"
        BY <2>5 DEF WriteBuffer
    <3>3. /\ queue' \in Seq(Events) /\ stepPending' \in BOOLEAN
          /\ step' \in {"write", "erase"} /\ pc' \in {pc, "TryStep"}
        BY <2>1, <2>4, <2>5 DEF TypeOK, WriteBuffer, WriteNextDoubleWord, Finish,
            StepWhenCpu2AllowsFlashAccess
    <3> QED BY <2>5, <3>1, <3>2, <3>3 DEF TypeOK, WriteBuffer, hsem, flash, cpu2, Masked
  <2>6. ASSUME NEW begin \in 0 .. NumberOfSectors,
               NEW end \in begin .. NumberOfSectors, EraseSectors(begin, end)
        PROVE  TypeOK'
    <3>1. currentSector' \in Nat /\ endSector' \in Nat
        BY <2>6, NumberOfSectorsAssumption DEF EraseSectors
    <3>2. onDone' \in BOOLEAN /\ operation' = "erase"
        BY <2>6 DEF EraseSectors
    <3>3. /\ queue' \in Seq(Events) /\ stepPending' \in BOOLEAN
          /\ step' \in {"write", "erase"} /\ pc' \in {pc, "TryStep"}
        BY <2>1, <2>4, <2>6 DEF TypeOK, EraseSectors, EraseNextSector, Finish,
            StepWhenCpu2AllowsFlashAccess
    <3>4. eraseActivityReported' \in BOOLEAN /\ cpu2EraseActivity' \in BOOLEAN
        BY <2>6 DEF TypeOK, EraseSectors, EraseNextSector
    <3> QED BY <2>6, <3>1, <3>2, <3>3, <3>4 DEF TypeOK, EraseSectors, hsem, flash, Masked
  <2>7. CASE WirelessStackStarting
    <3>1. wirelessStack' = "starting"
        BY <2>7 DEF WirelessStackStarting
    <3> QED BY <2>7, <3>1 DEF TypeOK, WirelessStackStarting, request, hsem, flash, cpu2, Masked
  <2>8. CASE WirelessStackReady
    <3>1. /\ wirelessStack' = "running" /\ pc' = "TryStep"
          /\ flashActivityControl' \in BOOLEAN /\ cpu2Reported' \in BOOLEAN
        BY <2>8 DEF WirelessStackReady
    <3> QED BY <2>8, <3>1 DEF TypeOK, WirelessStackReady, request, hsem, flash, cpu2, Masked
  <2>9. CASE FirmwareUpgradeServicesReady
    <3>1. wirelessStack' = "stopped" /\ pc' = "TryStep" /\ cpu2Reported' \in BOOLEAN
        BY <2>9 DEF FirmwareUpgradeServicesReady
    <3> QED BY <2>9, <3>1 DEF TypeOK, FirmwareUpgradeServicesReady, request, hsem, flash, cpu2, Masked
  <2>10. CASE DispatchTryStep
    <3>1. queue' \in Seq(Events) /\ pc' = "TryStep"
        BY <2>2, <2>10 DEF DispatchTryStep
    <3> QED BY <2>10, <3>1 DEF TypeOK, DispatchTryStep, request, hsem, flash, cpu2, Masked
  <2>11. CASE DispatchWriteNext
    <3>1. /\ queue' \in Seq(Events) /\ stepPending' \in BOOLEAN
          /\ step' \in {"write", "erase"} /\ pc' \in {pc, "TryStep"}
        BY <2>2, <2>3, <2>4, <2>11 DEF TypeOK, WriteNextDoubleWord, Finish, StepWhenCpu2AllowsFlashAccess, DispatchWriteNext
    <3> QED BY <2>11, <3>1 DEF TypeOK, DispatchWriteNext, request, hsem, flash, cpu2, Masked
  <2>12. CASE DispatchEraseNext
    <3>1. /\ queue' \in Seq(Events) /\ stepPending' \in BOOLEAN
          /\ step' \in {"write", "erase"} /\ pc' \in {pc, "TryStep"}
          /\ eraseActivityReported' \in BOOLEAN /\ cpu2EraseActivity' \in BOOLEAN
        BY <2>2, <2>3, <2>4, <2>12 DEF TypeOK, EraseNextSector, Finish, StepWhenCpu2AllowsFlashAccess, DispatchEraseNext
    <3> QED BY <2>12, <3>1 DEF TypeOK, DispatchEraseNext, request, hsem, flash, Masked
  <2>13. CASE DispatchFinish
    <3>1. queue' \in Seq(Events) /\ onDone' \in BOOLEAN
        BY <2>2, <2>13 DEF DispatchFinish
    <3> QED BY <2>13, <3>1 DEF TypeOK, DispatchFinish, hsem, flash, cpu2, Masked
  <2>14. CASE TryStepReturns
    <3>1. pc' = "dispatch"
        BY <2>14 DEF TryStepReturns
    <3> QED BY <2>14, <3>1 DEF TypeOK, TryStepReturns, request, hsem, flash, cpu2, Masked
  <2>15. CASE TryStepBegins
    <3>1. /\ pc' = "lock" /\ eraseActivityReported' \in BOOLEAN
          /\ cpu2EraseActivity' \in BOOLEAN
        BY <2>15 DEF TypeOK, ReportEraseActivity, TryStepBegins
    <3> QED BY <2>15, <3>1 DEF TypeOK, TryStepBegins, request, hsem, flash, Masked
  <2>16. CASE LockOutCpu2
    <3>1. sem7' = "cpu1" /\ stepPending' \in BOOLEAN /\ pc' = "unlock"
        BY <2>16 DEF LockOutCpu2
    <3> QED BY <2>16, <3>1 DEF TypeOK, LockOutCpu2, request, hsem, flash, cpu2, Masked
  <2>17. CASE LockRefused
    <3>1. pc' = "clear"
        BY <2>17 DEF LockRefused
    <3> QED BY <2>17, <3>1 DEF TypeOK, LockRefused, request, hsem, flash, cpu2, Masked
  <2>18. CASE Unlock
    <3>1. crLocked' \in BOOLEAN /\ pc' = "program"
        BY <2>18 DEF Unlock
    <3> QED BY <2>18, <3>1 DEF TypeOK, Unlock, request, hsem, flash, cpu2, Masked
  <2>19. CASE Program
    <3>1. halLocked' \in BOOLEAN /\ pc' = "finish"
        BY <2>19 DEF Program
    <3> QED BY <2>19, <3>1 DEF TypeOK, Program, request, hsem, flash, cpu2, Masked
  <2>20. CASE ProgramDone
    <3>1. halLocked' \in BOOLEAN /\ pc' = "relock"
        BY <2>20 DEF ProgramDone
    <3> QED BY <2>20, <3>1 DEF TypeOK, ProgramDone, request, hsem, flash, cpu2, Masked
  <2>21. CASE Relock
    <3>1. crLocked' \in BOOLEAN /\ pc' = "release" /\ queue' \in Seq(Events)
        BY <2>1, <2>4, <2>21 DEF Relock
    <3> QED BY <2>21, <3>1 DEF TypeOK, Relock, request, hsem, flash, cpu2, Masked
  <2>22. CASE Release
    <3>1. /\ sem7' = "free" /\ hsemFlag' \in BOOLEAN /\ pc' = "dispatch"
          /\ remaining' \in Nat /\ address' \in Nat /\ currentSector' \in Nat
        BY PieceSizeFits, <2>22 DEF TypeOK, Advance, Release
    <3> QED BY <2>22, <3>1 DEF TypeOK, Release, flash, cpu2, Masked
  <2>23. CASE ClearFlag
    <3>1. hsemFlag' \in BOOLEAN /\ pc' = "enable"
        BY <2>23 DEF ClearFlag
    <3> QED BY <2>23, <3>1 DEF TypeOK, ClearFlag, request, hsem, flash, cpu2, Masked
  <2>24. CASE EnableInterrupt
    <3>1. hsemEnabled' \in BOOLEAN /\ pc' = "check"
        BY <2>24 DEF EnableInterrupt
    <3> QED BY <2>24, <3>1 DEF TypeOK, EnableInterrupt, request, hsem, flash, cpu2, Masked
  <2>25. CASE CheckStatus
    <3>1. /\ hsemEnabled' \in BOOLEAN /\ pc' = "dispatch"
          /\ queue' \in Seq(Events)
        BY <2>1, <2>4, <2>25 DEF TypeOK, CheckStatus
    <3> QED BY <2>25, <3>1 DEF TypeOK, CheckStatus, request, hsem, flash, cpu2, Masked
  <2>26. CASE HsemInterruptHandler
    <3>1. /\ hsemEnabled' \in BOOLEAN /\ hsemFlag' \in BOOLEAN
          /\ queue' \in Seq(Events)
        BY <2>1, <2>4, <2>26 DEF HsemInterruptHandler
    <3> QED BY <2>26, <3>1 DEF TypeOK, HsemInterruptHandler, request, hsem, flash, cpu2, Masked
  <2>27. CASE EccErrorDetected
    <3>1. eccError' \in BOOLEAN
        BY <2>27 DEF EccErrorDetected
    <3> QED BY <2>27, <3>1 DEF TypeOK, EccErrorDetected, request, hsem, flash, cpu2, Masked
  <2>28. CASE EccErrorHandler
    <3>1. /\ eccError' \in BOOLEAN /\ crLocked' \in BOOLEAN /\ halLocked' \in BOOLEAN
          /\ pageErase' \in {"none", "open", "locked"}
        BY <2>28 DEF TypeOK, EccErrorHandler
    <3> QED BY <2>28, <3>1 DEF TypeOK, EccErrorHandler, request, hsem, cpu2, Masked
  <2>29. CASE Cpu2Lock
    <3>1. sem7' = "cpu2"
        BY <2>29 DEF Cpu2Lock
    <3> QED BY <2>29, <3>1 DEF TypeOK, Cpu2Lock, request, hsem, flash, cpu2, Masked
  <2>30. CASE Cpu2Release
    <3>1. sem7' = "free" /\ hsemFlag' \in BOOLEAN
        BY <2>30 DEF Cpu2Release
    <3> QED BY <2>30, <3>1 DEF TypeOK, Cpu2Release, request, hsem, flash, cpu2, Masked
  <2>31. CASE UNCHANGED vars
      BY <2>31 DEF TypeOK, vars, request, hsem, flash, cpu2
  <2>32. CASE PageErased
    <3>1. /\ crLocked' \in BOOLEAN /\ halLocked' \in BOOLEAN
          /\ pageErase' \in {"none", "open", "locked"}
        BY <2>32 DEF LockedAfterErase, PageErased
    <3> QED BY <2>32, <3>1 DEF TypeOK, PageErased, request, hsem, cpu2, Masked
  <2> QED BY <2>5, <2>6, <2>7, <2>8, <2>9, <2>10, <2>11, <2>12, <2>13, <2>14, <2>15, <2>16, <2>17, <2>18, <2>19, <2>20, <2>21, <2>22, <2>23, <2>24, <2>25, <2>26, <2>27, <2>28, <2>29, <2>30, <2>31, <2>32
          DEF Next, Client, Boot, Dispatcher, TryStep, Interrupts, Cpu2
<1> QED BY <1>1, <1>2, PTL DEF Spec
-----------------------------------------------------------------------------
(* The semaphore and the controller.  The two properties are inductive     *)
(* with what is known of the HAL and of the erase of a page: the HAL is in *)
(* use only for a piece or for a page, and a page erase that found FLASH_CR *)
(* locked did not interrupt a program about to begin.                      *)
SemaphoreInv ==
    /\ StepHoldsSemaphore
    /\ ProgramFindsFlashUnlocked
    /\ halLocked => pc = "finish" \/ pageErase # "none"
    /\ pc = "program" => ~crLocked
    /\ pageErase = "locked" => pc # "program"

(* A piece is performed only while CPU1 holds semaphore 7, and the NMI      *)
(* handler never leaves FLASH_CR locked under a program it interrupted.     *)
THEOREM SemaphoreHeld == Spec => []SemaphoreInv
<1>1. Init => SemaphoreInv
    BY DEF Init, SemaphoreInv, StepHoldsSemaphore, ProgramFindsFlashUnlocked,
          NmiReturned, Masked
<1>2. TypeOK /\ SemaphoreInv /\ [Next]_vars => SemaphoreInv'
  <2> SUFFICES ASSUME TypeOK, SemaphoreInv, [Next]_vars
               PROVE  SemaphoreInv'
      OBVIOUS
  <2>10. ASSUME NEW begin \in 0 .. FlashSize,
               NEW size \in 0 .. (FlashSize - begin), WriteBuffer(begin, size)
        PROVE  SemaphoreInv'
      BY <2>10
      DEF TypeOK, SemaphoreInv, StepHoldsSemaphore,
            ProgramFindsFlashUnlocked, NmiReturned, Masked, WriteBuffer,
            WriteNextDoubleWord, Finish, StepWhenCpu2AllowsFlashAccess,
            request, hsem, flash, cpu2
  <2>11. ASSUME NEW begin \in 0 .. NumberOfSectors,
               NEW end \in begin .. NumberOfSectors, EraseSectors(begin, end)
        PROVE  SemaphoreInv'
      BY <2>11
      DEF TypeOK, SemaphoreInv, StepHoldsSemaphore,
            ProgramFindsFlashUnlocked, NmiReturned, Masked, EraseSectors,
            EraseNextSector, Finish, StepWhenCpu2AllowsFlashAccess, request,
            hsem, flash, cpu2
  <2>12. CASE WirelessStackStarting
      BY <2>12
      DEF TypeOK, SemaphoreInv, StepHoldsSemaphore,
            ProgramFindsFlashUnlocked, NmiReturned, Masked, WirelessStackStarting,
            request, hsem, flash, cpu2
  <2>13. CASE WirelessStackReady
      BY <2>13
      DEF TypeOK, SemaphoreInv, StepHoldsSemaphore,
            ProgramFindsFlashUnlocked, NmiReturned, Masked, WirelessStackReady, request,
            hsem, flash, cpu2
  <2>14. CASE FirmwareUpgradeServicesReady
      BY <2>14
      DEF TypeOK, SemaphoreInv, StepHoldsSemaphore,
            ProgramFindsFlashUnlocked, NmiReturned, Masked, FirmwareUpgradeServicesReady,
            request, hsem, flash, cpu2
  <2>15. CASE DispatchTryStep
      BY <2>15
      DEF TypeOK, SemaphoreInv, StepHoldsSemaphore,
            ProgramFindsFlashUnlocked, NmiReturned, Masked, DispatchTryStep, request,
            hsem, flash, cpu2
  <2>16. CASE DispatchWriteNext
      BY <2>16
      DEF TypeOK, SemaphoreInv, StepHoldsSemaphore,
            ProgramFindsFlashUnlocked, NmiReturned, Masked, DispatchWriteNext,
            WriteNextDoubleWord, Finish, StepWhenCpu2AllowsFlashAccess,
            request, hsem, flash, cpu2
  <2>17. CASE DispatchEraseNext
      BY <2>17
      DEF TypeOK, SemaphoreInv, StepHoldsSemaphore,
            ProgramFindsFlashUnlocked, NmiReturned, Masked, DispatchEraseNext,
            EraseNextSector, Finish, StepWhenCpu2AllowsFlashAccess, request,
            hsem, flash, cpu2
  <2>18. CASE DispatchFinish
      BY <2>18
      DEF TypeOK, SemaphoreInv, StepHoldsSemaphore,
            ProgramFindsFlashUnlocked, NmiReturned, Masked, DispatchFinish, request, hsem,
            flash, cpu2
  <2>19. CASE TryStepReturns
      BY <2>19
      DEF TypeOK, SemaphoreInv, StepHoldsSemaphore,
            ProgramFindsFlashUnlocked, NmiReturned, Masked, TryStepReturns, request, hsem,
            flash, cpu2
  <2>20. CASE TryStepBegins
      BY <2>20
      DEF TypeOK, SemaphoreInv, StepHoldsSemaphore,
            ProgramFindsFlashUnlocked, NmiReturned, Masked, TryStepBegins,
            ReportEraseActivity, request, hsem, flash, cpu2
  <2>21. CASE LockOutCpu2
      BY <2>21
      DEF TypeOK, SemaphoreInv, StepHoldsSemaphore,
            ProgramFindsFlashUnlocked, NmiReturned, Masked, LockOutCpu2, request, hsem,
            flash, cpu2
  <2>22. CASE LockRefused
      BY <2>22
      DEF TypeOK, SemaphoreInv, StepHoldsSemaphore,
            ProgramFindsFlashUnlocked, NmiReturned, Masked, LockRefused, request, hsem,
            flash, cpu2
  <2>23. CASE Unlock /\ NmiReturned
      BY <2>23
      DEF TypeOK, SemaphoreInv, StepHoldsSemaphore,
            ProgramFindsFlashUnlocked, NmiReturned, Masked, Unlock, request, hsem, flash,
            cpu2
  <2>24. CASE Program
      BY <2>24
      DEF TypeOK, SemaphoreInv, StepHoldsSemaphore,
            ProgramFindsFlashUnlocked, NmiReturned, Masked, Program, request, hsem, flash,
            cpu2
  <2>25. CASE ProgramDone
      BY <2>25
      DEF TypeOK, SemaphoreInv, StepHoldsSemaphore,
            ProgramFindsFlashUnlocked, NmiReturned, Masked, ProgramDone, request, hsem,
            flash, cpu2
  <2>26. CASE Relock
      BY <2>26
      DEF TypeOK, SemaphoreInv, StepHoldsSemaphore,
            ProgramFindsFlashUnlocked, NmiReturned, Masked, Relock, request, hsem, flash,
            cpu2
  <2>27. CASE Release
      BY <2>27
      DEF TypeOK, SemaphoreInv, StepHoldsSemaphore,
            ProgramFindsFlashUnlocked, NmiReturned, Masked, Release, Advance, request,
            hsem, flash, cpu2
  <2>28. CASE ClearFlag
      BY <2>28
      DEF TypeOK, SemaphoreInv, StepHoldsSemaphore,
            ProgramFindsFlashUnlocked, NmiReturned, Masked, ClearFlag, request, hsem,
            flash, cpu2
  <2>29. CASE EnableInterrupt
      BY <2>29
      DEF TypeOK, SemaphoreInv, StepHoldsSemaphore,
            ProgramFindsFlashUnlocked, NmiReturned, Masked, EnableInterrupt, request,
            hsem, flash, cpu2
  <2>30. CASE CheckStatus
      BY <2>30
      DEF TypeOK, SemaphoreInv, StepHoldsSemaphore,
            ProgramFindsFlashUnlocked, NmiReturned, Masked, CheckStatus, request, hsem,
            flash, cpu2
  <2>31. CASE HsemInterruptHandler
      BY <2>31
      DEF TypeOK, SemaphoreInv, StepHoldsSemaphore,
            ProgramFindsFlashUnlocked, NmiReturned, Masked, HsemInterruptHandler, request,
            hsem, flash, cpu2
  <2>32. CASE EccErrorDetected
      BY <2>32
      DEF TypeOK, SemaphoreInv, StepHoldsSemaphore,
            ProgramFindsFlashUnlocked, NmiReturned, Masked, EccErrorDetected, request,
            hsem, flash, cpu2
  <2>33. CASE EccErrorHandler
      BY <2>33
      DEF TypeOK, SemaphoreInv, StepHoldsSemaphore,
            ProgramFindsFlashUnlocked, NmiReturned, Masked, EccErrorHandler,
            request, hsem, flash, cpu2
  <2>34. CASE Cpu2Lock
      BY <2>34
      DEF TypeOK, SemaphoreInv, StepHoldsSemaphore,
            ProgramFindsFlashUnlocked, NmiReturned, Masked, Cpu2Lock, request, hsem,
            flash, cpu2
  <2>35. CASE Cpu2Release
      BY <2>35
      DEF TypeOK, SemaphoreInv, StepHoldsSemaphore,
            ProgramFindsFlashUnlocked, NmiReturned, Masked, Cpu2Release, request, hsem,
            flash, cpu2
  <2>36. CASE UNCHANGED vars
      BY <2>36 DEF TypeOK, SemaphoreInv, StepHoldsSemaphore,
            ProgramFindsFlashUnlocked, NmiReturned, Masked, vars, request, hsem, flash,
            cpu2
  <2>37. CASE PageErased
      BY <2>37
      DEF TypeOK, SemaphoreInv, StepHoldsSemaphore,
            ProgramFindsFlashUnlocked, NmiReturned, Masked, PageErased,
            LockedAfterErase, request, hsem, flash, cpu2
  <2> QED BY <2>10, <2>11, <2>12, <2>13, <2>14, <2>15, <2>16, <2>17, <2>18,
        <2>19, <2>20, <2>21, <2>22, <2>23, <2>24, <2>25, <2>26, <2>27, <2>28,
        <2>29, <2>30, <2>31, <2>32, <2>33, <2>34, <2>35, <2>36, <2>37
          DEF Next, Client, Boot, Dispatcher, TryStep, Interrupts, Cpu2
<1> QED BY <1>1, <1>2, TypeCorrect, PTL DEF Spec

-----------------------------------------------------------------------------
(* One continuation.  What the events of the queue carry on is the request *)
(* that is under way, and an attempt of TryStep is for a pending step.     *)
ContinuationInv ==
    /\ OneContinuation
    /\ pc \in {"lock", "clear", "enable", "check"} => stepPending
    /\ Has(queue, "WriteNextDoubleWord") => operation = "write"
    /\ Has(queue, "EraseNextSector") => operation = "erase"

(* What is left of a request is never in two places: no event, retry or    *)
(* boot report makes the driver perform a piece twice or skip one.         *)
THEOREM ContinuationUnique == Spec => []ContinuationInv
<1>1. Init => ContinuationInv
    BY DEF Init, ContinuationInv, OneContinuation, Masked, OneSequel,
          NoSequel, Has
<1>2. TypeOK /\ ContinuationInv /\ [Next]_vars => ContinuationInv'
  <2> SUFFICES ASSUME TypeOK, ContinuationInv, [Next]_vars
               PROVE  ContinuationInv'
      OBVIOUS
  <2>1. queue \in Seq(Events)
      BY DEF TypeOK
  <2>2. queue # <<>> =>
          /\ Tail(queue) \in Seq(Events)
          /\ OneSequel(queue) => OneSequel(Tail(queue))
          /\ NoSequel(queue) => NoSequel(Tail(queue))
          /\ OneSequel(queue) /\ Head(queue) # "TryStep" => NoSequel(Tail(queue))
          /\ \A e \in Events : Has(Tail(queue), e) => Has(queue, e)
          /\ \A e \in Events : Has(queue, e) /\ Head(queue) # e => Has(Tail(queue), e)
      BY <2>1, TailFacts
  <2>3. queue # <<>> => Head(queue) \in Events /\ Has(queue, Head(queue))
      BY <2>1 DEF Has
  <2>4. \A q \in Seq(Events) : \A e \in Events : e # "TryStep" /\ Has(q, e) => ~NoSequel(q)
      BY DEF Has, NoSequel
  <2>5. "TryStep" \in Events /\ "WriteNextDoubleWord" \in Events
        /\ "EraseNextSector" \in Events /\ "Finish" \in Events
      BY DEF Events
  <2>6. \A q \in Seq(Events) : \A e \in Events :
          /\ Append(q, e) \in Seq(Events)
          /\ NoSequel(q) => OneSequel(Append(q, e))
          /\ OneSequel(q) /\ e = "TryStep" => OneSequel(Append(q, e))
          /\ NoSequel(q) /\ e = "TryStep" => NoSequel(Append(q, e))
          /\ NoSequel(Append(q, e)) => NoSequel(q)
          /\ \A f \in Events : Has(Append(q, e), f) <=> Has(q, f) \/ f = e
      BY AppendFacts
  <2>10. ASSUME NEW begin \in 0 .. FlashSize,
               NEW size \in 0 .. (FlashSize - begin), WriteBuffer(begin, size)
        PROVE  ContinuationInv'
    <3>1. /\ pc = "dispatch" /\ ~onDone /\ onDone' /\ operation' = "write"
          /\ NoSequel(queue) /\ ~stepPending
        BY <2>10 DEF WriteBuffer, ContinuationInv, OneContinuation
    <3>2. /\ ~Has(queue, "WriteNextDoubleWord") /\ ~Has(queue, "EraseNextSector")
          /\ OneSequel(queue)
        BY <2>1, <2>4, <2>5, <3>1 DEF ContinuationInv, OneContinuation
    <3>3. CASE size = 0
      <4>1. queue' = Append(queue, "Finish") /\ pc' = pc /\ stepPending' = stepPending
          BY <2>10, <3>3 DEF WriteBuffer, WriteNextDoubleWord, Finish
      <4>2. /\ OneSequel(queue') /\ ~Has(queue', "WriteNextDoubleWord")
            /\ ~Has(queue', "EraseNextSector")
          BY <2>1, <2>5, <2>6, <3>1, <3>2, <4>1
      <4> QED BY <3>1, <4>1, <4>2 DEF ContinuationInv, OneContinuation, Masked
    <3>4. CASE ~(size = 0)
      <4>1. queue' = queue /\ pc' = "TryStep" /\ stepPending' /\ step' = "write"
          BY <2>10, <3>4 DEF WriteBuffer, WriteNextDoubleWord, StepWhenCpu2AllowsFlashAccess
      <4> QED BY <3>1, <3>2, <4>1 DEF ContinuationInv, OneContinuation, Masked
    <3> QED BY <3>3, <3>4
  <2>11. ASSUME NEW begin \in 0 .. NumberOfSectors,
               NEW end \in begin .. NumberOfSectors, EraseSectors(begin, end)
        PROVE  ContinuationInv'
    <3>1. /\ pc = "dispatch" /\ ~onDone /\ onDone' /\ operation' = "erase"
          /\ NoSequel(queue) /\ ~stepPending
        BY <2>11 DEF EraseSectors, ContinuationInv, OneContinuation
    <3>2. /\ ~Has(queue, "WriteNextDoubleWord") /\ ~Has(queue, "EraseNextSector")
          /\ OneSequel(queue)
        BY <2>1, <2>4, <2>5, <3>1 DEF ContinuationInv, OneContinuation
    <3>3. CASE begin = end
      <4>1. queue' = Append(queue, "Finish") /\ pc' = pc /\ stepPending' = stepPending
          BY <2>11, <3>3 DEF EraseSectors, EraseNextSector, Finish
      <4>2. /\ OneSequel(queue') /\ ~Has(queue', "WriteNextDoubleWord")
            /\ ~Has(queue', "EraseNextSector")
          BY <2>1, <2>5, <2>6, <3>1, <3>2, <4>1
      <4> QED BY <3>1, <4>1, <4>2 DEF ContinuationInv, OneContinuation, Masked
    <3>4. CASE ~(begin = end)
      <4>1. queue' = queue /\ pc' = "TryStep" /\ stepPending' /\ step' = "erase"
          BY <2>11, <3>4 DEF EraseSectors, EraseNextSector, StepWhenCpu2AllowsFlashAccess
      <4> QED BY <3>1, <3>2, <4>1 DEF ContinuationInv, OneContinuation, Masked
    <3> QED BY <3>3, <3>4
  <2>12. CASE WirelessStackStarting
      BY <2>12, <2>1, <2>2, <2>3, <2>4, <2>5, <2>6
      DEF TypeOK, ContinuationInv, OneContinuation, Masked,
            WirelessStackStarting, request, hsem, flash, cpu2
  <2>13. CASE WirelessStackReady
      BY <2>13, <2>1, <2>2, <2>3, <2>4, <2>5, <2>6
      DEF TypeOK, ContinuationInv, OneContinuation, Masked,
            WirelessStackReady, request, hsem, flash, cpu2
  <2>14. CASE FirmwareUpgradeServicesReady
      BY <2>14, <2>1, <2>2, <2>3, <2>4, <2>5, <2>6
      DEF TypeOK, ContinuationInv, OneContinuation, Masked,
            FirmwareUpgradeServicesReady, request, hsem, flash, cpu2
  <2>15. CASE DispatchTryStep
      BY <2>15, <2>1, <2>2, <2>3, <2>4, <2>5, <2>6
      DEF TypeOK, ContinuationInv, OneContinuation, Masked, DispatchTryStep,
            request, hsem, flash, cpu2
  <2>16. CASE DispatchWriteNext
    <3>1. /\ pc = "dispatch" /\ queue # <<>> /\ Has(queue, "WriteNextDoubleWord")
          /\ Head(queue) = "WriteNextDoubleWord" /\ onDone' = onDone
          /\ operation' = operation
        BY <2>16, <2>3 DEF DispatchWriteNext, request
    <3>2. /\ OneSequel(queue) /\ ~NoSequel(queue) /\ onDone /\ ~stepPending
          /\ operation = "write"
        BY <2>1, <2>4, <2>5, <3>1 DEF ContinuationInv, OneContinuation
    <3>3. Tail(queue) \in Seq(Events) /\ NoSequel(Tail(queue)) /\ OneSequel(Tail(queue))
        BY <2>2, <3>1, <3>2
    <3>4. /\ ~Has(Tail(queue), "WriteNextDoubleWord")
          /\ ~Has(Tail(queue), "EraseNextSector")
        BY <2>4, <2>5, <3>3
    <3>5. CASE remaining = 0
      <4>1. queue' = Append(Tail(queue), "Finish") /\ pc' = pc /\ stepPending' = stepPending
          BY <2>16, <3>5 DEF DispatchWriteNext, WriteNextDoubleWord, Finish
      <4>2. /\ OneSequel(queue') /\ ~Has(queue', "WriteNextDoubleWord")
            /\ ~Has(queue', "EraseNextSector")
          BY <2>5, <2>6, <3>3, <3>4, <4>1
      <4> QED BY <3>1, <3>2, <4>1, <4>2 DEF ContinuationInv, OneContinuation, Masked
    <3>6. CASE ~(remaining = 0)
      <4>1. /\ queue' = Tail(queue) /\ pc' = "TryStep" /\ stepPending' /\ step' = "write"
          BY <2>16, <3>6 DEF DispatchWriteNext, WriteNextDoubleWord, StepWhenCpu2AllowsFlashAccess
      <4> QED BY <3>1, <3>2, <3>3, <3>4, <4>1 DEF ContinuationInv, OneContinuation, Masked
    <3> QED BY <3>5, <3>6
  <2>17. CASE DispatchEraseNext
    <3>1. /\ pc = "dispatch" /\ queue # <<>> /\ Has(queue, "EraseNextSector")
          /\ Head(queue) = "EraseNextSector" /\ onDone' = onDone
          /\ operation' = operation
        BY <2>17, <2>3 DEF DispatchEraseNext, request
    <3>2. /\ OneSequel(queue) /\ ~NoSequel(queue) /\ onDone /\ ~stepPending
          /\ operation = "erase"
        BY <2>1, <2>4, <2>5, <3>1 DEF ContinuationInv, OneContinuation
    <3>3. Tail(queue) \in Seq(Events) /\ NoSequel(Tail(queue)) /\ OneSequel(Tail(queue))
        BY <2>2, <3>1, <3>2
    <3>4. /\ ~Has(Tail(queue), "WriteNextDoubleWord")
          /\ ~Has(Tail(queue), "EraseNextSector")
        BY <2>4, <2>5, <3>3
    <3>5. CASE currentSector = endSector
      <4>1. queue' = Append(Tail(queue), "Finish") /\ pc' = pc /\ stepPending' = stepPending
          BY <2>17, <3>5 DEF DispatchEraseNext, EraseNextSector, Finish
      <4>2. /\ OneSequel(queue') /\ ~Has(queue', "WriteNextDoubleWord")
            /\ ~Has(queue', "EraseNextSector")
          BY <2>5, <2>6, <3>3, <3>4, <4>1
      <4> QED BY <3>1, <3>2, <4>1, <4>2 DEF ContinuationInv, OneContinuation, Masked
    <3>6. CASE ~(currentSector = endSector)
      <4>1. /\ queue' = Tail(queue) /\ pc' = "TryStep" /\ stepPending' /\ step' = "erase"
          BY <2>17, <3>6 DEF DispatchEraseNext, EraseNextSector, StepWhenCpu2AllowsFlashAccess
      <4> QED BY <3>1, <3>2, <3>3, <3>4, <4>1 DEF ContinuationInv, OneContinuation, Masked
    <3> QED BY <3>5, <3>6
  <2>18. CASE DispatchFinish
      BY <2>18, <2>1, <2>2, <2>3, <2>4, <2>5, <2>6
      DEF TypeOK, ContinuationInv, OneContinuation, Masked, DispatchFinish,
            request, hsem, flash, cpu2
  <2>19. CASE TryStepReturns
      BY <2>19, <2>1, <2>2, <2>3, <2>4, <2>5, <2>6
      DEF TypeOK, ContinuationInv, OneContinuation, Masked, TryStepReturns,
            request, hsem, flash, cpu2
  <2>20. CASE TryStepBegins
      BY <2>20, <2>1, <2>2, <2>3, <2>4, <2>5, <2>6
      DEF TypeOK, ContinuationInv, OneContinuation, Masked, TryStepBegins,
            ReportEraseActivity, request, hsem, flash, cpu2
  <2>21. CASE LockOutCpu2
      BY <2>21, <2>1, <2>2, <2>3, <2>4, <2>5, <2>6
      DEF TypeOK, ContinuationInv, OneContinuation, Masked, LockOutCpu2,
            request, hsem, flash, cpu2
  <2>22. CASE LockRefused
      BY <2>22, <2>1, <2>2, <2>3, <2>4, <2>5, <2>6
      DEF TypeOK, ContinuationInv, OneContinuation, Masked, LockRefused,
            request, hsem, flash, cpu2
  <2>23. CASE Unlock
      BY <2>23, <2>1, <2>2, <2>3, <2>4, <2>5, <2>6
      DEF TypeOK, ContinuationInv, OneContinuation, Masked, Unlock, request,
            hsem, flash, cpu2
  <2>24. CASE Program
      BY <2>24, <2>1, <2>2, <2>3, <2>4, <2>5, <2>6
      DEF TypeOK, ContinuationInv, OneContinuation, Masked, Program, request,
            hsem, flash, cpu2
  <2>25. CASE ProgramDone
      BY <2>25, <2>1, <2>2, <2>3, <2>4, <2>5, <2>6
      DEF TypeOK, ContinuationInv, OneContinuation, Masked, ProgramDone,
            request, hsem, flash, cpu2
  <2>26. CASE Relock
      BY <2>26, <2>1, <2>2, <2>3, <2>4, <2>5, <2>6
      DEF TypeOK, ContinuationInv, OneContinuation, Masked, Relock, request,
            hsem, flash, cpu2
  <2>27. CASE Release
      BY <2>27, <2>1, <2>2, <2>3, <2>4, <2>5, <2>6
      DEF TypeOK, ContinuationInv, OneContinuation, Masked, Release, Advance,
            request, hsem, flash, cpu2
  <2>28. CASE ClearFlag
      BY <2>28, <2>1, <2>2, <2>3, <2>4, <2>5, <2>6
      DEF TypeOK, ContinuationInv, OneContinuation, Masked, ClearFlag,
            request, hsem, flash, cpu2
  <2>29. CASE EnableInterrupt
      BY <2>29, <2>1, <2>2, <2>3, <2>4, <2>5, <2>6
      DEF TypeOK, ContinuationInv, OneContinuation, Masked, EnableInterrupt,
            request, hsem, flash, cpu2
  <2>30. CASE CheckStatus
    <3>0. /\ pc = "check" /\ pc' = "dispatch" /\ stepPending' = stepPending
          /\ onDone' = onDone /\ operation' = operation /\ step' = step
        BY <2>30 DEF CheckStatus, request
    <3>1. pc = "check" /\ (queue' = queue \/ queue' = Append(queue, "TryStep"))
        BY <2>30 DEF CheckStatus
    <3>2. stepPending /\ onDone /\ OneSequel(queue) /\ NoSequel(queue) /\ step = operation
        BY <3>1 DEF ContinuationInv, OneContinuation
    <3>3. queue' \in Seq(Events) /\ OneSequel(queue') /\ NoSequel(queue')
      <4>1. CASE queue' = queue
          BY <2>1, <3>2, <4>1
      <4>2. CASE queue' = Append(queue, "TryStep")
          BY <2>1, <2>5, <2>6, <3>2, <4>2
      <4> QED BY <3>1, <4>1, <4>2
    <3>4. ~Has(queue', "WriteNextDoubleWord") /\ ~Has(queue', "EraseNextSector")
        BY <2>4, <2>5, <3>3
    <3> QED BY <3>0, <3>2, <3>3, <3>4 DEF ContinuationInv, OneContinuation, Masked
  <2>31. CASE HsemInterruptHandler
      BY <2>31, <2>1, <2>2, <2>3, <2>4, <2>5, <2>6
      DEF TypeOK, ContinuationInv, OneContinuation, Masked,
            HsemInterruptHandler, request, hsem, flash, cpu2
  <2>32. CASE EccErrorDetected
      BY <2>32, <2>1, <2>2, <2>3, <2>4, <2>5, <2>6
      DEF TypeOK, ContinuationInv, OneContinuation, Masked, EccErrorDetected,
            request, hsem, flash, cpu2
  <2>33. CASE EccErrorHandler
      BY <2>33, <2>1, <2>2, <2>3, <2>4, <2>5, <2>6
      DEF TypeOK, ContinuationInv, OneContinuation, Masked, EccErrorHandler,
            request, hsem, flash, cpu2
  <2>34. CASE Cpu2Lock
      BY <2>34, <2>1, <2>2, <2>3, <2>4, <2>5, <2>6
      DEF TypeOK, ContinuationInv, OneContinuation, Masked, Cpu2Lock,
            request, hsem, flash, cpu2
  <2>35. CASE Cpu2Release
      BY <2>35, <2>1, <2>2, <2>3, <2>4, <2>5, <2>6
      DEF TypeOK, ContinuationInv, OneContinuation, Masked, Cpu2Release,
            request, hsem, flash, cpu2
  <2>36. CASE UNCHANGED vars
      BY <2>36 DEF TypeOK, ContinuationInv, OneContinuation, Masked, vars,
            request, hsem, flash, cpu2
  <2>37. CASE PageErased
      BY <2>37, <2>1, <2>2, <2>3, <2>4, <2>5, <2>6
      DEF TypeOK, ContinuationInv, OneContinuation, Masked, PageErased,
            LockedAfterErase, request, hsem, flash, cpu2
  <2> QED BY <2>10, <2>11, <2>12, <2>13, <2>14, <2>15, <2>16, <2>17, <2>18,
        <2>19, <2>20, <2>21, <2>22, <2>23, <2>24, <2>25, <2>26, <2>27, <2>28,
        <2>29, <2>30, <2>31, <2>32, <2>33, <2>34, <2>35, <2>36, <2>37
          DEF Next, Client, Boot, Dispatcher, TryStep, Interrupts, Cpu2
<1> QED BY <1>1, <1>2, TypeCorrect, PTL DEF Spec

-----------------------------------------------------------------------------
(* Wake-ups.  Between enabling the interrupt and reading the status, the   *)
(* interrupt is either still enabled or has already scheduled a retry.     *)
WakeupInv ==
    /\ NoLostWakeup
    /\ pc = "check" => hsemEnabled \/ Has(queue, "TryStep")
    /\ stepPending => pc \notin Masked
    /\ pc \in Masked => ~stepPending

(* A step that waits for semaphore 7 always has something left that will   *)
(* try it again, whenever CPU2 releases the semaphore.                     *)
THEOREM WakeupNeverLost == Spec => []WakeupInv
<1>1. Init => WakeupInv
    BY DEF Init, WakeupInv, NoLostWakeup, Masked
<1>2. TypeOK /\ SemaphoreInv /\ WakeupInv /\ [Next]_vars => WakeupInv'
  <2> SUFFICES ASSUME TypeOK, SemaphoreInv, WakeupInv, [Next]_vars
               PROVE  WakeupInv'
      OBVIOUS
  <2>1. queue \in Seq(Events)
      BY DEF TypeOK
  <2>2. queue # <<>> =>
          /\ Tail(queue) \in Seq(Events)
          /\ OneSequel(queue) => OneSequel(Tail(queue))
          /\ NoSequel(queue) => NoSequel(Tail(queue))
          /\ OneSequel(queue) /\ Head(queue) # "TryStep" => NoSequel(Tail(queue))
          /\ \A e \in Events : Has(Tail(queue), e) => Has(queue, e)
          /\ \A e \in Events : Has(queue, e) /\ Head(queue) # e => Has(Tail(queue), e)
      BY <2>1, TailFacts
  <2>3. queue # <<>> => Head(queue) \in Events /\ Has(queue, Head(queue))
      BY <2>1 DEF Has
  <2>4. \A q \in Seq(Events) : \A e \in Events : e # "TryStep" /\ Has(q, e) => ~NoSequel(q)
      BY DEF Has, NoSequel
  <2>5. "TryStep" \in Events /\ "WriteNextDoubleWord" \in Events
        /\ "EraseNextSector" \in Events /\ "Finish" \in Events
      BY DEF Events
  <2>6. \A q \in Seq(Events) : \A e \in Events :
          /\ Append(q, e) \in Seq(Events)
          /\ NoSequel(q) => OneSequel(Append(q, e))
          /\ OneSequel(q) /\ e = "TryStep" => OneSequel(Append(q, e))
          /\ NoSequel(q) /\ e = "TryStep" => NoSequel(Append(q, e))
          /\ NoSequel(Append(q, e)) => NoSequel(q)
          /\ \A f \in Events : Has(Append(q, e), f) <=> Has(q, f) \/ f = e
      BY AppendFacts
  <2>10. ASSUME NEW begin \in 0 .. FlashSize,
               NEW size \in 0 .. (FlashSize - begin), WriteBuffer(begin, size)
        PROVE  WakeupInv'
    <3>1. CASE size = 0
      <4>1. /\ pc = "dispatch" /\ pc' = pc /\ stepPending' = stepPending
            /\ sem7' = sem7 /\ hsemFlag' = hsemFlag /\ hsemEnabled' = hsemEnabled
            /\ wirelessStack' = wirelessStack
          BY <2>10, <3>1 DEF WriteBuffer, WriteNextDoubleWord, Finish, hsem, request
      <4>2. queue' = Append(queue, "Finish")
          BY <2>10, <3>1 DEF WriteBuffer, WriteNextDoubleWord, Finish
      <4>3. Has(queue, "TryStep") => Has(queue', "TryStep")
          BY <2>1, <2>5, <2>6, <4>2
      <4> QED BY <4>1, <4>3 DEF WakeupInv, NoLostWakeup, Masked
    <3>2. CASE ~(size = 0)
      <4>1. pc' = "TryStep"
          BY <2>10, <3>2 DEF WriteBuffer, WriteNextDoubleWord, StepWhenCpu2AllowsFlashAccess
      <4> QED BY <4>1 DEF WakeupInv, NoLostWakeup, Masked
    <3> QED BY <3>1, <3>2
  <2>11. ASSUME NEW begin \in 0 .. NumberOfSectors,
               NEW end \in begin .. NumberOfSectors, EraseSectors(begin, end)
        PROVE  WakeupInv'
    <3>1. CASE begin = end
      <4>1. /\ pc = "dispatch" /\ pc' = pc /\ stepPending' = stepPending
            /\ sem7' = sem7 /\ hsemFlag' = hsemFlag /\ hsemEnabled' = hsemEnabled
            /\ wirelessStack' = wirelessStack
          BY <2>11, <3>1 DEF EraseSectors, EraseNextSector, Finish, hsem, request
      <4>2. queue' = Append(queue, "Finish")
          BY <2>11, <3>1 DEF EraseSectors, EraseNextSector, Finish
      <4>3. Has(queue, "TryStep") => Has(queue', "TryStep")
          BY <2>1, <2>5, <2>6, <4>2
      <4> QED BY <4>1, <4>3 DEF WakeupInv, NoLostWakeup, Masked
    <3>2. CASE ~(begin = end)
      <4>1. pc' = "TryStep"
          BY <2>11, <3>2 DEF EraseSectors, EraseNextSector, StepWhenCpu2AllowsFlashAccess
      <4> QED BY <4>1 DEF WakeupInv, NoLostWakeup, Masked
    <3> QED BY <3>1, <3>2
  <2>12. CASE WirelessStackStarting
      BY <2>12, <2>1, <2>2, <2>5, <2>6
      DEF TypeOK, SemaphoreInv, StepHoldsSemaphore, WakeupInv, NoLostWakeup,
            Masked, WirelessStackStarting, request, hsem, flash, cpu2
  <2>13. CASE WirelessStackReady
      BY <2>13, <2>1, <2>2, <2>5, <2>6
      DEF TypeOK, SemaphoreInv, StepHoldsSemaphore, WakeupInv, NoLostWakeup,
            Masked, WirelessStackReady, request, hsem, flash, cpu2
  <2>14. CASE FirmwareUpgradeServicesReady
      BY <2>14, <2>1, <2>2, <2>5, <2>6
      DEF TypeOK, SemaphoreInv, StepHoldsSemaphore, WakeupInv, NoLostWakeup,
            Masked, FirmwareUpgradeServicesReady, request, hsem, flash, cpu2
  <2>15. CASE DispatchTryStep
      BY <2>15, <2>1, <2>2, <2>5, <2>6
      DEF TypeOK, SemaphoreInv, StepHoldsSemaphore, WakeupInv, NoLostWakeup,
            Masked, DispatchTryStep, request, hsem, flash, cpu2
  <2>16. CASE DispatchWriteNext
    <3>1. CASE remaining = 0
      <4>1. /\ pc = "dispatch" /\ pc' = pc /\ stepPending' = stepPending
            /\ sem7' = sem7 /\ hsemFlag' = hsemFlag /\ hsemEnabled' = hsemEnabled
            /\ wirelessStack' = wirelessStack
          BY <2>16, <3>1 DEF DispatchWriteNext, WriteNextDoubleWord, Finish, hsem, request
      <4>2. queue' = Append(Tail(queue), "Finish")
          BY <2>16, <3>1 DEF DispatchWriteNext, WriteNextDoubleWord, Finish
      <4>3. Has(queue, "TryStep") => Has(queue', "TryStep")
          BY <2>16, <2>1, <2>2, <2>5, <2>6, <4>2 DEF DispatchWriteNext
      <4> QED BY <4>1, <4>3 DEF WakeupInv, NoLostWakeup, Masked
    <3>2. CASE ~(remaining = 0)
      <4>1. pc' = "TryStep"
          BY <2>16, <3>2 DEF DispatchWriteNext, WriteNextDoubleWord, StepWhenCpu2AllowsFlashAccess
      <4> QED BY <4>1 DEF WakeupInv, NoLostWakeup, Masked
    <3> QED BY <3>1, <3>2
  <2>17. CASE DispatchEraseNext
    <3>1. CASE currentSector = endSector
      <4>1. /\ pc = "dispatch" /\ pc' = pc /\ stepPending' = stepPending
            /\ sem7' = sem7 /\ hsemFlag' = hsemFlag /\ hsemEnabled' = hsemEnabled
            /\ wirelessStack' = wirelessStack
          BY <2>17, <3>1 DEF DispatchEraseNext, EraseNextSector, Finish, hsem, request
      <4>2. queue' = Append(Tail(queue), "Finish")
          BY <2>17, <3>1 DEF DispatchEraseNext, EraseNextSector, Finish
      <4>3. Has(queue, "TryStep") => Has(queue', "TryStep")
          BY <2>17, <2>1, <2>2, <2>5, <2>6, <4>2 DEF DispatchEraseNext
      <4> QED BY <4>1, <4>3 DEF WakeupInv, NoLostWakeup, Masked
    <3>2. CASE ~(currentSector = endSector)
      <4>1. pc' = "TryStep"
          BY <2>17, <3>2 DEF DispatchEraseNext, EraseNextSector, StepWhenCpu2AllowsFlashAccess
      <4> QED BY <4>1 DEF WakeupInv, NoLostWakeup, Masked
    <3> QED BY <3>1, <3>2
  <2>18. CASE DispatchFinish
      BY <2>18, <2>1, <2>2, <2>5, <2>6
      DEF TypeOK, SemaphoreInv, StepHoldsSemaphore, WakeupInv, NoLostWakeup,
            Masked, DispatchFinish, request, hsem, flash, cpu2
  <2>19. CASE TryStepReturns
      BY <2>19, <2>1, <2>2, <2>5, <2>6
      DEF TypeOK, SemaphoreInv, StepHoldsSemaphore, WakeupInv, NoLostWakeup,
            Masked, TryStepReturns, request, hsem, flash, cpu2
  <2>20. CASE TryStepBegins
      BY <2>20, <2>1, <2>2, <2>5, <2>6
      DEF TypeOK, SemaphoreInv, StepHoldsSemaphore, WakeupInv, NoLostWakeup,
            Masked, TryStepBegins, ReportEraseActivity, request, hsem, flash,
            cpu2
  <2>21. CASE LockOutCpu2
      BY <2>21, <2>1, <2>2, <2>5, <2>6
      DEF TypeOK, SemaphoreInv, StepHoldsSemaphore, WakeupInv, NoLostWakeup,
            Masked, LockOutCpu2, request, hsem, flash, cpu2
  <2>22. CASE LockRefused
      BY <2>22, <2>1, <2>2, <2>5, <2>6
      DEF TypeOK, SemaphoreInv, StepHoldsSemaphore, WakeupInv, NoLostWakeup,
            Masked, LockRefused, request, hsem, flash, cpu2
  <2>23. CASE Unlock
      BY <2>23, <2>1, <2>2, <2>5, <2>6
      DEF TypeOK, SemaphoreInv, StepHoldsSemaphore, WakeupInv, NoLostWakeup,
            Masked, Unlock, request, hsem, flash, cpu2
  <2>24. CASE Program
      BY <2>24, <2>1, <2>2, <2>5, <2>6
      DEF TypeOK, SemaphoreInv, StepHoldsSemaphore, WakeupInv, NoLostWakeup,
            Masked, Program, request, hsem, flash, cpu2
  <2>25. CASE ProgramDone
      BY <2>25, <2>1, <2>2, <2>5, <2>6
      DEF TypeOK, SemaphoreInv, StepHoldsSemaphore, WakeupInv, NoLostWakeup,
            Masked, ProgramDone, request, hsem, flash, cpu2
  <2>26. CASE Relock
      BY <2>26, <2>1, <2>2, <2>5, <2>6
      DEF TypeOK, SemaphoreInv, StepHoldsSemaphore, WakeupInv, NoLostWakeup,
            Masked, Relock, request, hsem, flash, cpu2
  <2>27. CASE Release
      BY <2>27, <2>1, <2>2, <2>5, <2>6
      DEF TypeOK, SemaphoreInv, StepHoldsSemaphore, WakeupInv, NoLostWakeup,
            Masked, Release, Advance, request, hsem, flash, cpu2
  <2>28. CASE ClearFlag
      BY <2>28, <2>1, <2>2, <2>5, <2>6
      DEF TypeOK, SemaphoreInv, StepHoldsSemaphore, WakeupInv, NoLostWakeup,
            Masked, ClearFlag, request, hsem, flash, cpu2
  <2>29. CASE EnableInterrupt
      BY <2>29, <2>1, <2>2, <2>5, <2>6
      DEF TypeOK, SemaphoreInv, StepHoldsSemaphore, WakeupInv, NoLostWakeup,
            Masked, EnableInterrupt, request, hsem, flash, cpu2
  <2>30. CASE CheckStatus
    <3>1. CASE sem7 = "free"
      <4>1. queue' = Append(queue, "TryStep") /\ pc' = "dispatch"
          BY <2>30, <3>1 DEF CheckStatus
      <4>2. Has(queue', "TryStep")
          BY <2>1, <2>5, <2>6, <4>1
      <4> QED BY <4>1, <4>2 DEF WakeupInv, NoLostWakeup, Masked
    <3>2. CASE sem7 # "free"
      <4>1. /\ pc = "check" /\ pc' = "dispatch" /\ stepPending' = stepPending /\ queue' = queue
            /\ sem7' = sem7 /\ hsemEnabled' = hsemEnabled
          BY <2>30, <3>2 DEF CheckStatus
      <4>2. sem7 = "cpu2"
          BY <3>2, <4>1 DEF TypeOK, SemaphoreInv, StepHoldsSemaphore, Masked
      <4> QED BY <4>1, <4>2 DEF WakeupInv, NoLostWakeup, Masked
    <3> QED BY <3>1, <3>2
  <2>31. CASE HsemInterruptHandler
      BY <2>31, <2>1, <2>2, <2>5, <2>6
      DEF TypeOK, SemaphoreInv, StepHoldsSemaphore, WakeupInv, NoLostWakeup,
            Masked, HsemInterruptHandler, request, hsem, flash, cpu2
  <2>32. CASE EccErrorDetected
      BY <2>32, <2>1, <2>2, <2>5, <2>6
      DEF TypeOK, SemaphoreInv, StepHoldsSemaphore, WakeupInv, NoLostWakeup,
            Masked, EccErrorDetected, request, hsem, flash, cpu2
  <2>33. CASE EccErrorHandler
      BY <2>33, <2>1, <2>2, <2>5, <2>6
      DEF TypeOK, SemaphoreInv, StepHoldsSemaphore, WakeupInv, NoLostWakeup,
            Masked, EccErrorHandler, request, hsem, flash,
            cpu2
  <2>34. CASE Cpu2Lock
      BY <2>34, <2>1, <2>2, <2>5, <2>6
      DEF TypeOK, SemaphoreInv, StepHoldsSemaphore, WakeupInv, NoLostWakeup,
            Masked, Cpu2Lock, request, hsem, flash, cpu2
  <2>35. CASE Cpu2Release
      BY <2>35, <2>1, <2>2, <2>5, <2>6
      DEF TypeOK, SemaphoreInv, StepHoldsSemaphore, WakeupInv, NoLostWakeup,
            Masked, Cpu2Release, request, hsem, flash, cpu2
  <2>36. CASE UNCHANGED vars
      BY <2>36 DEF TypeOK, SemaphoreInv, StepHoldsSemaphore, WakeupInv,
            NoLostWakeup, Masked, vars, request, hsem, flash, cpu2
  <2>37. CASE PageErased
      BY <2>37, <2>1, <2>2, <2>5, <2>6
      DEF TypeOK, SemaphoreInv, StepHoldsSemaphore, WakeupInv, NoLostWakeup,
            Masked, PageErased, LockedAfterErase, request, hsem, flash,
            cpu2
  <2> QED BY <2>10, <2>11, <2>12, <2>13, <2>14, <2>15, <2>16, <2>17, <2>18,
        <2>19, <2>20, <2>21, <2>22, <2>23, <2>24, <2>25, <2>26, <2>27, <2>28,
        <2>29, <2>30, <2>31, <2>32, <2>33, <2>34, <2>35, <2>36, <2>37
          DEF Next, Client, Boot, Dispatcher, TryStep, Interrupts, Cpu2
<1> QED BY <1>1, <1>2, TypeCorrect, SemaphoreHeld, PTL DEF Spec

-----------------------------------------------------------------------------
(* Erase reports.  What CPU1 remembers having reported is what CPU2 was    *)
(* told, and the report is withdrawn before the request is finished.       *)
EraseInv ==
    /\ EraseActivityKnown
    /\ cpu2EraseActivity <=> eraseActivityReported
    /\ Has(queue, "Finish") => ~cpu2EraseActivity
    /\ pc = "lock" /\ operation = "erase" /\ wirelessStack = "running" => cpu2EraseActivity

(* CPU2 knows of an erase for as long as sectors are erased while its      *)
(* stack runs, and of none when no erase is under way.                     *)
THEOREM EraseActivityReported == Spec => []EraseInv
<1>1. Init => EraseInv
    BY DEF Init, EraseInv, EraseActivityKnown, Masked, Has
<1>2. TypeOK /\ ContinuationInv /\ EraseInv /\ [Next]_vars => EraseInv'
  <2> SUFFICES ASSUME TypeOK, ContinuationInv, EraseInv, [Next]_vars
               PROVE  EraseInv'
      OBVIOUS
  <2>1. queue \in Seq(Events)
      BY DEF TypeOK
  <2>2. queue # <<>> =>
          /\ Tail(queue) \in Seq(Events)
          /\ OneSequel(queue) => OneSequel(Tail(queue))
          /\ NoSequel(queue) => NoSequel(Tail(queue))
          /\ OneSequel(queue) /\ Head(queue) # "TryStep" => NoSequel(Tail(queue))
          /\ \A e \in Events : Has(Tail(queue), e) => Has(queue, e)
          /\ \A e \in Events : Has(queue, e) /\ Head(queue) # e => Has(Tail(queue), e)
      BY <2>1, TailFacts
  <2>3. queue # <<>> => Head(queue) \in Events /\ Has(queue, Head(queue))
      BY <2>1 DEF Has
  <2>4. \A q \in Seq(Events) : \A e \in Events : e # "TryStep" /\ Has(q, e) => ~NoSequel(q)
      BY DEF Has, NoSequel
  <2>5. "TryStep" \in Events /\ "WriteNextDoubleWord" \in Events
        /\ "EraseNextSector" \in Events /\ "Finish" \in Events
      BY DEF Events
  <2>6. \A q \in Seq(Events) : \A e \in Events :
          /\ Append(q, e) \in Seq(Events)
          /\ NoSequel(q) => OneSequel(Append(q, e))
          /\ OneSequel(q) /\ e = "TryStep" => OneSequel(Append(q, e))
          /\ NoSequel(q) /\ e = "TryStep" => NoSequel(Append(q, e))
          /\ NoSequel(Append(q, e)) => NoSequel(q)
          /\ \A f \in Events : Has(Append(q, e), f) <=> Has(q, f) \/ f = e
      BY AppendFacts
  <2>10. ASSUME NEW begin \in 0 .. FlashSize,
               NEW size \in 0 .. (FlashSize - begin), WriteBuffer(begin, size)
        PROVE  EraseInv'
      BY <2>10, <2>1, <2>2, <2>3, <2>4, <2>5, <2>6
      DEF TypeOK, ContinuationInv, OneContinuation, EraseInv,
            EraseActivityKnown, Masked, WriteBuffer,
            WriteNextDoubleWord, Finish, StepWhenCpu2AllowsFlashAccess,
            request, hsem, flash, cpu2
  <2>11. ASSUME NEW begin \in 0 .. NumberOfSectors,
               NEW end \in begin .. NumberOfSectors, EraseSectors(begin, end)
        PROVE  EraseInv'
      BY <2>11, <2>1, <2>2, <2>3, <2>4, <2>5, <2>6
      DEF TypeOK, ContinuationInv, OneContinuation, EraseInv,
            EraseActivityKnown, Masked, EraseSectors,
            EraseNextSector, Finish, StepWhenCpu2AllowsFlashAccess, request,
            hsem, flash, cpu2
  <2>12. CASE WirelessStackStarting
      BY <2>12, <2>1, <2>2, <2>3, <2>4, <2>5, <2>6
      DEF TypeOK, ContinuationInv, OneContinuation, EraseInv,
            EraseActivityKnown, Masked, WirelessStackStarting, request, hsem,
            flash, cpu2
  <2>13. CASE WirelessStackReady
      BY <2>13, <2>1, <2>2, <2>3, <2>4, <2>5, <2>6
      DEF TypeOK, ContinuationInv, OneContinuation, EraseInv,
            EraseActivityKnown, Masked, WirelessStackReady, request, hsem,
            flash, cpu2
  <2>14. CASE FirmwareUpgradeServicesReady
      BY <2>14, <2>1, <2>2, <2>3, <2>4, <2>5, <2>6
      DEF TypeOK, ContinuationInv, OneContinuation, EraseInv,
            EraseActivityKnown, Masked, FirmwareUpgradeServicesReady,
            request, hsem, flash, cpu2
  <2>15. CASE DispatchTryStep
      BY <2>15, <2>1, <2>2, <2>3, <2>4, <2>5, <2>6
      DEF TypeOK, ContinuationInv, OneContinuation, EraseInv,
            EraseActivityKnown, Masked, DispatchTryStep, request, hsem,
            flash, cpu2
  <2>16. CASE DispatchWriteNext
      BY <2>16, <2>1, <2>2, <2>3, <2>4, <2>5, <2>6
      DEF TypeOK, ContinuationInv, OneContinuation, EraseInv,
            EraseActivityKnown, Masked, DispatchWriteNext,
            WriteNextDoubleWord, Finish, StepWhenCpu2AllowsFlashAccess,
            request, hsem, flash, cpu2
  <2>17. CASE DispatchEraseNext
      BY <2>17, <2>1, <2>2, <2>3, <2>4, <2>5, <2>6
      DEF TypeOK, ContinuationInv, OneContinuation, EraseInv,
            EraseActivityKnown, Masked, DispatchEraseNext,
            EraseNextSector, Finish, StepWhenCpu2AllowsFlashAccess, request,
            hsem, flash, cpu2
  <2>18. CASE DispatchFinish
      BY <2>18, <2>1, <2>2, <2>3, <2>4, <2>5, <2>6
      DEF TypeOK, ContinuationInv, OneContinuation, EraseInv,
            EraseActivityKnown, Masked, DispatchFinish, request, hsem, flash,
            cpu2
  <2>19. CASE TryStepReturns
      BY <2>19, <2>1, <2>2, <2>3, <2>4, <2>5, <2>6
      DEF TypeOK, ContinuationInv, OneContinuation, EraseInv,
            EraseActivityKnown, Masked, TryStepReturns, request, hsem, flash,
            cpu2
  <2>20. CASE TryStepBegins
      BY <2>20, <2>1, <2>2, <2>3, <2>4, <2>5, <2>6
      DEF TypeOK, ContinuationInv, OneContinuation, EraseInv,
            EraseActivityKnown, Masked, TryStepBegins, ReportEraseActivity,
            request, hsem, flash, cpu2
  <2>21. CASE LockOutCpu2
      BY <2>21, <2>1, <2>2, <2>3, <2>4, <2>5, <2>6
      DEF TypeOK, ContinuationInv, OneContinuation, EraseInv,
            EraseActivityKnown, Masked, LockOutCpu2, request, hsem, flash,
            cpu2
  <2>22. CASE LockRefused
      BY <2>22, <2>1, <2>2, <2>3, <2>4, <2>5, <2>6
      DEF TypeOK, ContinuationInv, OneContinuation, EraseInv,
            EraseActivityKnown, Masked, LockRefused, request, hsem, flash,
            cpu2
  <2>23. CASE Unlock
      BY <2>23, <2>1, <2>2, <2>3, <2>4, <2>5, <2>6
      DEF TypeOK, ContinuationInv, OneContinuation, EraseInv,
            EraseActivityKnown, Masked, Unlock, request, hsem, flash, cpu2
  <2>24. CASE Program
      BY <2>24, <2>1, <2>2, <2>3, <2>4, <2>5, <2>6
      DEF TypeOK, ContinuationInv, OneContinuation, EraseInv,
            EraseActivityKnown, Masked, Program, request, hsem, flash, cpu2
  <2>25. CASE ProgramDone
      BY <2>25, <2>1, <2>2, <2>3, <2>4, <2>5, <2>6
      DEF TypeOK, ContinuationInv, OneContinuation, EraseInv,
            EraseActivityKnown, Masked, ProgramDone, request, hsem, flash,
            cpu2
  <2>26. CASE Relock
      BY <2>26, <2>1, <2>2, <2>3, <2>4, <2>5, <2>6
      DEF TypeOK, ContinuationInv, OneContinuation, EraseInv,
            EraseActivityKnown, Masked, Relock, request, hsem, flash, cpu2
  <2>27. CASE Release
      BY <2>27, <2>1, <2>2, <2>3, <2>4, <2>5, <2>6
      DEF TypeOK, ContinuationInv, OneContinuation, EraseInv,
            EraseActivityKnown, Masked, Release, Advance, request, hsem,
            flash, cpu2
  <2>28. CASE ClearFlag
      BY <2>28, <2>1, <2>2, <2>3, <2>4, <2>5, <2>6
      DEF TypeOK, ContinuationInv, OneContinuation, EraseInv,
            EraseActivityKnown, Masked, ClearFlag, request, hsem, flash, cpu2
  <2>29. CASE EnableInterrupt
      BY <2>29, <2>1, <2>2, <2>3, <2>4, <2>5, <2>6
      DEF TypeOK, ContinuationInv, OneContinuation, EraseInv,
            EraseActivityKnown, Masked, EnableInterrupt, request, hsem,
            flash, cpu2
  <2>30. CASE CheckStatus
      BY <2>30, <2>1, <2>2, <2>3, <2>4, <2>5, <2>6
      DEF TypeOK, ContinuationInv, OneContinuation, EraseInv,
            EraseActivityKnown, Masked, CheckStatus, request, hsem, flash,
            cpu2
  <2>31. CASE HsemInterruptHandler
      BY <2>31, <2>1, <2>2, <2>3, <2>4, <2>5, <2>6
      DEF TypeOK, ContinuationInv, OneContinuation, EraseInv,
            EraseActivityKnown, Masked, HsemInterruptHandler, request, hsem,
            flash, cpu2
  <2>32. CASE EccErrorDetected
      BY <2>32, <2>1, <2>2, <2>3, <2>4, <2>5, <2>6
      DEF TypeOK, ContinuationInv, OneContinuation, EraseInv,
            EraseActivityKnown, Masked, EccErrorDetected, request, hsem,
            flash, cpu2
  <2>33. CASE EccErrorHandler
      BY <2>33, <2>1, <2>2, <2>3, <2>4, <2>5, <2>6
      DEF TypeOK, ContinuationInv, OneContinuation, EraseInv,
            EraseActivityKnown, Masked, EccErrorHandler, request, hsem, flash, cpu2
  <2>34. CASE Cpu2Lock
      BY <2>34, <2>1, <2>2, <2>3, <2>4, <2>5, <2>6
      DEF TypeOK, ContinuationInv, OneContinuation, EraseInv,
            EraseActivityKnown, Masked, Cpu2Lock, request, hsem, flash, cpu2
  <2>35. CASE Cpu2Release
      BY <2>35, <2>1, <2>2, <2>3, <2>4, <2>5, <2>6
      DEF TypeOK, ContinuationInv, OneContinuation, EraseInv,
            EraseActivityKnown, Masked, Cpu2Release, request, hsem, flash,
            cpu2
  <2>36. CASE UNCHANGED vars
      BY <2>36 DEF TypeOK, ContinuationInv, OneContinuation, EraseInv,
            EraseActivityKnown, Masked, vars, request, hsem, flash, cpu2
  <2>37. CASE PageErased
      BY <2>37, <2>1, <2>2, <2>3, <2>4, <2>5, <2>6
      DEF TypeOK, ContinuationInv, OneContinuation, EraseInv,
            EraseActivityKnown, Masked, PageErased, LockedAfterErase,
            request, hsem, flash, cpu2
  <2> QED BY <2>10, <2>11, <2>12, <2>13, <2>14, <2>15, <2>16, <2>17, <2>18,
        <2>19, <2>20, <2>21, <2>22, <2>23, <2>24, <2>25, <2>26, <2>27, <2>28,
        <2>29, <2>30, <2>31, <2>32, <2>33, <2>34, <2>35, <2>36, <2>37
          DEF Next, Client, Boot, Dispatcher, TryStep, Interrupts, Cpu2
<1> QED BY <1>1, <1>2, TypeCorrect, ContinuationUnique, PTL DEF Spec

-----------------------------------------------------------------------------
(* While CPU2 boots, TryStep is never past its first test.                 *)
StartingInv ==
    wirelessStack = "starting" => pc \notin Masked \cup {"lock"}

(* TryStep returns at once while CPU2 boots, and CPU2 is never reported to  *)
(* boot in the middle of an attempt.                                       *)
THEOREM StartingReturns == Spec => []StartingInv
<1>1. Init => StartingInv
    BY DEF Init, StartingInv, Masked
<1>2. TypeOK /\ StartingInv /\ [Next]_vars => StartingInv'
  <2> SUFFICES ASSUME TypeOK, StartingInv, [Next]_vars
               PROVE  StartingInv'
      OBVIOUS
  <2>10. ASSUME NEW begin \in 0 .. FlashSize,
               NEW size \in 0 .. (FlashSize - begin), WriteBuffer(begin, size)
        PROVE  StartingInv'
      BY <2>10
      DEF TypeOK, StartingInv, Masked, WriteBuffer,
            WriteNextDoubleWord, Finish, StepWhenCpu2AllowsFlashAccess,
            request, hsem, flash, cpu2
  <2>11. ASSUME NEW begin \in 0 .. NumberOfSectors,
               NEW end \in begin .. NumberOfSectors, EraseSectors(begin, end)
        PROVE  StartingInv'
      BY <2>11
      DEF TypeOK, StartingInv, Masked, EraseSectors,
            EraseNextSector, Finish, StepWhenCpu2AllowsFlashAccess, request,
            hsem, flash, cpu2
  <2>12. CASE WirelessStackStarting
      BY <2>12
      DEF TypeOK, StartingInv, Masked, WirelessStackStarting, request, hsem,
            flash, cpu2
  <2>13. CASE WirelessStackReady
      BY <2>13
      DEF TypeOK, StartingInv, Masked, WirelessStackReady, request, hsem,
            flash, cpu2
  <2>14. CASE FirmwareUpgradeServicesReady
      BY <2>14
      DEF TypeOK, StartingInv, Masked, FirmwareUpgradeServicesReady, request,
            hsem, flash, cpu2
  <2>15. CASE DispatchTryStep
      BY <2>15
      DEF TypeOK, StartingInv, Masked, DispatchTryStep, request, hsem, flash,
            cpu2
  <2>16. CASE DispatchWriteNext
      BY <2>16
      DEF TypeOK, StartingInv, Masked, DispatchWriteNext,
            WriteNextDoubleWord, Finish, StepWhenCpu2AllowsFlashAccess,
            request, hsem, flash, cpu2
  <2>17. CASE DispatchEraseNext
      BY <2>17
      DEF TypeOK, StartingInv, Masked, DispatchEraseNext,
            EraseNextSector, Finish, StepWhenCpu2AllowsFlashAccess, request,
            hsem, flash, cpu2
  <2>18. CASE DispatchFinish
      BY <2>18
      DEF TypeOK, StartingInv, Masked, DispatchFinish, request, hsem, flash,
            cpu2
  <2>19. CASE TryStepReturns
      BY <2>19
      DEF TypeOK, StartingInv, Masked, TryStepReturns, request, hsem, flash,
            cpu2
  <2>20. CASE TryStepBegins
      BY <2>20
      DEF TypeOK, StartingInv, Masked, TryStepBegins, ReportEraseActivity,
            request, hsem, flash, cpu2
  <2>21. CASE LockOutCpu2
      BY <2>21
      DEF TypeOK, StartingInv, Masked, LockOutCpu2, request, hsem, flash, cpu2
  <2>22. CASE LockRefused
      BY <2>22
      DEF TypeOK, StartingInv, Masked, LockRefused, request, hsem, flash, cpu2
  <2>23. CASE Unlock
      BY <2>23
      DEF TypeOK, StartingInv, Masked, Unlock, request, hsem, flash, cpu2
  <2>24. CASE Program
      BY <2>24
      DEF TypeOK, StartingInv, Masked, Program, request, hsem, flash, cpu2
  <2>25. CASE ProgramDone
      BY <2>25
      DEF TypeOK, StartingInv, Masked, ProgramDone, request, hsem, flash, cpu2
  <2>26. CASE Relock
      BY <2>26
      DEF TypeOK, StartingInv, Masked, Relock, request, hsem, flash, cpu2
  <2>27. CASE Release
      BY <2>27
      DEF TypeOK, StartingInv, Masked, Release, Advance, request, hsem,
            flash, cpu2
  <2>28. CASE ClearFlag
      BY <2>28
      DEF TypeOK, StartingInv, Masked, ClearFlag, request, hsem, flash, cpu2
  <2>29. CASE EnableInterrupt
      BY <2>29
      DEF TypeOK, StartingInv, Masked, EnableInterrupt, request, hsem, flash,
            cpu2
  <2>30. CASE CheckStatus
      BY <2>30
      DEF TypeOK, StartingInv, Masked, CheckStatus, request, hsem, flash, cpu2
  <2>31. CASE HsemInterruptHandler
      BY <2>31
      DEF TypeOK, StartingInv, Masked, HsemInterruptHandler, request, hsem,
            flash, cpu2
  <2>32. CASE EccErrorDetected
      BY <2>32
      DEF TypeOK, StartingInv, Masked, EccErrorDetected, request, hsem,
            flash, cpu2
  <2>33. CASE EccErrorHandler
      BY <2>33
      DEF TypeOK, StartingInv, Masked, EccErrorHandler, request, hsem, flash, cpu2
  <2>34. CASE Cpu2Lock
      BY <2>34
      DEF TypeOK, StartingInv, Masked, Cpu2Lock, request, hsem, flash, cpu2
  <2>35. CASE Cpu2Release
      BY <2>35
      DEF TypeOK, StartingInv, Masked, Cpu2Release, request, hsem, flash, cpu2
  <2>36. CASE UNCHANGED vars
      BY <2>36 DEF TypeOK, StartingInv, Masked, vars, request, hsem, flash,
            cpu2
  <2>37. CASE PageErased
      BY <2>37
      DEF TypeOK, StartingInv, Masked, PageErased, LockedAfterErase,
            request, hsem, flash, cpu2
  <2> QED BY <2>10, <2>11, <2>12, <2>13, <2>14, <2>15, <2>16, <2>17, <2>18,
        <2>19, <2>20, <2>21, <2>22, <2>23, <2>24, <2>25, <2>26, <2>27, <2>28,
        <2>29, <2>30, <2>31, <2>32, <2>33, <2>34, <2>35, <2>36, <2>37
          DEF Next, Client, Boot, Dispatcher, TryStep, Interrupts, Cpu2
<1> QED BY <1>1, <1>2, TypeCorrect, PTL DEF Spec

-----------------------------------------------------------------------------
(* A pending step, and the piece it becomes, is of a request of which      *)
(* something is left; the event that finishes a request is queued when     *)
(* nothing is, and alone.                                                  *)
RefinementInv ==
    /\ operation = "erase" => currentSector <= endSector
    /\ stepPending \/ pc \in Masked =>
           IF operation = "write" THEN remaining > 0 ELSE currentSector < endSector
    /\ Has(queue, "Finish") =>
           IF operation = "write" THEN remaining = 0 ELSE currentSector = endSector
    /\ pc \in Masked => ~Has(queue, "Finish")

(* No piece is begun when nothing is left, and no request is finished      *)
(* before everything is done.                                              *)
THEOREM RequestCarried == Spec => []RefinementInv
<1>1. Init => RefinementInv
    BY DEF Init, RefinementInv, Masked, Has
<1>2. TypeOK /\ ContinuationInv /\ RefinementInv /\ [Next]_vars => RefinementInv'
  <2> SUFFICES ASSUME TypeOK, ContinuationInv, RefinementInv, [Next]_vars
               PROVE  RefinementInv'
      OBVIOUS
  <2>1. queue \in Seq(Events)
      BY DEF TypeOK
  <2>2. queue # <<>> =>
          /\ Tail(queue) \in Seq(Events)
          /\ OneSequel(queue) => OneSequel(Tail(queue))
          /\ NoSequel(queue) => NoSequel(Tail(queue))
          /\ OneSequel(queue) /\ Head(queue) # "TryStep" => NoSequel(Tail(queue))
          /\ \A e \in Events : Has(Tail(queue), e) => Has(queue, e)
          /\ \A e \in Events : Has(queue, e) /\ Head(queue) # e => Has(Tail(queue), e)
      BY <2>1, TailFacts
  <2>3. queue # <<>> => Head(queue) \in Events /\ Has(queue, Head(queue))
      BY <2>1 DEF Has
  <2>4. \A q \in Seq(Events) : \A e \in Events : e # "TryStep" /\ Has(q, e) => ~NoSequel(q)
      BY DEF Has, NoSequel
  <2>5. "TryStep" \in Events /\ "WriteNextDoubleWord" \in Events
        /\ "EraseNextSector" \in Events /\ "Finish" \in Events
      BY DEF Events
  <2>6. \A q \in Seq(Events) : \A e \in Events :
          /\ Append(q, e) \in Seq(Events)
          /\ NoSequel(q) => OneSequel(Append(q, e))
          /\ OneSequel(q) /\ e = "TryStep" => OneSequel(Append(q, e))
          /\ NoSequel(q) /\ e = "TryStep" => NoSequel(Append(q, e))
          /\ NoSequel(Append(q, e)) => NoSequel(q)
          /\ \A f \in Events : Has(Append(q, e), f) <=> Has(q, f) \/ f = e
      BY AppendFacts
  <2>10. ASSUME NEW begin \in 0 .. FlashSize,
               NEW size \in 0 .. (FlashSize - begin), WriteBuffer(begin, size)
        PROVE  RefinementInv'
      BY <2>10, <2>1, <2>2, <2>3, <2>4, <2>5, <2>6
      DEF TypeOK, ContinuationInv, OneContinuation, RefinementInv,
            Masked, WriteBuffer,
            WriteNextDoubleWord, Finish, StepWhenCpu2AllowsFlashAccess,
            request, hsem, flash, cpu2
  <2>11. ASSUME NEW begin \in 0 .. NumberOfSectors,
               NEW end \in begin .. NumberOfSectors, EraseSectors(begin, end)
        PROVE  RefinementInv'
      BY <2>11, <2>1, <2>2, <2>3, <2>4, <2>5, <2>6
      DEF TypeOK, ContinuationInv, OneContinuation, RefinementInv,
            Masked, EraseSectors,
            EraseNextSector, Finish, StepWhenCpu2AllowsFlashAccess, request,
            hsem, flash, cpu2
  <2>12. CASE WirelessStackStarting
      BY <2>12, <2>1, <2>2, <2>3, <2>4, <2>5, <2>6
      DEF TypeOK, ContinuationInv, OneContinuation, RefinementInv,
            Masked, WirelessStackStarting, request, hsem,
            flash, cpu2
  <2>13. CASE WirelessStackReady
      BY <2>13, <2>1, <2>2, <2>3, <2>4, <2>5, <2>6
      DEF TypeOK, ContinuationInv, OneContinuation, RefinementInv,
            Masked, WirelessStackReady, request, hsem,
            flash, cpu2
  <2>14. CASE FirmwareUpgradeServicesReady
      BY <2>14, <2>1, <2>2, <2>3, <2>4, <2>5, <2>6
      DEF TypeOK, ContinuationInv, OneContinuation, RefinementInv,
            Masked, FirmwareUpgradeServicesReady,
            request, hsem, flash, cpu2
  <2>15. CASE DispatchTryStep
      BY <2>15, <2>1, <2>2, <2>3, <2>4, <2>5, <2>6
      DEF TypeOK, ContinuationInv, OneContinuation, RefinementInv,
            Masked, DispatchTryStep, request, hsem,
            flash, cpu2
  <2>16. CASE DispatchWriteNext
    <3>1. /\ pc = "dispatch" /\ queue # <<>> /\ Head(queue) = "WriteNextDoubleWord"
          /\ operation' = operation /\ operation = "write"
          /\ remaining' = remaining /\ currentSector' = currentSector /\ endSector' = endSector
        BY <2>16, <2>3 DEF DispatchWriteNext, ContinuationInv, request
    <3>2. ~stepPending /\ Tail(queue) \in Seq(Events) /\ NoSequel(Tail(queue))
        BY <2>2, <2>3, <2>4, <2>1, <3>1 DEF ContinuationInv, OneContinuation
    <3>3. ~Has(Tail(queue), "Finish")
        BY <2>4, <2>5, <3>2
    <3>4. CASE remaining = 0
      <4>1. queue' = Append(Tail(queue), "Finish") /\ pc' = pc /\ stepPending' = stepPending
          BY <2>16, <3>4 DEF DispatchWriteNext, WriteNextDoubleWord, Finish
      <4> QED BY <3>1, <3>2, <3>4, <4>1 DEF RefinementInv, Masked
    <3>5. CASE ~(remaining = 0)
      <4>1. queue' = Tail(queue) /\ pc' = "TryStep" /\ stepPending'
          BY <2>16, <3>5 DEF DispatchWriteNext, WriteNextDoubleWord, StepWhenCpu2AllowsFlashAccess
      <4> QED BY <3>1, <3>3, <3>5, <4>1 DEF TypeOK, RefinementInv, Masked
    <3> QED BY <3>4, <3>5
  <2>17. CASE DispatchEraseNext
    <3>1. /\ pc = "dispatch" /\ queue # <<>> /\ Head(queue) = "EraseNextSector"
          /\ operation' = operation /\ operation = "erase"
          /\ remaining' = remaining /\ currentSector' = currentSector /\ endSector' = endSector
        BY <2>17, <2>3 DEF DispatchEraseNext, ContinuationInv, request
    <3>2. ~stepPending /\ Tail(queue) \in Seq(Events) /\ NoSequel(Tail(queue))
        BY <2>2, <2>3, <2>4, <2>1, <3>1 DEF ContinuationInv, OneContinuation
    <3>3. ~Has(Tail(queue), "Finish")
        BY <2>4, <2>5, <3>2
    <3>4. CASE currentSector = endSector
      <4>1. queue' = Append(Tail(queue), "Finish") /\ pc' = pc /\ stepPending' = stepPending
          BY <2>17, <3>4 DEF DispatchEraseNext, EraseNextSector, Finish
      <4> QED BY <3>1, <3>2, <3>4, <4>1 DEF RefinementInv, Masked
    <3>5. CASE ~(currentSector = endSector)
      <4>1. queue' = Tail(queue) /\ pc' = "TryStep" /\ stepPending'
          BY <2>17, <3>5 DEF DispatchEraseNext, EraseNextSector, StepWhenCpu2AllowsFlashAccess
      <4> QED BY <3>1, <3>3, <3>5, <4>1 DEF TypeOK, RefinementInv, Masked
    <3> QED BY <3>4, <3>5
  <2>18. CASE DispatchFinish
      BY <2>18, <2>1, <2>2, <2>3, <2>4, <2>5, <2>6
      DEF TypeOK, ContinuationInv, OneContinuation, RefinementInv,
            Masked, DispatchFinish, request, hsem, flash,
            cpu2
  <2>19. CASE TryStepReturns
      BY <2>19, <2>1, <2>2, <2>3, <2>4, <2>5, <2>6
      DEF TypeOK, ContinuationInv, OneContinuation, RefinementInv,
            Masked, TryStepReturns, request, hsem, flash,
            cpu2
  <2>20. CASE TryStepBegins
      BY <2>20, <2>1, <2>2, <2>3, <2>4, <2>5, <2>6
      DEF TypeOK, ContinuationInv, OneContinuation, RefinementInv,
            Masked, TryStepBegins, ReportEraseActivity,
            request, hsem, flash, cpu2
  <2>21. CASE LockOutCpu2
      BY <2>21, <2>1, <2>2, <2>3, <2>4, <2>5, <2>6
      DEF TypeOK, ContinuationInv, OneContinuation, RefinementInv,
            Masked, LockOutCpu2, request, hsem, flash,
            cpu2
  <2>22. CASE LockRefused
      BY <2>22, <2>1, <2>2, <2>3, <2>4, <2>5, <2>6
      DEF TypeOK, ContinuationInv, OneContinuation, RefinementInv,
            Masked, LockRefused, request, hsem, flash,
            cpu2
  <2>23. CASE Unlock
      BY <2>23, <2>1, <2>2, <2>3, <2>4, <2>5, <2>6
      DEF TypeOK, ContinuationInv, OneContinuation, RefinementInv,
            Masked, Unlock, request, hsem, flash, cpu2
  <2>24. CASE Program
      BY <2>24, <2>1, <2>2, <2>3, <2>4, <2>5, <2>6
      DEF TypeOK, ContinuationInv, OneContinuation, RefinementInv,
            Masked, Program, request, hsem, flash, cpu2
  <2>25. CASE ProgramDone
      BY <2>25, <2>1, <2>2, <2>3, <2>4, <2>5, <2>6
      DEF TypeOK, ContinuationInv, OneContinuation, RefinementInv,
            Masked, ProgramDone, request, hsem, flash,
            cpu2
  <2>26. CASE Relock
      BY <2>26, <2>1, <2>2, <2>3, <2>4, <2>5, <2>6
      DEF TypeOK, ContinuationInv, OneContinuation, RefinementInv,
            Masked, Relock, request, hsem, flash, cpu2
  <2>27. CASE Release
      BY <2>27, <2>1, <2>2, <2>3, <2>4, <2>5, <2>6
      DEF TypeOK, ContinuationInv, OneContinuation, RefinementInv,
            Masked, Release, Advance, request, hsem,
            flash, cpu2
  <2>28. CASE ClearFlag
      BY <2>28, <2>1, <2>2, <2>3, <2>4, <2>5, <2>6
      DEF TypeOK, ContinuationInv, OneContinuation, RefinementInv,
            Masked, ClearFlag, request, hsem, flash, cpu2
  <2>29. CASE EnableInterrupt
      BY <2>29, <2>1, <2>2, <2>3, <2>4, <2>5, <2>6
      DEF TypeOK, ContinuationInv, OneContinuation, RefinementInv,
            Masked, EnableInterrupt, request, hsem,
            flash, cpu2
  <2>30. CASE CheckStatus
    <3>1. /\ queue' = queue \/ queue' = Append(queue, "TryStep")
          /\ UNCHANGED <<operation, currentSector, endSector, stepPending, remaining>>
          /\ pc' = "dispatch" /\ pc = "check"
        BY <2>30 DEF CheckStatus, request, flash
    <3>2. Has(queue', "Finish") => Has(queue, "Finish")
      <4>1. CASE queue' = queue
          BY <4>1
      <4>2. CASE queue' = Append(queue, "TryStep")
        <5>1. Has(Append(queue, "TryStep"), "Finish") <=> Has(queue, "Finish") \/ "Finish" = "TryStep"
            BY <2>1, <2>5, <2>6
        <5> QED BY <4>2, <5>1
      <4> QED BY <3>1, <4>1, <4>2
    <3> QED BY <3>1, <3>2 DEF RefinementInv, Masked
  <2>31. CASE HsemInterruptHandler
      BY <2>31, <2>1, <2>2, <2>3, <2>4, <2>5, <2>6
      DEF TypeOK, ContinuationInv, OneContinuation, RefinementInv,
            Masked, HsemInterruptHandler, request, hsem,
            flash, cpu2
  <2>32. CASE EccErrorDetected
      BY <2>32, <2>1, <2>2, <2>3, <2>4, <2>5, <2>6
      DEF TypeOK, ContinuationInv, OneContinuation, RefinementInv,
            Masked, EccErrorDetected, request, hsem,
            flash, cpu2
  <2>33. CASE EccErrorHandler
      BY <2>33, <2>1, <2>2, <2>3, <2>4, <2>5, <2>6
      DEF TypeOK, ContinuationInv, OneContinuation, RefinementInv,
            Masked, EccErrorHandler, request, hsem, flash, cpu2
  <2>34. CASE Cpu2Lock
      BY <2>34, <2>1, <2>2, <2>3, <2>4, <2>5, <2>6
      DEF TypeOK, ContinuationInv, OneContinuation, RefinementInv,
            Masked, Cpu2Lock, request, hsem, flash, cpu2
  <2>35. CASE Cpu2Release
      BY <2>35, <2>1, <2>2, <2>3, <2>4, <2>5, <2>6
      DEF TypeOK, ContinuationInv, OneContinuation, RefinementInv,
            Masked, Cpu2Release, request, hsem, flash,
            cpu2
  <2>36. CASE UNCHANGED vars
      BY <2>36 DEF TypeOK, ContinuationInv, OneContinuation, RefinementInv,
            Masked, vars, request, hsem, flash, cpu2
  <2>37. CASE PageErased
      BY <2>37, <2>1, <2>2, <2>3, <2>4, <2>5, <2>6
      DEF TypeOK, ContinuationInv, OneContinuation, RefinementInv,
            Masked, PageErased, LockedAfterErase,
            request, hsem, flash, cpu2
  <2> QED BY <2>10, <2>11, <2>12, <2>13, <2>14, <2>15, <2>16, <2>17, <2>18,
        <2>19, <2>20, <2>21, <2>22, <2>23, <2>24, <2>25, <2>26, <2>27, <2>28,
        <2>29, <2>30, <2>31, <2>32, <2>33, <2>34, <2>35, <2>36, <2>37
          DEF Next, Client, Boot, Dispatcher, TryStep, Interrupts, Cpu2
<1> QED BY <1>1, <1>2, TypeCorrect, ContinuationUnique, PTL DEF Spec

(* A piece that fits in the rest of a double word ends in that double word. *)
LEMMA SameDoubleWord ==
    ASSUME NEW first \in Nat, NEW size \in Nat \ {0},
           size <= DoubleWordSize - (first % DoubleWordSize)
    PROVE  (first + size - 1) \div DoubleWordSize = first \div DoubleWordSize
<1> DEFINE doubleWord == first \div DoubleWordSize
<1>1. /\ doubleWord \in Nat
      /\ first = DoubleWordSize * doubleWord + (first % DoubleWordSize)
      /\ first % DoubleWordSize \in 0 .. DoubleWordSize - 1
    BY DoubleWordSizeAssumption, Z3T(30)
<1>2. first + size - 1 \in
          (DoubleWordSize * doubleWord) .. (DoubleWordSize * doubleWord + DoubleWordSize - 1)
    BY <1>1, DoubleWordSizeAssumption
<1> QED BY <1>1, <1>2, DoubleWordSizeAssumption, Z3T(30)

(* Every request is carried out in order, one double word or sector at a   *)
(* time, and reported done once after the last: what hal::Flash promises.  *)
THEOREM ImplementsFlashService == Spec => ImplementsFlash
<1>1. Init => Service!Init
    BY DEF Init, Service!Init
<1>2. TypeOK /\ ContinuationInv /\ RefinementInv /\ [Next]_vars => [Service!Next]_(Service!vars)
  <2> SUFFICES ASSUME TypeOK, ContinuationInv, RefinementInv, [Next]_vars
               PROVE  [Service!Next]_(Service!vars)
      OBVIOUS
  <2>1. UNCHANGED request => UNCHANGED Service!vars
      BY DEF request, Service!vars
  <2>2. ASSUME NEW begin \in 0 .. FlashSize,
               NEW size \in 0 .. (FlashSize - begin), WriteBuffer(begin, size)
        PROVE  Service!Next
    <3>1. Service!Request("write", begin, begin + size)
        BY <2>2 DEF WriteBuffer, Service!Request
    <3>2. begin \in 0 .. Service!Limit("write") /\ begin + size \in begin .. Service!Limit("write")
        BY FlashSizeAssumption DEF Service!Limit
    <3> QED BY <3>1, <3>2 DEF Service!Next
  <2>3. ASSUME NEW begin \in 0 .. NumberOfSectors,
               NEW end \in begin .. NumberOfSectors, EraseSectors(begin, end)
        PROVE  Service!Next
    <3>1. Service!Request("erase", begin, end)
        BY <2>3 DEF EraseSectors, Service!Request
    <3>2. begin \in 0 .. Service!Limit("erase") /\ end \in begin .. Service!Limit("erase")
        BY NumberOfSectorsAssumption DEF Service!Limit
    <3> QED BY <3>1, <3>2 DEF Service!Next
  <2>4. CASE DispatchFinish
    <3>1. Has(queue, "Finish") /\ ~NoSequel(queue)
      <4>1. queue \in Seq(Events) /\ queue # <<>> /\ Head(queue) = "Finish"
          BY <2>4 DEF DispatchFinish, TypeOK
      <4>2. 1 \in DOMAIN queue /\ queue[1] = "Finish"
          BY <4>1
      <4> QED BY <4>2 DEF Has, NoSequel
    <3>2. onDone
        BY <3>1 DEF ContinuationInv, OneContinuation
    <3>3. /\ ~onDone' /\ operation' = operation /\ remaining' = remaining /\ address' = address
          /\ currentSector' = currentSector /\ endSector' = endSector
        BY <2>4 DEF DispatchFinish
    <3>4. Service!Done
        BY <3>1, <3>2, <3>3 DEF TypeOK, RefinementInv, Service!Done
    <3> QED BY <3>4 DEF Service!Next
  <2>5. CASE Release
    <3>1. /\ pc \in Masked /\ onDone /\ step = operation
          /\ onDone' = onDone /\ operation' = operation /\ endSector' = endSector
        BY <2>5 DEF Release, Masked, ContinuationInv, OneContinuation
    <3>2. CASE operation = "write"
      <4>1. /\ remaining \in Nat \ {0} /\ address \in Nat
            /\ remaining' = remaining - PieceSize /\ address' = address + PieceSize
          BY <2>5, <3>1, <3>2 DEF Release, Advance, TypeOK, RefinementInv
      <4>2. /\ PieceSize \in Nat \ {0} /\ PieceSize <= remaining
            /\ PieceSize <= DoubleWordSize - (address % DoubleWordSize)
        <5>1. address % DoubleWordSize \in 0 .. (DoubleWordSize - 1)
            BY <4>1, DoubleWordSizeAssumption
        <5>2. DoubleWordSize - (address % DoubleWordSize) \in Nat \ {0}
            BY <5>1, DoubleWordSizeAssumption
        <5> QED BY <4>1, <5>2 DEF PieceSize
      <4>3. (address + PieceSize - 1) \div DoubleWordSize = address \div DoubleWordSize
          BY <4>1, <4>2, SameDoubleWord
      <4> HIDE DEF PieceSize
      <4>4. Service!WritePiece
          BY <3>1, <3>2, <4>1, <4>2, <4>3 DEF Service!WritePiece
      <4> QED BY <4>4 DEF Service!Next
    <3>3. CASE operation = "erase"
      <4>1. /\ currentSector \in Nat /\ endSector \in Nat /\ currentSector < endSector
            /\ currentSector' = currentSector + 1
          BY <2>5, <3>1, <3>3 DEF Release, Advance, TypeOK, RefinementInv
      <4>2. Service!ErasePiece
          BY <3>1, <3>3, <4>1 DEF Service!ErasePiece
      <4> QED BY <4>2 DEF Service!Next
    <3> QED BY <3>2, <3>3 DEF TypeOK
  <2>6. CASE \/ Boot \/ DispatchTryStep \/ DispatchWriteNext \/ DispatchEraseNext
             \/ Interrupts \/ Cpu2 \/ UNCHANGED vars
    <3>1. UNCHANGED request
        BY <2>6 DEF Boot, WirelessStackStarting, WirelessStackReady,
           FirmwareUpgradeServicesReady, DispatchTryStep, DispatchWriteNext, DispatchEraseNext,
           Interrupts, HsemInterruptHandler, EccErrorDetected, EccErrorHandler, PageErased,
           Cpu2, Cpu2Lock, Cpu2Release, vars
    <3> QED BY <2>1, <3>1
  <2>7. CASE \/ TryStepReturns \/ TryStepBegins \/ LockOutCpu2 \/ LockRefused \/ Unlock
             \/ Program \/ ProgramDone \/ Relock \/ ClearFlag \/ EnableInterrupt \/ CheckStatus
    <3>1. UNCHANGED request
        BY <2>7 DEF TryStepReturns, TryStepBegins, LockOutCpu2, LockRefused, Unlock, Program,
           ProgramDone, Relock, ClearFlag, EnableInterrupt, CheckStatus
    <3> QED BY <2>1, <3>1
  <2> QED BY <2>2, <2>3, <2>4, <2>5, <2>6, <2>7 DEF Next, Client, Dispatcher, TryStep
<1> QED BY <1>1, <1>2, TypeCorrect, ContinuationUnique, RequestCarried, PTL
    DEF Spec, ImplementsFlash, Service!Spec

-----------------------------------------------------------------------------
(* The properties TLC checks, for every size of the flash.                 *)

(* CPU1 programs and erases for a request only while it holds semaphore 7; *)
(* no other flash operation is under way but the erase of a page.          *)
THEOREM PiecesHoldSemaphore == Spec => []StepHoldsSemaphore
<1>1. SemaphoreInv => StepHoldsSemaphore
    BY DEF SemaphoreInv
<1> QED BY <1>1, SemaphoreHeld, PTL

(* The NMI handler never leaves FLASH_CR locked, or the HAL in use, under  *)
(* a program it interrupted.                                               *)
THEOREM ProgramsFindFlashUnlocked == Spec => []ProgramFindsFlashUnlocked
<1>1. SemaphoreInv => ProgramFindsFlashUnlocked
    BY DEF SemaphoreInv
<1> QED BY <1>1, SemaphoreHeld, PTL

(* No interleaving performs a piece twice or loses what is left. *)
THEOREM ContinuationsUnique == Spec => []OneContinuation
<1>1. ContinuationInv => OneContinuation
    BY DEF ContinuationInv
<1> QED BY <1>1, ContinuationUnique, PTL

(* A release of semaphore 7 is never missed by a step that waits for it. *)
THEOREM WakeupsNeverLost == Spec => []NoLostWakeup
<1>1. WakeupInv => NoLostWakeup
    BY DEF WakeupInv
<1> QED BY <1>1, WakeupNeverLost, PTL

(* SHCI_C2_FLASH_EraseActivity is on exactly when CPU2 has to know. *)
THEOREM EraseActivityAlwaysKnown == Spec => []EraseActivityKnown
<1>1. EraseInv => EraseActivityKnown
    BY DEF EraseInv
<1> QED BY <1>1, EraseActivityReported, PTL

(* No piece is performed while CPU2 boots. *)
THEOREM PiecesHeldWhileStarting == Spec => HeldWhileStarting
<1>1. StartingInv /\ [Next]_vars /\ StartingInv' => [wirelessStack = "starting" => pc' \notin Masked]_vars
  <2> SUFFICES ASSUME StartingInv, Next, StartingInv', wirelessStack = "starting"
               PROVE  pc' \notin Masked
      OBVIOUS
  <2>1. CASE wirelessStack' = "starting"
      BY <2>1 DEF StartingInv
  <2>2. CASE WirelessStackReady \/ FirmwareUpgradeServicesReady
      BY <2>2 DEF WirelessStackReady, FirmwareUpgradeServicesReady, Masked
  <2>3. CASE ~(WirelessStackReady \/ FirmwareUpgradeServicesReady)
    <3>1. wirelessStack' = wirelessStack
        BY <2>3 DEF Next, Client, Boot, Dispatcher, TryStep, Interrupts, Cpu2, WriteBuffer,
           EraseSectors, WirelessStackStarting, DispatchTryStep, DispatchWriteNext,
           DispatchEraseNext, DispatchFinish, TryStepReturns, TryStepBegins, LockOutCpu2,
           LockRefused, Unlock, Program, ProgramDone, Relock, Release, ClearFlag,
           EnableInterrupt, CheckStatus, HsemInterruptHandler, EccErrorDetected,
           EccErrorHandler, PageErased, Cpu2Lock, Cpu2Release
    <3> QED BY <2>1, <3>1
  <2> QED BY <2>1, <2>2, <2>3
<1> QED BY <1>1, StartingReturns, PTL DEF Spec, HeldWhileStarting
=============================================================================
