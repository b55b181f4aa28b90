SPECIFICATION FairSpec
CONSTANTS
    DoubleWordSize = 2
    FlashSize = 4
    NumberOfSectors = 2
    RetryBound = 3
INVARIANTS
    TypeOK
    StepHoldsSemaphore
    ProgramFindsFlashUnlocked
    NoLostWakeup
    EraseActivityKnown
PROPERTIES
    ImplementsFlash
    RequestsComplete
CHECK_DEADLOCK FALSE
