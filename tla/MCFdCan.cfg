SPECIFICATION Spec
CONSTANTS
    TxFifoSize = 2
    RxFifoSize = 1
    RxQueueSize = 2
    MaxSends = 2
    MaxFrames = 3
    MaxBusErrors = 2
INVARIANTS
    TypeOK
    OutcomeIsOwn
    NothingForgotten
PROPERTIES
    SendsEnd
CHECK_DEADLOCK FALSE
