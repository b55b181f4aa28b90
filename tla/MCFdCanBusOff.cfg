SPECIFICATION Spec
CONSTANTS
    TxFifoSize = 2
    RxFifoSize = 1
    RxQueueSize = 2
    MaxSends = 2
    MaxFrames = 3
    MaxBusErrors = 2
INVARIANT
    SentIsTransmitted
CHECK_DEADLOCK FALSE
