CONSTANTS
    RxBufferSize = 8
    Priorities = {"dma", "none"}
    MaxBytes = 20
    MaxStarts = 1
SPECIFICATION FairSpec
INVARIANTS TypeOK BytesInOrder
PROPERTIES SilenceDelivers
CHECK_DEADLOCK FALSE
