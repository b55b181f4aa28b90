CONSTANTS
    RxBufferSize = 8
    Priorities = {"dma", "none"}
    MaxBytes = 20
    MaxStarts = 2
SPECIFICATION Spec
INVARIANT PositionsAscend
CHECK_DEADLOCK FALSE
