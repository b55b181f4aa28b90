SPECIFICATION FlashSpec
CONSTANTS
    BlockSize = 4
    Word = 2
    FlashSize = 12
    NumberOfSectors = 4
    MaxFailures = 1
INVARIANTS
    ReadComplete
CHECK_DEADLOCK FALSE
