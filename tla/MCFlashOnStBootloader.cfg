SPECIFICATION FairFlashSpec
CONSTANTS
    BlockSize = 4
    Word = 2
    FlashSize = 12
    NumberOfSectors = 4
    MaxFailures = 1
INVARIANTS
    FlashTypeOK
    DoneExactly
PROPERTIES
    RequestsEnd
CHECK_DEADLOCK FALSE
