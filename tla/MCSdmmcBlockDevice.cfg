SPECIFICATION Spec
CONSTANTS
    NumberOfBlocks = 3
    MaxBlocksPerTransfer = 2
    MaxPolls = 1
    FirstBlocks = {0, 1, 2, 3, 5}
    MaxBlocks = 3
    MaxOperations = 2
INVARIANTS
    TypeOK
    SuccessIffUndisturbed
PROPERTIES
    ImplementsBlockDevice
    RequestsEnd
CHECK_DEADLOCK FALSE
