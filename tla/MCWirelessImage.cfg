SPECIFICATION ImageSpec
CONSTANTS
    DoubleWord = 4
    MaxImageSize = 13
INVARIANTS
    ImageTypeOK
    ProgrammedOnceInPlace
CHECK_DEADLOCK FALSE
