SPECIFICATION FairSpec
CONSTANTS
    FusBeginsInTime = TRUE
    FusErrorCodes = {0, 1}
    IdlePollsBeforeDone = 2
    JournalCapacity = 5
    MaxInterruptions = 3
INVARIANTS
    TypeOK
    OutcomeIsTrue
    ResetsDoNoHarm
PROPERTIES
    ProceduresEnd
CHECK_DEADLOCK FALSE
