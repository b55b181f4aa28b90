SPECIFICATION FairSpec
CONSTANTS
    FreesWhenHandled = TRUE
    Room = 3
    PartSize = 2
    MaxResponses = 2
    MaxProcedures = 2
INVARIANTS
    TypeOK
    OwnOutcome
    ReadAsAsked
PROPERTIES
    AcceptedIsReported
CHECK_DEADLOCK FALSE
