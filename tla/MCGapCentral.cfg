SPECIFICATION FairSpec
CONSTANTS
    FreesWhenHandled = TRUE
    MaxAttempts = 2
    MaxProcedures = 1
    MaxEvents = 1
INVARIANTS
    TypeOK
    ToldAsItWas
    ContextMatchesStack
PROPERTIES
    RequestsReported
CHECK_DEADLOCK FALSE
