SPECIFICATION Spec
CONSTANTS
    FreesWhenHandled = TRUE
    MaxAttempts = 1
    MaxProcedures = 1
    MaxEvents = 1
INVARIANT L2capResponseAccepted
CHECK_DEADLOCK FALSE
