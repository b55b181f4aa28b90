SPECIFICATION Spec
CONSTANTS
    Commands = {"Go"}
    MaxData = 1
    PayloadBytes = {121, 31}
    MaxFaults = 1
INVARIANTS
    NoDoneAfterError
CHECK_DEADLOCK FALSE
