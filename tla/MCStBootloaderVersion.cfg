SPECIFICATION Spec
CONSTANTS
    Commands = {"GetId", "GetVersion"}
    MaxData = 1
    PayloadBytes = {121, 31}
    MaxFaults = 0
INVARIANTS
    AnsweredIsDone
CHECK_DEADLOCK FALSE
