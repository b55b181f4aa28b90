SPECIFICATION FairSpec
CONSTANTS
    Commands = {"GetCommand", "GetId", "ReadMemory", "Go", "WriteMemory", "MassErase", "Erase", "ExtendedMassErase", "ExtendedErase", "Special", "ExtendedSpecial"}
    MaxData = 2
    PayloadBytes = {121, 31}
    MaxFaults = 1
INVARIANTS
    TypeOK
    DoneInStep
    AnsweredIsDone
    QueueHasRoom
PROPERTIES
    CommandsEnd
CHECK_DEADLOCK FALSE
