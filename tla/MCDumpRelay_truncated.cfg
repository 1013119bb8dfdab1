SPECIFICATION Spec
CONSTANTS
    Lines = 3
    PipeSize = 1
    Attempts = 1
    LogFaults = 0
    RelayFaults = 1
INVARIANT CompleteIsComplete
CHECK_DEADLOCK FALSE
