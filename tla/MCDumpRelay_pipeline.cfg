SPECIFICATION FairSpec
CONSTANTS
    Lines = 3
    PipeSize = 1
    Attempts = 2
    LogFaults = 1
    RelayFaults = 1
INVARIANT TypeOK
INVARIANT DoneIsComplete
PROPERTY Terminates
CHECK_DEADLOCK FALSE
