\* Three notifications on two processes, none of them tried again: a retry comes
\* only after longer than a POST can take.
CONSTANTS
    Transfers = {t1, t2, t3}
    Healths = {}
    Processes = 2
    CircuitThreshold = 2
    Cooldown = 2
    MaxRetries = 0
    MaxTime = 1
SPECIFICATION CircuitSpec
SYMMETRY Symmetry
PROPERTY SuspensionHolds
CHECK_DEADLOCK FALSE
