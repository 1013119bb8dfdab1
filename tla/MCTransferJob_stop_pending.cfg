CONSTANTS
    Jobs = {j1}
    Ticks = {}
    Workers = {w1}
    None = None
    MaxDeliveries = 1
    MaxCrashes = 0
SPECIFICATION Spec
PROPERTIES
    StoppedPendingNeverRuns
CHECK_DEADLOCK FALSE
