\* One job of a request and one tick of a schedule's; two processes, two deliveries
\* of a message and one crash.  No symmetry, which liveness does not allow.
CONSTANTS
    Jobs = {j1}
    Ticks = {t1}
    Workers = {w1, w2}
    None = None
    MaxDeliveries = 2
    MaxCrashes = 1
SPECIFICATION FairSpec
INVARIANTS
    TypeOK
    DoneIsDelivered
    RemovedIsDelivered
    RunningIsRevocable
    ToldIsFinal
PROPERTIES
    FinishedNeverRerun
    KeepsOutcome
    RunningEnds
    DispatchedStarts
CHECK_DEADLOCK FALSE
