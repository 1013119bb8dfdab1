\* Two requests of administrators and two ticks of beat; three uploads under two names; three
\* deliveries of a message; two attempts, two files, two tables of which one has
\* rules; rows of two values of up to two characters.
CONSTANTS
    Requests = {r1, r2}
    Ticks = {k1, k2}
    None = none
    Uploads = {u1, u2, u3}
    Names = {n1, n2}
    Runs = {e1, e2, e3}
    MaxAttempts = 2
    Files = {f1, f2}
    BigFiles = {f1}
    Tables = {t1, t2}
    Rules = {t1}
    Engines = {"postgres", "mysql", "mssql"}
    MaxValue = 2
SPECIFICATION WorkSpec
SYMMETRY Symmetry
INVARIANTS
    AllTypeOK
    RowAndTaskAgree
    OffMeansOff
    CreatedIsRun
    SendsOwnUpload
    RunningIsWorked
    DoneIsCopied
    NothingLeftBehind
    ArrivesAsAsked
    DeliversOrStops
    CopiesWholeAndOnce
    MaskedUnlessMisread
PROPERTIES
    NotDoneIsKept
    DbKeepsOutcome
\* Every transfer comes to an end.
CHECK_DEADLOCK FALSE
