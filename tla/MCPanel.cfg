\* Two users, two changes of role at a time, one user who saves a profile; one
\* browser with two requests at a time; two callers and a limit of two tokens;
\* two deliveries about transfers and one about a connection on two processes; two
\* checks at a time and two notices of a kind; two edits; two connections, two names
\* and two imports.
CONSTANTS
    Users = {u1, u2}
    Requests = {r1, r2}
    Savers = {u2}
    Roles = {admin, operator, readonly}
    Admin = admin
    Submitted = {admin, operator, readonly, other}
    None = none
    Sessions = {s1}
    Visits = {r1, r2}
    Codes = {c1, c2}
    Threshold = 2
    MaxTries = 2
    MaxFailed = 3
    Nobody = nobody
    Tokens = {t1, t2, t3, t4}
    Callers = {r1, r2}
    Max = 2
    Transfers = {r1, r2}
    Healths = {h1}
    Processes = 2
    CircuitThreshold = 2
    Cooldown = 2
    MaxRetries = 2
    MaxTime = 3
    Checks = {r1, r2}
    MaxNotices = 2
    Edits = {e1, e2}
    Hosts = {x1, x2}
    Ids = {i1, i2}
    Names = {n1, n2}
    Imports = {r1, r2}
    MaxFlows = 1
    Missing = missing
SPECIFICATION PanelSpec
SYMMETRY Symmetry
INVARIANTS
    AccountsTypeOK
    AuditIsHistory
    CodeUsedOnce
    FailuresCounted
    CodesWithFactor
    TokenBound
    ConnectionsTypeOK
    CountIsEarned
    LastWordIsTrue
    AuditIsCurrent
PROPERTIES
    FollowsBreaker
    ImportIsComplete
\* Every request may be over, no more codes, keys or attempts be left, and the
\* notifications come to an end.
CHECK_DEADLOCK FALSE
