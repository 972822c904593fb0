SPECIFICATION LocksSpec
CONSTANTS
    Procs = {p1, p2, p3}
    NoDir = NoDir
    Leftover = Leftover
    Stuck = TRUE
    MayStall = FALSE
    Flaky = TRUE
    MaxCalls = 3
    Pids = {q1, q2, q3, q4}
    NoFile = NoFile
    MaxTries = 1
    Callers = {c1, c2}
    Names = {n1, n2, n3}
    NoOne = NoOne
    Gone = Gone
    Other = Other
    Wants <- AllWants
    Requests <- TwoRequests
    MaxRequests = 3
    MaxOther = 1
    MaxKills = 1
INVARIANTS
    Responsible
PROPERTIES
    IsAMutex
    CallsEnd
    PidIsAMutex
    StaleFileGoes
    Served
    Recovers
CHECK_DEADLOCK FALSE
