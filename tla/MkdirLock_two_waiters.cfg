SPECIFICATION Spec
CONSTANTS
    Procs = {p1, p2, p3}
    NoDir = NoDir
    Leftover = Leftover
    Stuck = FALSE
    MayStall = FALSE
    Flaky = FALSE
    MaxCalls = 3
INVARIANTS
    Serialised
CHECK_DEADLOCK FALSE
