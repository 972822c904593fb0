SPECIFICATION HistorySpec
CONSTANTS
    Hosts = {h1, h2}
    Lines = {x, y}
    AnyLine = AnyLine
    SharedStarts = TRUE
    MaxOpens = 2
    MaxRuns = 2
INVARIANT WholeLines
CHECK_DEADLOCK FALSE
