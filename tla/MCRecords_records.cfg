SPECIFICATION RecordsSpec
CONSTANTS
    NoOne = NoOne
    Healer = Healer
    Procs = {p1, p2}
    Members = {a, b}
    Kinds = {"launch", "poll", "hook", "turn"}
    Edits = 0
    Crashes = 0
    MaxCalls = 3
    MaxTime = 3
    Cooldown = 2
    Hosts = {p1, p2}
    Lines = {x, y}
    AnyLine = AnyLine
    SharedStarts = FALSE
    MaxOpens = 2
    MaxRuns = 2
    Sources = {x, y}
    All = All
    Collectors = {w, k}
    Worker = w
    Ttl = 2
    MinInterval = 1
    ReaderAge = 1
    EndOfTime = 3
    MaxCycles = 2
    MaxUpdates = 1
    MaxDeaths = 1
    Generations = 1
    Paths = {f}
    Computers = {m1, m2}
    Creator = m1
    MaxContents = 3
    MaxInboxes = 3
    MaxOutboxes = 2
    MaxLosses = 1
SYMMETRY Alike
INVARIANTS
    AllAgree
    PollsAreSpaced
    NoStaleDecision
    WholeLines
    NothingTwice
    
    NoChangeForgotten
    BatchIsThere
    CommonWasThere
PROPERTIES
    EditsAreAskedFor
    NewToTheDrive
CHECK_DEADLOCK FALSE
