SPECIFICATION PoolsSpec
CONSTANTS
    NoOne = NoOne
    Healer = Healer
    Procs = {p1, p2}
    Members = {a, b}
    Kinds = {"hook", "manual"}
    Edits = 1
    Crashes = 1
    MaxCalls = 2
    MaxTime = 0
    Cooldown = 1
    Accounts = {a1, a2}
    PoolDir = PoolDir
    Refreshers = {r1, r2}
    Nobody = Nobody
    Daemon = r1
    Swapper = Swapper
    MaxGrants = 4
    MaxSwaps = 2
    MaxJobs = 1
    MaxCrashes = 0
    Sessions = {s1, s2}
    MaxRefreshes = 1
    MaxChanges = 2
    MaxFailures = 1
    MaxRestarts = 1
INVARIANTS
    OwnLoginsOnly
    
PROPERTIES
    ComeTogether
    CopiesAgree
    NobodyOutlivesTheBreach
    TheGateLearns
CHECK_DEADLOCK FALSE
