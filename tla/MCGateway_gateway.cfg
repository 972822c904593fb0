SPECIFICATION FairSpec
CONSTANTS
    Requests = {r1, r2, r3}
    Limit = 3
    Sizes = {1, 2, 5}
    MaxRows = 4
    Capacity = 2
    Batch = 2
    Poison = {2}
    Apps = {a1, a2}
    Warmers = {w1, w2}
    MaxWrites = 2
    Browsers = {b1, b2}
    Sockets = {s1, s2, s3}
    Tools = {k1}
    NoSocket = NoSocket
    MaxFaults = 1
    Pool = {m1, m2}
    NoMember = NoMember
    Calls = {c1, c2}
    LongHold = 1
    MaxWaits = 1
INVARIANTS
    WithinBudget
    BilledOnce
    OwnWritesStay
    WaitsOnTheBound
PROPERTIES
    WaitersAreServed
    DropsHaveAReason
    RowsSettle
    
    
    
    EveryCallEnds
CHECK_DEADLOCK FALSE
