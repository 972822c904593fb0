SPECIFICATION UndisturbedSpec
CONSTANTS
    m1 = m1
    m2 = m2
    w1 = w1
    w2 = w2
    Members = {m1, m2}
    MemberRank <- Rank
    Pool = pool
    NoOne = NoOne
    Broken = Broken
    Hybrid = Hybrid
    Strangers = {}
    Workers = {w1, w2}
    Sessions = {}
    MaxGen = 1
    MayCrash = FALSE
    MayStall = FALSE
INVARIANTS
    NoCircularWait
