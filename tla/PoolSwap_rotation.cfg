SPECIFICATION Spec
CONSTANTS
    NoOne = NoOne
    Healer = Healer
    Procs = {p1, p2}
    Members = {a, b, c}
    Kinds = {"poll", "turn"}
    Edits = 0
    Crashes = 0
    MaxCalls = 3
    MaxTime = 2
    Cooldown = 1
INVARIANTS
    RotatesOnce
