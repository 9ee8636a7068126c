SPECIFICATION Spec
CONSTANTS
    Proc = {p1, p2}
    Input = {i1, i2}
    None = None
    EditWhileRunning = TRUE
    MaxStarts = 4
    MaxEdits = 2
    MaxKills = 1
INVARIANTS
    CacheBound
CHECK_DEADLOCK FALSE
