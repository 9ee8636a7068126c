SPECIFICATION FairSpec
CONSTANTS
    Proc = {p1, p2}
    Input = {i1, i2}
    None = None
    EditWhileRunning = FALSE
    MaxStarts = 4
    MaxEdits = 2
    MaxKills = 2
INVARIANTS
    CacheBound
    InUseUnchanged
PROPERTIES
    EveryWaitEnds
CHECK_DEADLOCK FALSE
