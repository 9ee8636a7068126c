CONSTANTS
    a = a mid = mid
    Server = {a, mid, c}
    NoServer = NoServer
    ReplicaOfConf <- Chain
    Dbs = {0}
    BacklogSize = 2
    ForkOutcome = {TRUE, FALSE}
    MaxWrites = 1
    MaxAdmin = 1
    MaxFaults = 1
    MaxRestarts = 0
    MaxSaves = 0
SPECIFICATION FairSpec
INVARIANTS NoDivergence OffsetsAgree
PROPERTIES Converges
CHECK_DEADLOCK FALSE
