CONSTANTS
    a = a mid = mid
    Server = {a, mid}
    NoServer = NoServer
    ReplicaOfConf <- OneMaster
    Dbs = {0, 1}
    BacklogSize = 2
    ForkOutcome = {TRUE, FALSE}
    MaxWrites = 1
    MaxAdmin = 1
    MaxFaults = 1
    MaxRestarts = 1
    MaxSaves = 1
SPECIFICATION Spec
INVARIANTS TypeOK NoDivergence OffsetsAgree SameIdSameHistory
PROPERTIES FailoverLosesOnlyByOffset
CHECK_DEADLOCK FALSE
