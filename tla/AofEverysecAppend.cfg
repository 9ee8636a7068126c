SPECIFICATION Spec
CONSTANTS
    Db = {0, 1}
    AofLoadTruncated = TRUE
    AofFsync = "everysec"
    Admin = {"no", "shutdown"}
    MayFail = {"open", "rewrite", "manifest", "write", "short_write", "ftruncate", "power"}
    FreedName = {"intact"}
    MaxWrites = 3
    MaxAdmin = 1
    MaxCrashes = 2
    MaxFaults = 2
INVARIANTS
    OnWritesLastIncr
    LogCompletesDataset
PROPERTIES
    KeepsItsPromises
