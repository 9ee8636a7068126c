SPECIFICATION Spec
CONSTANTS
    Db = {0, 1}
    AofLoadTruncated = TRUE
    AofFsync = "always"
    Admin = {"yes", "no", "shutdown", "restart_no"}
    MayFail = {"open", "rewrite", "rename", "manifest", "write", "short_write", "ftruncate", "fsync", "power"}
    FreedName = {"intact"}
    MaxWrites = 3
    MaxAdmin = 2
    MaxCrashes = 2
    MaxFaults = 1
INVARIANTS
    LiveFilesExist
    NoLiveFileUnlinked
    OnWritesLastIncr
    OrphanIncrEmpty
    LogCompletesDataset
PROPERTIES
    KeepsItsPromises
