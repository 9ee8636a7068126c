SPECIFICATION Spec
CONSTANTS
    Db = {0, 1}
    AofLoadTruncated = TRUE
    AofFsync = "everysec"
    Admin = {"yes", "no", "bgrewriteaof", "multi_bgrewriteaof", "auto", "multi_yes", "restart_no"}
    MayFail = {"open", "rewrite", "rename", "manifest", "fsync"}
    FreedName = {"intact"}
    MaxWrites = 3
    MaxAdmin = 2
    MaxCrashes = 2
    MaxFaults = 1
INVARIANTS
    TypeOK
    LiveFilesExist
    NoLiveFileUnlinked
    OnWritesLastIncr
    OrphanIncrEmpty
    LogCompletesDataset
PROPERTIES
    KeepsItsPromises
