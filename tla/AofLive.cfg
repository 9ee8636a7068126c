SPECIFICATION FairSpec
CONSTANTS
    Db = {0, 1}
    AofLoadTruncated = TRUE
    AofFsync = "everysec"
    Admin = {"yes", "no", "bgrewriteaof"}
    MayFail = {"open", "rewrite", "rename", "manifest", "write"}
    FreedName = {"intact"}
    MaxWrites = 2
    MaxAdmin = 2
    MaxCrashes = 0
    MaxFaults = 2
PROPERTIES
    WriteErrorEnds
    PageCacheFlushed
    EnableCompletes
