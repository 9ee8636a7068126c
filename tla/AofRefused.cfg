SPECIFICATION Spec
CONSTANTS
    Db = {0, 1}
    AofLoadTruncated = TRUE
    AofFsync = "everysec"
    Admin = {"yes", "no", "bgrewriteaof", "multi_bgrewriteaof", "auto"}
    MayFail = {"open", "rewrite", "rename", "manifest", "power"}
    FreedName = {"intact"}
    MaxWrites = 3
    MaxAdmin = 2
    MaxCrashes = 1
    MaxFaults = 1
PROPERTIES
    RefusalIsRepaired
