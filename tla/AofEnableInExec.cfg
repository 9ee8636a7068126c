SPECIFICATION FairSpec
CONSTANTS
    Db = {0, 1}
    AofLoadTruncated = TRUE
    AofFsync = "everysec"
    Admin = {"restart_no", "multi_yes"}
    MayFail = {}
    FreedName = {"intact"}
    MaxWrites = 0
    MaxAdmin = 2
    MaxCrashes = 0
    MaxFaults = 0
PROPERTIES
    EnableCompletes
