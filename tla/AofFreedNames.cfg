SPECIFICATION Spec
CONSTANTS
    Db = {0, 1}
    AofLoadTruncated = TRUE
    AofFsync = "always"
    Admin = {"yes", "no"}
    MayFail = {}
    FreedName = {"intact", "garbage"}
    MaxWrites = 1
    MaxAdmin = 2
    MaxCrashes = 1
    MaxFaults = 0
PROPERTIES
    KeepsItsPromises
