SPECIFICATION FairSyncSpec
CONSTANTS
    Writer = {w1, w2, w3}
    Reader = {}
    MaxGen = 4
    MaxEpoch = 4
    MaxWrites = 3
    FaultyDisk = FALSE
    Restoring = FALSE
    CommitOrigin = {"User"}
PROPERTIES
    UserChangeIsSynced
CHECK_DEADLOCK FALSE
