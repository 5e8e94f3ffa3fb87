SPECIFICATION Spec
CONSTANTS
    Writer = {w1, w2}
    Reader = {r}
    MaxGen = 2
    MaxEpoch = 3
    MaxWrites = 2
    FaultyDisk = TRUE
    Restoring = TRUE
    CommitOrigin = {"User", "Restore"}
SYMMETRY Symmetry
INVARIANTS
    UncertainIsAnnounced
    UnblockedIsSound
    TokenSound
    GenerationNamesData
PROPERTIES
    NotificationsNeverGoBack
CHECK_DEADLOCK FALSE
