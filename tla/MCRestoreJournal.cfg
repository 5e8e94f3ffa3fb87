SPECIFICATION FairSpec
CONSTANTS
    Scope = {s1, s2}
    MaxVersion = 3
    MaxFaults = 2
INVARIANTS
    JournalsAccountedFor
    FreeMeansWhole
PROPERTIES
    ImplementsAtomicRestore
    RecoveryEnds
CHECK_DEADLOCK FALSE
