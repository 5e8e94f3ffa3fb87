SPECIFICATION Spec
CONSTANTS
    Devices = {a, b}
    Docs = {x, y}
    MaxRev = 3
    Budgets <- Several
INVARIANTS
    SyncedMeansCommitted
PROPERTIES
    EditsSurvive
    OnlyPendingCommits
    ImplementsVaultLog
SYMMETRY Symmetry
