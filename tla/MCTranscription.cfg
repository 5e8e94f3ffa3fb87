SPECIFICATION Spec
CONSTANTS
    MaxChunks = 2
    Attempts = 2
INVARIANTS
    FedInOrder
    NoneLeft
    CancellationIsFinal
PROPERTIES
    CallsReturn
CHECK_DEADLOCK FALSE
