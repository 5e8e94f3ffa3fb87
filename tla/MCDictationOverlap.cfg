SPECIFICATION Spec
CONSTANTS
    MaxSession = 1
    Faulty = {}
    Stoppable = {}
    Cancellable = {1}
INVARIANTS
    MicrophoneOwned
CHECK_DEADLOCK FALSE
