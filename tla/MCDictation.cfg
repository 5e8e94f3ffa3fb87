SPECIFICATION FairSpec
CONSTANTS
    MaxSession = 2
    Faulty = {1}
    Stoppable = {1}
    Cancellable = {1}
INVARIANTS
    MicrophoneOwnedByFirst
    RecordingIsVisible
    RestIsClean
    OwnStopOnly
PROPERTIES
    HandlersReturn
CHECK_DEADLOCK FALSE
