SPECIFICATION FairSpec
CONSTANTS
    Char = {"a", "b", " "}
    Space = " "
    Polished <- Said
    Finals <- Committed
    Caller = {c1, c2}
    MaxPartials = 2
INVARIANTS
    NativeCallsInTurn
    DeliveredExactly
    ReleasedClean
PROPERTIES
    CancelledIsQuiet
    CallersReturn
CHECK_DEADLOCK FALSE
