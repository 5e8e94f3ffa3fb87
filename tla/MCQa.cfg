SPECIFICATION QaSpec
CONSTANTS
    MaxTurn = 2
    MaxSession = 2
    MaxClose = 1
    Budgets <- Together
CHECK_DEADLOCK FALSE
INVARIANTS
    OneMicrophone
    NothingLeftBehind
    InsertedOnce
    AnswerFollowsItsQuestion
    ActiveTurnIsShown
PROPERTY
    CancelledFindsNoTarget
    TargetIsKept
