SPECIFICATION DispatchSpec
CONSTANTS
    Debounce = 1
    AutoHold = 2
    Cooldown = 2
    MaxPending = 2
    Budgets <- Together
    ModifierOnly = {TRUE, FALSE}
    MaxPress = 2
    MaxUi = 1
    MaxTime = 3
    Chorded = {1}
CHECK_DEADLOCK FALSE
INVARIANTS
    EndedPressOwnsNothing
PROPERTIES
    NoStaleStart
