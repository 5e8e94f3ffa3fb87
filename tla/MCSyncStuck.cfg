SPECIFICATION Spec
CONSTANTS
    Devices = {a, b}
    Docs = {x}
    MaxRev = 3
    Budgets <- Single
INVARIANT
    NoMissingTombstone
