SPECIFICATION Spec
CONSTANTS
    a = a
    b = b
    Tabs <- Two
    MaxEdits = 0
    MaxCuts = 0
    MaxEvents = 1
    OpBacklog = 2
    MayLinger = FALSE
INVARIANTS
    TextKept
CHECK_DEADLOCK FALSE
