SPECIFICATION Spec
CONSTANTS
    a = a
    b = b
    Tabs <- Two
    MaxEdits = 1
    MaxCuts = 1
    MaxEvents = 1
    OpBacklog = 1
    MayLinger = TRUE
INVARIANTS
    ConvergesUnlessUnheard
    TextShownUnlessHollow
SYMMETRY Swap
CHECK_DEADLOCK FALSE
