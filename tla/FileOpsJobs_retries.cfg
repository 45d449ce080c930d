SPECIFICATION FairSpec
CONSTANTS
    NItems = 2
    Ops = {o1}
    OpOf <- OneOp
    Parallel = 1
    Refusals = {"full", "broadens"}
    MaxRetries = 1
    MaxFaults = 1
    MaxPolls = 1
INVARIANTS
    SlotsKept
PROPERTIES
    EveryItemSettles
CHECK_DEADLOCK FALSE
