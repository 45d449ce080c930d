SPECIFICATION Spec
CONSTANTS
    NItems = 2
    Ops = {o1}
    OpOf <- OneOp
    Parallel = 2
    Refusals = {"file", "denied"}
    MaxRetries = 0
    MaxFaults = 1
    MaxPolls = 1
INVARIANTS
    TypeOK
    StorageExact
    NoUnseenJob
    NothingStranded
    NothingStalls
    RowsTruthful
    EndedIsOverUnlessRaced
CHECK_DEADLOCK FALSE
