SPECIFICATION Spec
CONSTANTS
    NItems = 2
    Kind <- BigAndSmall
    Parallel = 1
    MaxRetries = 1
    MaxFaults = 2
INVARIANTS
    TypeOK
    PoolExact
    NothingStranded
    DoneTruthful
    EndedIsOver
PROPERTIES
    ReplacedOnlyIfAsked
CHECK_DEADLOCK FALSE
