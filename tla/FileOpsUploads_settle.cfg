SPECIFICATION FairSpec
CONSTANTS
    NItems = 2
    Kind <- BigAndFolder
    Parallel = 1
    MaxRetries = 1
    MaxFaults = 1
PROPERTIES
    EveryItemSettles
CHECK_DEADLOCK FALSE
