SPECIFICATION FairSpec
CONSTANTS
    j1 = j1
    j2 = j2
    j3 = j3
    j4 = j4
    ann = ann
    bob = bob
    Jobs <- TwoJobs
    Users <- TwoUsers
    Owner <- OwnerOf2
    MaxRunning = 1
    MaxQueued = 2
    MaxPerUser = 1
    CheckLimit = 3
    MaxRestarts = 1
    MayDisconnect = FALSE
    DbMayFail = FALSE
INVARIANTS
    RunningRowOwned
PROPERTIES
    EveryJobSettles
CHECK_DEADLOCK FALSE
