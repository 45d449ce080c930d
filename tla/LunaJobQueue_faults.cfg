SPECIFICATION Spec
CONSTANTS
    j1 = j1
    j2 = j2
    j3 = j3
    j4 = j4
    ann = ann
    bob = bob
    Jobs <- ThreeJobs
    Users <- TwoUsers
    Owner <- AllAnns
    MaxRunning = 2
    MaxQueued = 3
    MaxPerUser = 2
    CheckLimit = 3
    MaxRestarts = 1
    MayDisconnect = TRUE
    DbMayFail = TRUE
INVARIANTS
    TypeOK
    SlotsBounded
    NoIdleSlot
    QueueExact
    CancelsExact
    CancelledEarlyNeverRuns
PROPERTIES
    ImplementsLifecycle
SYMMETRY Symmetry
CHECK_DEADLOCK FALSE
