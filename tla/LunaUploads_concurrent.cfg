SPECIFICATION Spec
CONSTANTS
    p1 = p1
    p2 = p2
    p3 = p3
    Size = 2
    Puts <- ThreePuts
    Ranges <- Pieces
    MaxName = 1
    MaxRestarts = 1
    Principals <- Member
    HashSent = TRUE
    IoMayFail = FALSE
    DbMayFail = FALSE
    MayLosePower = TRUE
INVARIANTS
    AckedIsCovered
    NoOrphanChunks
    TempHasRow
    InstalledWhole
SYMMETRY SymmetryThree
CHECK_DEADLOCK FALSE
