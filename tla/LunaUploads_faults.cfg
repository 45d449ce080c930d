SPECIFICATION Spec
CONSTANTS
    p1 = p1
    p2 = p2
    p3 = p3
    Size = 3
    Puts <- TwoPuts
    Ranges <- UnevenPieces
    MaxName = 1
    MaxRestarts = 1
    Principals <- Anyone
    HashSent = FALSE
    IoMayFail = TRUE
    DbMayFail = TRUE
    MayLosePower = FALSE
INVARIANTS
    TypeOK
    InstalledWhole
PROPERTIES
    NoClobber
SYMMETRY SymmetryTwo
CHECK_DEADLOCK FALSE
