SPECIFICATION Spec
CONSTANTS
    link = link
    member = member
    Shares <- TwoShares
    N = 3
    Skipped = {2}
    OthersEditSource = TRUE
    OthersClaimDest = TRUE
    OthersWriteDest = TRUE
    OthersTakeDest = TRUE
    MayRevoke = TRUE
    IoMayFail = TRUE
    DbMayFail = TRUE
    MayCrash = TRUE
INVARIANTS
    DoneMeansMoved
PROPERTIES
    TheirTreeKept
CHECK_DEADLOCK FALSE
