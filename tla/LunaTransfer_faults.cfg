SPECIFICATION Spec
CONSTANTS
    link = link
    member = member
    Shares <- TwoShares
    N = 4
    Skipped = {2}
    OthersEditSource = FALSE
    OthersClaimDest = TRUE
    OthersWriteDest = FALSE
    OthersTakeDest = FALSE
    MayRevoke = TRUE
    IoMayFail = TRUE
    DbMayFail = FALSE
    MayCrash = TRUE
INVARIANTS
    NothingLost
    CancelLeavesNothing
    SharesTruthful
PROPERTIES
    SourceKeptUntilCopied
CHECK_DEADLOCK FALSE
