CONSTANTS
    Listed <- MCListedTwice
    Monthlies <- MCMonthlies
    Today = 3
    ExpiryMode = "both"
    Around = 1
    Rights <- MCRights
    Spots <- MCSpotsAcross
    NoPrice = NoPrice
    Computations <- MCComputations
    Limit = 4
    Window = 2
    FirstRequestId = 1000
    MaxSessions = 1
    MaxRows = 2
SPECIFICATION Spec
CHECK_DEADLOCK FALSE
INVARIANTS
    StripIsAroundSpot
    NothingLeftRunning
    OwnPrices
    CompleteStaysOnCurve
    FreshIdsFilledIn
