CONSTANTS
    Listed <- MCListed
    Monthlies <- MCMonthlies
    Today = 3
    ExpiryMode = "weekly"
    Around = 0
    Rights <- MCRights
    Spots <- MCSpots
    NoPrice = NoPrice
    Computations <- MCAll
    Limit = 4
    Window = 2
    FirstRequestId = 1000
    MaxSessions = 2
    MaxRows = 2
SPECIFICATION Spec
CHECK_DEADLOCK FALSE
INVARIANT BackfillFillsIn
