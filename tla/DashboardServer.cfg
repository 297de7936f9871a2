CONSTANTS
    Handlers = {h1, h2}
    NoHandler = NoHandler
    Keys = {k1, k2}
    Served = {k1}
    Bootstrap = TRUE
    MaxRequests = 3
SPECIFICATION FairSpec
CHECK_DEADLOCK FALSE
INVARIANTS
    OneSession
    FilledHasBars
PROPERTIES
    BootstrapOnce
    RequestsEnd
