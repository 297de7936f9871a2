CONSTANTS
    Symbols = {a, b}
    NoSymbol = NoSymbol
    TickFields <- MCTickFields
    Filter = NoSymbol
    EmitQuotes = TRUE
    EmitBars = TRUE
    FirstRequestId = 1000
    MaxRequests = 2
    MaxSessions = 2
    MaxLines = 4
SYMMETRY Symmetry
SPECIFICATION Spec
CHECK_DEADLOCK FALSE
ACTION_CONSTRAINT ReadsAtOnce
INVARIANTS
    JoinedRight
    OutputIsNormalized
    ErrorsCounted
