CONSTANTS
    Start = 20
    Runtime = 9
    Poll = 2
    ReadyTimeout = 2
    Durations <- MCDurations
    UnitSeconds <- MCUnitSeconds
    IntervalUnits <- MCIntervalUnits
    BarSeconds = 2
    MinBackoff = 4
    LongTail = 6
    TailPerSecond = 2
    MaxThrottle = 4
    Delay = 1
    TimesParse = TRUE
    Ahead = 0
    BarSizeParses = TRUE
    MaxRequests = 5
    MaxTime = 40
SPECIFICATION Spec
INVARIANTS
    NothingLeftRunning
    OverrunBounded
    NoHole
PROPERTIES
    BackoffKept
