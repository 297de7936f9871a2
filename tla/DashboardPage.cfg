CONSTANTS
    Watches = {w1, w2}
    Modes = {front, next}
    None = None
    MaxRunning = 2
SPECIFICATION FairSpec
INVARIANTS
    OneRefreshAtATime
    FailuresSurface
    OnePicture
PROPERTIES
    StoppedStaysStopped
    SettingsReachChart
