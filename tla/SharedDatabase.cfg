CONSTANTS
    Processes = {p, q}
    NoProcess = NoProcess
    Bases = {a}
    Details = {named}
    Bare = Bare
    NoContract = NoContract
    ReqIds <- MCReqIds
    Times <- MCTimes
    MaxEvents = 3
    MaxInstruments = 3
    MaxCrashes = 0
    Tools = {t, u}
    Options = {}
    MaxFetches = 2
SYMMETRY Symmetry
SPECIFICATION SpecShared
CHECK_DEADLOCK FALSE
INVARIANTS
    LocksNeedFailure
    OneHome
