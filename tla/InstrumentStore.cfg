CONSTANTS
    Processes = {p}
    NoProcess = NoProcess
    Bases = {a, b}
    Details = {named}
    Bare = Bare
    NoContract = NoContract
    ReqIds <- MCReqIds
    Times <- MCTimes
    MaxEvents = 6
    MaxInstruments = 3
    MaxCrashes = 1
SPECIFICATION Spec
CHECK_DEADLOCK FALSE
INVARIANTS
    RowsKeepTheirContract
PROPERTIES
    BarsSurvive
    NamesSurvive
    DetailsUnify
