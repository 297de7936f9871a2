CONSTANTS
    Clients = {c1, c2}
    NoClient = NoClient
    MaxRequests = 1
    MaxCommands = 1
    MaxEvents = 2
SPECIFICATION FairSpec
INVARIANTS
    AckFirst
    ClientsReleased
PROPERTIES
    ImplementsBroadcast
    EventsReachClients
    FailureStopsBridge
