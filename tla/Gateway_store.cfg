CONSTANTS
    Main = Main
    NetworkThread = NetworkThread
    ReaderThread = ReaderThread
    NoThread = NoThread
    Streams <- MCStreams
    FirstRequestId = 1000
    MaxRequests = 1
    FirstOrderId = 7
    MaxOrders = 0
    Codes <- MCCodes
    MaxFailures = 0
SPECIFICATION Spec
INVARIANT EndEventsStored
