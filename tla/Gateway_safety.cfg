CONSTANTS
    Main = Main
    NetworkThread = NetworkThread
    ReaderThread = ReaderThread
    NoThread = NoThread
    Streams <- MCStreams
    FirstRequestId = 1000
    MaxRequests = 1
    FirstOrderId = 7
    MaxOrders = 2
    Codes <- MCCodes
    MaxFailures = 2
SPECIFICATION Spec
INVARIANTS
    HandshakeFirst
    RaisedErrorIsFinal
    EndIsNotLost
    WaitTrueIsExplained
PROPERTIES
    OrdersAreNew
