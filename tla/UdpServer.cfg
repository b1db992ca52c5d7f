SPECIFICATION FairSpec
CONSTANTS
    p1 = p1
    p2 = p2
    Endpoints <- MCEndpoints
    NoEndpoint = none
    Traffic <- MCTraffic
    Keeps = {1}
    MaxWrites = 2
    MaxCache = 1
    MaxAsks = 1
    MaxFailures = 1
    MaxPosted = 1
CHECK_DEADLOCK FALSE
INVARIANTS
    SendsInOrder
    KeepsListening
    CloseAccounted
PROPERTIES
    ReceivesInOrder
    EverythingSettles
