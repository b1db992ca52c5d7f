SPECIFICATION FairSpec
CONSTANTS
    c1 = c1
    c2 = c2
    Points = {c1, c2, Server}
    Server = Server
    Reads <- MCReads
    Length <- MCLength
    MaxFailures = 1
CHECK_DEADLOCK FALSE
INVARIANTS
    EachGetsItsPackets
PROPERTIES
    DevicesAreChannels
    BroadcastArrives
    LostAreForgotten
