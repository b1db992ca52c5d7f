SPECIFICATION FairSpec
CONSTANTS
    k1 = k1
    k2 = k2
    Connectors = {k1, k2}
    MaxConnects <- MCMaxConnects
    MaxStarts = 2
    MaxUpsets = 2
    Backlog = 1
CHECK_DEADLOCK FALSE
INVARIANTS
    ListenerConsistent
    ConnectorConsistent
PROPERTIES
    ConnectAnswered
    ListenerSettles
