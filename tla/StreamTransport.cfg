SPECIFICATION FairSpec
CONSTANTS
    long = long
    short = short
    empty = empty
    Msgs <- MCMsgs
    Size <- MCSize
    MaxReads = 2
    MaxCloses = 2
CHECK_DEADLOCK FALSE
INVARIANTS
    QueueDiscipline
    DeliveredInOrder
PROPERTIES
    ClosedForGood
    ImplementsChannel
    WritesAndClosesSettle
