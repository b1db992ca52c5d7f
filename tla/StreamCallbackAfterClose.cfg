SPECIFICATION FairSpec
CONSTANTS
    long = long
    short = short
    empty = empty
    Msgs <- MCMsgs
    Size <- MCSize
    MaxReads = 1
    MaxCloses = 1
CHECK_DEADLOCK FALSE
PROPERTY NoCallbackAfterClose
