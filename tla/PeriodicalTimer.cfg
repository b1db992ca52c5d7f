SPECIFICATION FairSpec
CONSTANTS
    Users = {u1, u2}
    MaxCalls = 4
    MaxCancels = 3
CHECK_DEADLOCK FALSE
INVARIANTS
    DoneIsDone
PROPERTIES
    KeepsTicking
    CancelSilences
