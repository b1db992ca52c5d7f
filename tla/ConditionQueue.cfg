SPECIFICATION FairSpec
CONSTANTS
    Threads = {t1, t2, t3}
    Keys = {1}
    Values = {1, 2}
    MaxSlots = 2
    Priority = TRUE
INVARIANTS
    NobodyLeftWaiting
PROPERTIES
    ErasedGivesNothing
    ImplementsBoxes
    AnswersReaders
    CancelReleasesReaders
