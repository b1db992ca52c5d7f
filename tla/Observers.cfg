SPECIFICATION FairSpec
CONSTANT MaxId = 4
INVARIANTS
    SlotsAccounted
    EmissionRight
PROPERTIES
    NoCallAfterUnsubscribe
    EmissionEnds
