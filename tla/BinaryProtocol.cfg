SPECIFICATION ProtocolSpec
CONSTANTS
    Policy = "varint"
    Bits = 5
    Shift = 2
    MaxSent = 3
    BufferSize = 5
    MaxLength = 5
    Messages <- MCMessages
    Garbage <- MCGarbage
CHECK_DEADLOCK FALSE
INVARIANTS
    CutWhereJoined
    InStep
    DamageContained
PROPERTIES
    EveryMessageHandedOn
    ErrorsEndIt
