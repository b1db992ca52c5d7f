SPECIFICATION Spec
CONSTANTS
    Policy = "varint"
    Bits = 5
    Shift = 2
    MaxSent = 3
    BufferSize = 8
    MaxLength = 5
    Messages <- MCMessages
    Garbage <- MCNone
CHECK_DEADLOCK FALSE
INVARIANTS NothingLeftOut
