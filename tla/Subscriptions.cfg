SPECIFICATION HandlesSpec
CONSTANTS
    Signals = {s1, s2}
    Plain = {p1, p2}
    Scoped = {g1, g2}
    MaxSlots = 3
INVARIANTS
    SlotsKept
PROPERTIES
    ImplementsGuards
