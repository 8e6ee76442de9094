SPECIFICATION Spec
CONSTANTS
    p1 = p1
    p2 = p2
    d1 = d1
    d2 = d2
    Paths = {p1, p2}
    Data = {d1, d2}
    MaxEdits = 3
    MaxFaults = 0
    MaxLives = 2
    None = None
    Absent = Absent
SYMMETRY Symmetry
INVARIANTS
    VolatileBlocksRehydration
CHECK_DEADLOCK FALSE
