SPECIFICATION Spec
CONSTANTS
    p1 = p1
    p2 = p2
    d1 = d1
    d2 = d2
    Paths = {p1, p2}
    Data = {d1, d2}
    MaxEdits = 3
    MaxFaults = 1
    MaxLives = 3
    None = None
    Absent = Absent
SYMMETRY Symmetry
INVARIANTS
    TypeOK
    RecordsFaithful
    WriteAhead
    RehydratableIsRestorable
    SettledNotRevived
PROPERTIES
    RollbackRestores
CHECK_DEADLOCK FALSE
