SPECIFICATION Spec
CONSTANTS
    p1 = p1
    c1 = c1
    c2 = c2
    d1 = d1
    d2 = d2
    w1 = w1
    Paths = {p1}
    Checkpoints = {c1,c2}
    Data = {d1,d2}
    Writers = {w1}
    MaxClock = 3
    None = None
    Absent = Absent
SYMMETRY Symmetry
VIEW View
INVARIANTS
    TypeOK
    BackupsFaithful
    UnbackedIsBlind
PROPERTIES
    RollbackRestores
CHECK_DEADLOCK FALSE
