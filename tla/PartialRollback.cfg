SPECIFICATION Spec
CONSTANTS
    p1 = p1
    p2 = p2
    c1 = c1
    d1 = d1
    d2 = d2
    w1 = w1
    Paths = {p1,p2}
    Checkpoints = {c1}
    Data = {d1,d2}
    Writers = {w1}
    MaxClock = 3
    None = None
    Absent = Absent
SYMMETRY Symmetry
VIEW View
PROPERTIES
    NoPartialRollback
CHECK_DEADLOCK FALSE
