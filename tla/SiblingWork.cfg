SPECIFICATION Spec
CONSTANTS
    p1 = p1
    c1 = c1
    c2 = c2
    c3 = c3
    d1 = d1
    w1 = w1
    Paths = {p1}
    Checkpoints = {c1,c2,c3}
    Data = {d1}
    Writers = {w1}
    MaxClock = 2
    None = None
    Absent = Absent
SYMMETRY Symmetry
VIEW View
PROPERTIES
    SiblingWorkKept
CHECK_DEADLOCK FALSE
