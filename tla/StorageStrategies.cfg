SPECIFICATION Spec
CONSTANTS
    p1 = p1
    p2 = p2
    p3 = p3
    i6 = i6
    i7 = i7
    i8 = i8
    i1 = i1
    i2 = i2
    i3 = i3
    i4 = i4
    i5 = i5
    small = small
    medium = medium
    Paths = {p1, p2, p3}
    Data = {small, medium}
    Inodes = {i1, i2, i3, i4, i5, i6, i7, i8}
    Size <- MCSize
    MaxFileBytes = 2
    MaxTotalBytes = 3
    MaxFiles = 2
    MaxOpen = 1
    None = None
    Absent = Absent
SYMMETRY Symmetry
VIEW View
INVARIANTS
    TypeOK
    BudgetsKept
    BackupsDetached
PROPERTIES
    KeepsBackups
CHECK_DEADLOCK FALSE
