SPECIFICATION Spec
CONSTANTS
    Procs = {p1, p2}
    Sessions = {s1, s2}
    Hosts = {h1, h2}
    Pids = {i1, i2}
    MaxSnapshots = 2
    None = None
SYMMETRY Symmetry
VIEW View
INVARIANTS
    TypeOK
    LiveSessionsKept
    AbandonedCollected
    EndsClean
CHECK_DEADLOCK FALSE
