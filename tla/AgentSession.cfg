SPECIFICATION Spec
CONSTANTS
    a1 = a1
    a2 = a2
    x1 = x1
    x2 = x2
    Attempts = {a1, a2}
    Execs = {x1, x2}
    None = None
    Pending = Pending
SYMMETRY Symmetry
VIEW View
INVARIANTS
    TypeOK
    OneAttempt
    ExecReportsWrites
PROPERTIES
    RolledBackClean
CHECK_DEADLOCK FALSE
