SPECIFICATION Spec
CONSTANTS
    Workspaces = {a, b}
    Paths = {p, q}
    Fds = {1}
    Streams = {s}
    MaxInstalls = 3
    MaxFlights = 1
    None = None
SYMMETRY Symmetry
VIEW View
INVARIANTS
    TypeOK
    HooksMatch
    MappingTrue
    SuppressionEnds
    ChangesHeard
CHECK_DEADLOCK FALSE
