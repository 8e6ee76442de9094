SPECIFICATION FairSpec
CONSTANTS
    k1 = k1
    k2 = k2
    c1 = c1
    c2 = c2
    Checkpoints = {c1, c2}
    MaxActive = 1
    Calls = {k1, k2}
    None = None
INVARIANTS
    CapacityRespected
PROPERTIES
    CallsReturn
CHECK_DEADLOCK FALSE
