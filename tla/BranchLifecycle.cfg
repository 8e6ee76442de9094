SPECIFICATION Spec
CONSTANTS
    k1 = k1
    k2 = k2
    k3 = k3
    c1 = c1
    c2 = c2
    Calls = {k1, k2, k3}
    Checkpoints = {c1, c2}
    MaxActive = 2
    None = None
SYMMETRY Symmetry
INVARIANTS
    TypeOK
    LifecycleMutex
    OpLockOwned
    CheckpointLockOwned
    RevertibleHasStorage
    TargetNotRolledBack
    RunKeepsBranch
PROPERTIES
    SettledIsFinal
    QueueIsFifoMutex
CHECK_DEADLOCK FALSE
