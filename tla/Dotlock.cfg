SPECIFICATION Spec
CONSTANTS
    p1 = p1
    p2 = p2
    Procs = {p1, p2}
    NoProc = NoProc
    Inodes = {1, 2}
    StaleTimeout = 1
    Timeout = 3
    PidCheckSecs = 0
    MaxTime = 3
    MaxLocks = 2
    MaxCrashes = 1
SYMMETRY Symmetry
INVARIANTS
    OnlyOwner
    LossExplained
