SPECIFICATION Spec
CONSTANTS
    Procs = {p1, p2}
    NoProc = NoProc
    LockMethod = "flock"
    IOFaults = {"write", "fsync"}
    MaxFiles = 2
    MaxTxns = 1
    MaxCrashes = 1
    MaxTorn = 1
    MaxResets = 1
SYMMETRY Symmetry
INVARIANTS FsckOnlyAfterGap
