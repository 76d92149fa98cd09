SPECIFICATION Spec
CONSTANTS
    Procs = {p1, p2}
    NoProc = NoProc
    LockMethod = "flock"
    IOFaults = {}
    MaxFiles = 2
    MaxTxns = 2
    MaxCrashes = 0
    MaxTorn = 1
    MaxResets = 0
SYMMETRY Symmetry
INVARIANTS NothingInvented ReadsAPrefix
