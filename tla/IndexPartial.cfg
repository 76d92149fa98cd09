SPECIFICATION Spec
CONSTANTS
    p1 = p1
    p2 = p2
    NoProc = NoProc
    Procs = {p1, p2}
    MaxAppends = 2
    MaxRotations = 2
    MaxCrashes = 1
SYMMETRY Symmetry
INVARIANTS SnapshotSafe
