SPECIFICATION Spec
CONSTANTS
    Procs = {p1, p2}
    NoProc = NoProc
    LockMethod = "flock"
    IOFaults = {"write"}
    MaxFiles = 3
    MaxTxns = 1
    MaxCrashes = 1
    MaxTorn = 0
    MaxResets = 0
SYMMETRY Symmetry
INVARIANTS TypeOK WriterSeesAll ChainFits Recoverable
