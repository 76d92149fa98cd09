SPECIFICATION FairSpec
CONSTANTS
    Procs = {p1, p2}
    NoProc = NoProc
    LockMethod = "fcntl"
    IOFaults = {}
    MaxFiles = 2
    MaxTxns = 1
    MaxCrashes = 0
    MaxTorn = 0
    MaxResets = 0
PROPERTIES OperationsEnd ImplementsCommitLog ImplementsLogLock
