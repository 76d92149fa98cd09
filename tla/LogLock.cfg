SPECIFICATION Spec
CONSTANTS
    Procs = {p1, p2, p3}
    Inodes = {i1, i2, i3, i4}
    NoProc = NoProc
    NoIno = NoIno
SYMMETRY Symmetry
INVARIANTS TypeOK OneWriter HeadIsCurrent
PROPERTIES NameMovesUnderLock
