SPECIFICATION Spec
CONSTANTS
    p1 = p1
    p2 = p2
    b1 = b1
    Procs = {p1, p2}
    NoProc = NoProc
    Boxes = {b1}
    MaxMails = 2
    MaxFiles = 3
    RefLimit = 3
    MaxFaults = 0
SYMMETRY Symmetry
INVARIANT MailKept
