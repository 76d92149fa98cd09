SPECIFICATION FairSpec
CONSTANTS
    Clients = {c1}
    u1 = u1
    u2 = u2
    m1 = m1
    m2 = m2
    Keys <- MCKeys
    NoKey = NoKey
    MaxWorkers = 2
    Limits = {1, 2}
    Tickets = {t1, t2}
    MaxRequests = 3
INVARIANTS TypeOK QueuedOrWorking WaitersKept NeverStalled
PROPERTIES DoneAsAsked EveryoneAnswered
CHECK_DEADLOCK FALSE
