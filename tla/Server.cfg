SPECIFICATION FairSpec
CONSTANTS
    Conns = {c1, c2}
    MaxFd = 4
    NULL = NULL
INVARIANTS ServerTypeOK Accounted OnlyStraysHarm ClosedWithThread
PROPERTIES EveryClientAccepted EveryConnectionEnds
