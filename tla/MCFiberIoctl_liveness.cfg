SPECIFICATION FairSpec
CONSTANTS
    t1 = t1
    t2 = t2
    p1 = p1
    NULL = NULL
    Thread = {t1, t2}
    Pid = {p1}
    tgid <- OneProcess
    MaxFiber = 3
    MaxProc = 2
    MaxWork = 0
    AllocFails = FALSE
PROPERTIES
    CallReturns
