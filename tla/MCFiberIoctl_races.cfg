SPECIFICATION Spec
CONSTANTS
    t1 = t1
    t2 = t2
    p1 = p1
    NULL = NULL
    Thread = {t1, t2}
    Pid = {p1}
    tgid <- OneProcess
    MaxFiber = 3
    MaxProc = 2
    MaxWork = 1
    AllocFails = TRUE
SYMMETRY ThreadSymmetry
INVARIANTS
    TypeOK
    HandlerInv
    ContextsExclusive
    ActiveFiberOwned
    ConvertedThreadFound
    HandleUnambiguous
    NoStuckFiber
    FaultsExplained
PROPERTIES
    ImplementsContexts
