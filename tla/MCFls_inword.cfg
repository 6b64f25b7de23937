SPECIFICATION Spec
CONSTANTS
    t1 = t1
    t2 = t2
    f1 = f1
    f2 = f2
    f3 = f3
    Thread = {t1}
    Fiber = {f1, f2}
    OwnBits = 3
    RegsEnd = 4
    ListEnd = 5
    MAX_FLS = 5
    Data = {0, 1}
    MaxOwned = 2
SYMMETRY Symmetric
INVARIANTS
    SlotsReadBack
    NoSlotLeaked
    FiberStaysLinked
