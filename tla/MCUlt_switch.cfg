SPECIFICATION Spec
CONSTANTS
    t1 = t1
    t2 = t2
    NULL = NULL
    Thread = {t1, t2}
    MaxUlt = 4
    MaxWork = 1
    MAX_FLS = 1
    MaxAlloc = 2
SYMMETRY ThreadSymmetry
INVARIANTS
    TypeOK
    SharedOnlyWhileLeaving
    OwnSlotsReadBack
PROPERTIES
    ImplementsContexts
