SPECIFICATION FairSpec
CONSTANTS
    NumThreads = 2
    NumFibers = 3
    MaxWork = 1
    MaxNest = 1
    HeapLock = TRUE
PROPERTY Terminates
CHECK_DEADLOCK FALSE
