SPECIFICATION FairSpec
CONSTANTS
    NumThreads = 2
    NumFibers = 3
    MaxWork = 1
    MaxNest = 1
    HeapLock = FALSE
INVARIANT ExitMeansDone
INVARIANT FailsOnlyAfterRace
INVARIANT AlarmKept
INVARIANT ReturnsConverted
PROPERTY Terminates
