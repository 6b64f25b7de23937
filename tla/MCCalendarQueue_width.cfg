SPECIFICATION CalendarSpec
CONSTANTS
    Unit = 2
    CALQSPACE = 16
    MAXNBUCKETS = 8
    Time = {0, 1, 3, 7, 8}
    MaxEvents = 5
    MaxTop = 20
CHECK_DEADLOCK FALSE
INVARIANT WidthNotNegative
