CONSTANTS
    Futures = TRUE
    SmallGap = 1
    RestFails = FALSE
    MaxUpdates = 4
    MaxLost = 0
    MaxCalls = 1
    MaxConnects = 1
SPECIFICATION Spec
INVARIANT BookIsComplete
CHECK_DEADLOCK FALSE
