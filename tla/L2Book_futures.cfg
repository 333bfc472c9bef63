CONSTANTS
    Futures = TRUE
    SmallGap = 1
    RestFails = TRUE
    MaxUpdates = 4
    MaxLost = 1
    MaxCalls = 2
    MaxConnects = 2
SPECIFICATION Spec
INVARIANTS
    HolesOnlyAtJoint
    SequenceIdIsHonest
    RecoveryClosesGap
CHECK_DEADLOCK FALSE
