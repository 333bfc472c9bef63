CONSTANTS
    d1 = d1
    d2 = d2
    d3 = d3
    Deployments <- OneDeployment
    StrategyOf <- OneStrategyOf
    Direction = "long_only"
    MaxBars = 3
    MaxRestarts = 1
SPECIFICATION Spec
INVARIANT LongOnlyNeverShort
CHECK_DEADLOCK FALSE
