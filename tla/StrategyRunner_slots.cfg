CONSTANTS
    d1 = d1
    d2 = d2
    d3 = d3
    Deployments <- MCDeployments
    StrategyOf <- MCStrategyOf
    Direction = "long_only"
    MaxBars = 2
    MaxRestarts = 2
SYMMETRY SameStrategy
SPECIFICATION Spec
INVARIANT SignalsAccounted
PROPERTY RegisterSpec
CHECK_DEADLOCK FALSE
