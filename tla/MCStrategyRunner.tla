-------------------------- MODULE MCStrategyRunner --------------------------
(* Three deployments, two of them of the same strategy. *)
EXTENDS StrategyRunner, TLC

CONSTANTS d1, d2, d3   \* model values

MCDeployments == {d1, d2, d3}
MCStrategyOf == [d \in MCDeployments |-> IF d = d3 THEN "breakout" ELSE "trend"]
\* The two of one strategy are interchangeable; nothing checked is a liveness property.
SameStrategy == Permutations({d1, d2})
OneDeployment == {d1}
OneStrategyOf == [d \in OneDeployment |-> "trend"]

=============================================================================
