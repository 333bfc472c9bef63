-------------------------- MODULE DeploymentRegister --------------------------
(***************************************************************************)
(* What users are promised about the strategies they deploy, stated        *)
(* without slots, files, warm-ups or signals.  While the service serves, a *)
(* deployment that runs goes on until its user stops it; a service that    *)
(* falls takes with it only deployments whose deploy has not returned;     *)
(* recovering, it may drop some; what was stopped never runs again, and no *)
(* strategy is deployed twice.  StrategyRunner is shown to implement this  *)
(* module (the refinement mapping is in StrategyRunner).                   *)
(***************************************************************************)

CONSTANTS
    Deployments,   \* deployment ids, each used once
    StrategyOf     \* StrategyOf[d]: the strategy d deploys

VARIABLES
    service,   \* "serving", or "recovering" from a fall
    stage      \* stage[d]: how far deployment d has come

vars == <<service, stage>>

Stage == {"unused", "starting", "running", "stopped", "lost"}
Held(d) == stage[d] \in {"starting", "running"}

OnePerStrategy ==
    \A d, e \in Deployments : Held(d) /\ Held(e) /\ StrategyOf[d] = StrategyOf[e] => d = e

Init ==
    /\ service = "serving"
    /\ stage = [d \in Deployments |-> "unused"]

Request(d) ==
    /\ service = "serving"
    /\ stage[d] = "unused"
    /\ stage' = [stage EXCEPT ![d] = "starting"]
    /\ UNCHANGED service

Settle(d) ==
    /\ service = "serving"
    /\ stage[d] = "starting"
    /\ stage' = [stage EXCEPT ![d] = "running"]
    /\ UNCHANGED service

\* A user stops a strategy.
Stop(s) ==
    /\ service = "serving"
    /\ stage' = [d \in Deployments |-> IF Held(d) /\ StrategyOf[d] = s THEN "stopped" ELSE stage[d]]
    /\ UNCHANGED service

\* The service ends.  What runs is found again; what was starting may be, and
\* so may one that an earlier recovery passed over.
Fall ==
    /\ service = "serving"
    /\ service' = "recovering"
    /\ stage' \in [Deployments -> Stage]
    /\ \A d \in Deployments : IF stage[d] \in {"starting", "lost"} THEN stage'[d] \in {"running", "lost"}
                                                                   ELSE stage'[d] = stage[d]

\* Recovering, the service may drop deployments before it serves again: their
\* strategy cannot run any more, or the service falls another time.
Recover ==
    /\ service = "recovering"
    /\ service' \in {"recovering", "serving"}
    /\ stage' \in [Deployments -> Stage]
    /\ \A d \in Deployments : stage'[d] # stage[d] => stage[d] = "running" /\ stage'[d] = "lost"

Next ==
    /\ \/ \E d \in Deployments : Request(d) \/ Settle(d) \/ Stop(StrategyOf[d])
       \/ Fall \/ Recover
    /\ OnePerStrategy'

Spec == Init /\ [][Next]_vars

===============================================================================
