----------------------------- MODULE MCServices -----------------------------
(***************************************************************************)
(* One TLC instance for the components of local-api that share no state:   *)
(* in each behaviour one of them runs, and the others stay as they began.  *)
(***************************************************************************)
EXTENDS StrategyStore, LiveEngine, PolyBridge, Backtest, BacktestJobs, KlinePager, AgentTurns,
        ReactLoop, PaperRestart, Gateway

VARIABLE focus    \* the component that runs

vars == <<storeVars, liveVars, polyVars, backtestVars, jobsVars, pagerVars, turnsVars, reactVars,
          restartVars, gatewayVars>>

Components == {"store", "live", "poly", "backtest", "jobs", "pager", "turns", "react",
               "restart", "gateway"}

\* Components with several initial states begin in one of them unless they run.
Init ==
    /\ focus \in Components
    /\ StoreInit /\ LiveInit /\ PolyInit /\ BacktestInit
    /\ JobsInit /\ PagerInit /\ TurnsInit /\ ReactInit
    /\ RestartInit /\ GatewayInit
    /\ focus # "store" => known = {}
    /\ focus # "backtest" =>
          strategy = [direction |-> "long_only", stopLoss |-> NoLimit, takeProfit |-> NoLimit]
    /\ focus # "pager" => newest = 0

Next ==
    /\ UNCHANGED focus
    /\ \/ /\ focus = "store" /\ StoreNext
          /\ UNCHANGED <<liveVars, polyVars, backtestVars, jobsVars, pagerVars, turnsVars, reactVars,
                         restartVars, gatewayVars>>
       \/ /\ focus = "live" /\ LiveNext
          /\ UNCHANGED <<storeVars, polyVars, backtestVars, jobsVars, pagerVars, turnsVars, reactVars,
                         restartVars, gatewayVars>>
       \/ /\ focus = "poly" /\ PolyNext
          /\ UNCHANGED <<storeVars, liveVars, backtestVars, jobsVars, pagerVars, turnsVars, reactVars,
                         restartVars, gatewayVars>>
       \/ /\ focus = "backtest" /\ BacktestNext
          /\ UNCHANGED <<storeVars, liveVars, polyVars, jobsVars, pagerVars, turnsVars, reactVars,
                         restartVars, gatewayVars>>
       \/ /\ focus = "jobs" /\ JobsNext
          /\ UNCHANGED <<storeVars, liveVars, polyVars, backtestVars, pagerVars, turnsVars, reactVars,
                         restartVars, gatewayVars>>
       \/ /\ focus = "pager" /\ PagerNext
          /\ UNCHANGED <<storeVars, liveVars, polyVars, backtestVars, jobsVars, turnsVars, reactVars,
                         restartVars, gatewayVars>>
       \/ /\ focus = "turns" /\ TurnsNext
          /\ UNCHANGED <<storeVars, liveVars, polyVars, backtestVars, jobsVars, pagerVars, reactVars,
                         restartVars, gatewayVars>>
       \/ /\ focus = "react" /\ ReactNext
          /\ UNCHANGED <<storeVars, liveVars, polyVars, backtestVars, jobsVars, pagerVars, turnsVars,
                         restartVars, gatewayVars>>
       \/ /\ focus = "restart" /\ RestartNext
          /\ UNCHANGED <<storeVars, liveVars, polyVars, backtestVars, jobsVars, pagerVars, turnsVars,
                         reactVars, gatewayVars>>
       \/ /\ focus = "gateway" /\ GatewayNext
          /\ UNCHANGED <<storeVars, liveVars, polyVars, backtestVars, jobsVars, pagerVars, turnsVars,
                         reactVars, restartVars>>

Spec == Init /\ [][Next]_<<focus, vars>>

\* The component that runs keeps to its types; the others are as they began,
\* which each is checked for when it runs.
ServicesTypeOK ==
    CASE focus = "store"    -> StoreTypeOK
      [] focus = "live"     -> LiveTypeOK
      [] focus = "poly"     -> PolyTypeOK
      [] focus = "backtest" -> BacktestTypeOK
      [] focus = "jobs"     -> JobsTypeOK
      [] focus = "pager"    -> PagerTypeOK
      [] focus = "turns"    -> TurnsTypeOK
      [] focus = "react"    -> ReactTypeOK
      [] focus = "restart"  -> RestartTypeOK
      [] focus = "gateway"  -> GatewayTypeOK

=============================================================================
