--------------------------- MODULE StrategyRunner ---------------------------
(***************************************************************************)
(* The strategy runner of services/local-api: deployments of strategies,   *)
(* fed with closed klines, whose signals become paper orders, and the file *)
(* deployments.json that carries them over a restart.                      *)
(*                                                                         *)
(* deploy suspends while it subscribes the symbol and fetches historical   *)
(* klines; a signal becomes a task that runs later and reads the runtime's *)
(* position then.  Everything else happens without suspending.             *)
(*                                                                         *)
(* Abstractions: what the rules say of a bar is nondeterministic within    *)
(* what StrategyRuntime allows in a position and a direction; every order  *)
(* has the same size and fills at once or raises (see PaperEngine); paper  *)
(* accounts keep their positions over a restart; every deployment has an   *)
(* id and an account of its own.                                           *)
(***************************************************************************)
EXTENDS Integers, Sequences

CONSTANTS
    Deployments,   \* deployment ids, each used once
    StrategyOf,    \* StrategyOf[d]: the strategy d deploys
    Direction,     \* the direction of the strategies
    MaxBars,       \* bound: live klines in a behaviour
    MaxRestarts    \* bound: restarts of the process in a behaviour

ASSUME ConstantsAssumption ==
    /\ DOMAIN StrategyOf = Deployments
    /\ Direction \in {"long_only", "short_only", "neutral"}
    /\ MaxBars \in Nat
    /\ MaxRestarts \in Nat

VARIABLES
    process,   \* the service: "down", "starting" (restoring) or "running"
    slots,     \* deployments in _slots
    unread,    \* deployments read from the file and not yet restored
    warming,   \* deployments whose deploy() awaits its warm-up
    position,  \* position[d]: the runtime's _position
    account,   \* account[d]: quantity held per position side
    pending,   \* pending[d]: sides of signals whose _execute_signal has not run
    counters,  \* counters[d]: signals_emitted, orders_placed and errors; a history tells how
               \* many of the errors are bars that raised
    disk,      \* deployments in deployments.json
    used,      \* deployment ids handed out
    stopped,   \* deployments a user has stopped
    bars,      \* live klines so far
    starts     \* starts of the process so far

vars == <<process, slots, unread, warming, position, account, pending, counters, disk,
          used, stopped, bars, starts>>

Positions == {"flat", "long", "short"}
Sides == {"buy", "sell"}
Counts == [signals: 0..MaxBars, orders: 0..MaxBars, errors: 0..MaxBars, raised: 0..MaxBars]

TypeOK ==
    /\ process \in {"down", "starting", "running"}
    /\ slots \in SUBSET Deployments
    /\ unread \in SUBSET Deployments
    /\ warming \in SUBSET Deployments
    /\ position \in [Deployments -> Positions]
    /\ account \in [Deployments -> [long: 0..MaxBars, short: 0..MaxBars]]
    /\ pending \in [Deployments -> Seq(Sides)]
    /\ counters \in [Deployments -> Counts]
    /\ disk \in SUBSET Deployments
    /\ used \in SUBSET Deployments
    /\ stopped \in SUBSET Deployments
    /\ bars \in 0..MaxBars
    /\ starts \in 0..MaxRestarts

NoCounts == [signals |-> 0, orders |-> 0, errors |-> 0, raised |-> 0]

Init ==
    /\ process = "running"
    /\ slots = {}
    /\ unread = {}
    /\ warming = {}
    /\ position = [d \in Deployments |-> "flat"]
    /\ account = [d \in Deployments |-> [long |-> 0, short |-> 0]]
    /\ pending = [d \in Deployments |-> <<>>]
    /\ counters = [d \in Deployments |-> NoCounts]
    /\ disk = {}
    /\ used = {}
    /\ stopped = {}
    /\ bars = 0
    /\ starts = 0

-------------------------------------------------------------------------------
(* StrategyRuntime *)

Entries == CASE Direction = "long_only"  -> {"long"}
             [] Direction = "short_only" -> {"short"}
             [] Direction = "neutral"    -> {"long", "short"}

\* on_kline: where a closed bar may take the position.
AfterBar(p) == IF p = "flat" THEN {"flat"} \cup Entries ELSE {p, "flat"}

\* The side of the signal that goes with a change of position.
SideOf(from, to) == IF to = "long" \/ from = "short" THEN "buy" ELSE "sell"

-------------------------------------------------------------------------------
(* Deployment *)

\* deploy refuses a strategy that has a slot.
Occupied(d) == \E e \in slots : StrategyOf[e] = StrategyOf[d]

\* A fresh runtime in a slot of its own; deploy then awaits the warm-up.
OccupySlot(d) ==
    /\ slots' = slots \cup {d}
    /\ warming' = warming \cup {d}
    /\ position' = [position EXCEPT ![d] = "flat"]
    /\ counters' = [counters EXCEPT ![d] = NoCounts]

Deploy(d) ==
    /\ process = "running"
    /\ d \notin used
    /\ ~ Occupied(d)
    /\ OccupySlot(d)
    /\ used' = used \cup {d}
    /\ UNCHANGED <<process, unread, account, pending, disk, stopped, bars, starts>>

\* The historical bars are fed to the runtime, whose signals are dropped; or
\* the fetch fails, or holds nothing that moves the position.  Then the file is
\* written from the slots there are now.
FinishWarmup(d) ==
    /\ d \in warming
    /\ warming' = warming \ {d}
    /\ \E p \in {position[d], "flat"} \cup Entries : position' = [position EXCEPT ![d] = p]
    /\ disk' = slots
    /\ UNCHANGED <<process, slots, unread, account, pending, counters, used, stopped, bars, starts>>

SlotsOf(s) == {d \in slots : StrategyOf[d] = s}

StopStrategyUnsaved(s) ==
    /\ process = "running"
    /\ SlotsOf(s) # {}
    /\ slots' = slots \ SlotsOf(s)
    /\ stopped' = stopped \cup SlotsOf(s)
    /\ UNCHANGED <<process, unread, warming, position, account, pending, counters, disk, used,
                   bars, starts>>

\* stop_by_strategy_id: the slots go, what their signals scheduled stays.
StopStrategy(s) ==
    /\ process = "running"
    /\ SlotsOf(s) # {}
    /\ slots' = slots \ SlotsOf(s)
    /\ disk' = slots \ SlotsOf(s)
    /\ stopped' = stopped \cup SlotsOf(s)
    /\ UNCHANGED <<process, unread, warming, position, account, pending, counters, used, bars, starts>>

-------------------------------------------------------------------------------
(* Klines and signals *)

WithSignal(counts) == [counts EXCEPT !.signals = @ + 1]
WithRaised(counts) == [counts EXCEPT !.errors = @ + 1, !.raised = @ + 1]

\* _on_kline: every slot of the symbol processes the closed bar.  A changed
\* position is a signal, and a signal schedules _execute_signal; a runtime that
\* raises, while it computes its indicators or conditions and so before its
\* position moves, counts an error and leaves the other slots their bar.
Bar ==
    /\ process # "down"
    /\ bars < MaxBars
    /\ bars' = bars + 1
    /\ \E raising \in SUBSET slots : \E next \in [Deployments -> Positions] :
          /\ \A d \in Deployments : next[d] \in IF d \in slots \ raising THEN AfterBar(position[d])
                                                                         ELSE {position[d]}
          /\ position' = next
          /\ LET Signalled(d) == next[d] # position[d]
             IN  /\ pending' = [d \in Deployments |->
                                   IF Signalled(d) THEN Append(pending[d], SideOf(position[d], next[d]))
                                                   ELSE pending[d]]
                 /\ counters' = [d \in Deployments |->
                                   IF Signalled(d) THEN WithSignal(counters[d])
                                   ELSE IF d \in raising THEN WithRaised(counters[d])
                                   ELSE counters[d]]
    /\ UNCHANGED <<process, slots, unread, warming, account, disk, used, stopped, starts>>

\* The position side an order of _execute_signal names.
PosSideOf(side) == IF side = "buy" THEN "long" ELSE "short"

\* The order opens or adds to the position of that side (both position sides
\* hold only orders of their own direction, so nothing ever reduces).
PlaceOrder(d) ==
    /\ pending[d] # <<>>
    /\ account' = [account EXCEPT ![d][PosSideOf(Head(pending[d]))] = @ + 1]
    /\ pending' = [pending EXCEPT ![d] = Tail(@)]
    /\ counters' = [counters EXCEPT ![d].orders = @ + 1]
    /\ UNCHANGED <<process, slots, unread, warming, position, disk, used, stopped, bars, starts>>

FailOrderUncounted(d) ==
    /\ pending[d] # <<>>
    /\ pending' = [pending EXCEPT ![d] = Tail(@)]
    /\ UNCHANGED <<process, slots, unread, warming, position, account, counters, disk, used,
                   stopped, bars, starts>>

\* place_order raises: the margin of an order that opens does not suffice.
FailOrder(d) ==
    /\ pending[d] # <<>>
    /\ pending' = [pending EXCEPT ![d] = Tail(@)]
    /\ counters' = [counters EXCEPT ![d].errors = @ + 1]
    /\ UNCHANGED <<process, slots, unread, warming, position, account, disk, used, stopped,
                   bars, starts>>

-------------------------------------------------------------------------------
(* The process *)

\* Everything in memory is gone: runtimes, tasks and deploys in flight.
Vanish ==
    /\ process' = "down"
    /\ slots' = {}
    /\ unread' = {}
    /\ warming' = {}
    /\ position' = [d \in Deployments |-> "flat"]
    /\ pending' = [d \in Deployments |-> <<>>]
    /\ counters' = [d \in Deployments |-> NoCounts]

Crash ==
    /\ process # "down"
    /\ Vanish
    /\ UNCHANGED <<account, disk, used, stopped, bars, starts>>

\* stop() saves the slots before it clears them.
Shutdown ==
    /\ process = "running"
    /\ Vanish
    /\ disk' = slots
    /\ UNCHANGED <<account, used, stopped, bars, starts>>

\* start() reads the file.
Start ==
    /\ process = "down"
    /\ starts < MaxRestarts
    /\ process' = "starting"
    /\ unread' = disk
    /\ starts' = starts + 1
    /\ UNCHANGED <<slots, warming, position, account, pending, counters, disk, used, stopped, bars>>

\* _restore_state deploys one after the other.
RestoreDeployment(d) ==
    /\ process = "starting"
    /\ warming = {}
    /\ d \in unread
    /\ ~ Occupied(d)
    /\ unread' = unread \ {d}
    /\ OccupySlot(d)
    /\ UNCHANGED <<process, account, pending, disk, used, stopped, bars, starts>>

\* The strategy has lost its rules, does not compile, or is already restored.
SkipDeployment(d) ==
    /\ process = "starting"
    /\ warming = {}
    /\ d \in unread
    /\ unread' = unread \ {d}
    /\ UNCHANGED <<process, slots, warming, position, account, pending, counters, disk, used,
                   stopped, bars, starts>>

FinishStart ==
    /\ process = "starting"
    /\ warming = {}
    /\ unread = {}
    /\ process' = "running"
    /\ UNCHANGED <<slots, unread, warming, position, account, pending, counters, disk, used,
                   stopped, bars, starts>>

-------------------------------------------------------------------------------

Next ==
    \/ \E d \in Deployments : \/ Deploy(d) \/ FinishWarmup(d) \/ PlaceOrder(d) \/ FailOrder(d)
                              \/ RestoreDeployment(d) \/ SkipDeployment(d)
                              \/ StopStrategy(StrategyOf[d])
    \/ Bar \/ Crash \/ Shutdown \/ Start \/ FinishStart

Spec == Init /\ [][Next]_vars

-------------------------------------------------------------------------------
(* Properties *)

\* A strategy is never deployed twice, although deploy suspends half-way, users
\* deploy and stop meanwhile and restarts restore what the file holds.
OneDeploymentPerStrategy ==
    \A d, e \in slots : StrategyOf[d] = StrategyOf[e] => d = e

\* What a user has stopped is in neither the slots nor the file, so no restart
\* brings it back, also when it was stopped during its own warm-up or another's.
StoppedStaysStopped == stopped \cap (slots \cup disk) = {}

\* Once deploy has returned, a crash at any moment does not lose a deployment.
DeploymentsPersist == process = "running" => slots \ warming \subseteq disk

\* No signal is lost or executed twice: each one emitted has become an order or
\* an error or is still scheduled, also for a slot that was stopped meanwhile;
\* the errors beyond those are the bars on which the runtime raised.
SignalsAccounted ==
    \A d \in Deployments :
        counters[d].signals =
            counters[d].orders + (counters[d].errors - counters[d].raised) + Len(pending[d])

\* A strategy declared long_only never holds a short position.
LongOnlyNeverShort ==
    Direction = "long_only" => \A d \in Deployments : account[d].short = 0

-------------------------------------------------------------------------------
(* What users are promised *)

\* The deployments that run: those with a slot, while the service is up, and
\* otherwise those a restart may still find.
Standing == IF process = "running" THEN slots ELSE slots \cup unread \cup disk

StageOf(d) ==
    CASE d \in Standing -> IF process = "running" /\ d \in warming THEN "starting" ELSE "running"
      [] d \in stopped \ Standing -> "stopped"
      [] d \in used \ (stopped \cup Standing) -> "lost"
      [] OTHER -> "unused"

Register == INSTANCE DeploymentRegister WITH
                service <- IF process = "running" THEN "serving" ELSE "recovering",
                stage   <- [d \in Deployments |-> StageOf(d)]

\* Through crashes at any moment, shutdowns and restores, overlapping warm-ups
\* and stops, every step is one a user was promised, or none to a user: what
\* runs runs on, or is recovered, until its user stops it; what was stopped
\* never comes back, also from the file; and no two run of one strategy, also
\* when a restore finds one that an earlier restore had passed over.
RegisterSpec == Register!Spec

=============================================================================
