--------------------------- MODULE StrategyProofs ---------------------------
(***************************************************************************)
(* Theorems of the deployments that the strategy runner serves, each for   *)
(* all values of the constants, and that the runner implements             *)
(* DeploymentRegister.  Each section begins with the argument.             *)
(***************************************************************************)
EXTENDS StrategyRunner, TLAPS

-------------------------------------------------------------------------------
(***************************************************************************)
(* The deployments of the strategy runner, for any deployments and         *)
(* strategies, any number of bars and any number of restarts.              *)
(*                                                                         *)
(* The stated invariants rest on two more: what a process that is down or  *)
(* restoring has in memory, so that a deployment that is restored begins   *)
(* with neither a slot nor a signal, and the bound of what an account      *)
(* holds by the bars there were, for the types.                            *)
(***************************************************************************)

\* An id that was never handed out is nowhere.
UsedOnly ==
    /\ slots \subseteq used /\ disk \subseteq used /\ stopped \subseteq used
    /\ \A d \in Deployments \ used : pending[d] = <<>>

\* A process that is down has nothing in memory.
DownIsEmpty == process = "down" => slots = {} /\ \A d \in Deployments : pending[d] = <<>>

\* What waits to be restored was not stopped, has no slot and no signal.
UnreadIsFresh ==
    /\ unread # {} => process = "starting"
    /\ unread \subseteq used
    /\ unread \cap (slots \cup stopped) = {}
    /\ \A d \in unread : pending[d] = <<>>

\* DeploymentsPersist holds while restoring, too.
WarmOnDisk == slots \ warming \subseteq disk

\* The counters of a deployment with so many signals still scheduled.
Reckoned(counts, waiting) == counts.signals = counts.orders + (counts.errors - counts.raised) + waiting

\* Each bar makes at most one signal or one error, and each signal at most one order.
BarsBoundSignals ==
    \A d \in Deployments :
        /\ counters[d].signals + counters[d].raised <= bars
        /\ account[d].long + account[d].short + Len(pending[d]) <= bars

RunnerInv ==
    /\ TypeOK
    /\ UsedOnly /\ DownIsEmpty /\ UnreadIsFresh /\ WarmOnDisk /\ BarsBoundSignals
    /\ OneDeploymentPerStrategy /\ StoppedStaysStopped /\ SignalsAccounted

-------------------------------------------------------------------------------

\* Adding a signal and taking one.
LEMMA SignalQueue ==
    ASSUME NEW q \in Seq(Sides)
    PROVE  /\ Len(q) \in Nat
           /\ \A s \in Sides : Append(q, s) \in Seq(Sides) /\ Len(Append(q, s)) = Len(q) + 1
           /\ q # <<>> => Head(q) \in Sides /\ Tail(q) \in Seq(Sides) /\ Len(Tail(q)) = Len(q) - 1
           /\ q = <<>> => Len(q) = 0
OBVIOUS

LEMMA SideOfType == ASSUME NEW from, NEW to PROVE SideOf(from, to) \in Sides
BY DEF SideOf, Sides

LEMMA RunnerInitInv == Init => RunnerInv
<1> SUFFICES ASSUME Init PROVE RunnerInv
    OBVIOUS
<1>1. TypeOK
      BY ConstantsAssumption DEF Init, TypeOK, Positions, NoCounts, Counts
<1>2. UsedOnly /\ DownIsEmpty /\ UnreadIsFresh /\ WarmOnDisk
      BY DEF Init, UsedOnly, DownIsEmpty, UnreadIsFresh, WarmOnDisk
<1>3. BarsBoundSignals /\ SignalsAccounted
      BY DEF Init, BarsBoundSignals, SignalsAccounted, NoCounts
<1>4. OneDeploymentPerStrategy /\ StoppedStaysStopped
      BY DEF Init, OneDeploymentPerStrategy, StoppedStaysStopped
<1> QED
    BY <1>1, <1>2, <1>3, <1>4 DEF RunnerInv

\* A slot is taken by a deployment that has no signal and was not stopped:
\* deploy and restore have this in common.
LEMMA OccupyKeeps ==
    ASSUME RunnerInv, NEW d \in Deployments, ~ Occupied(d), OccupySlot(d),
           d \notin stopped, d \notin unread', pending[d] = <<>>,
           process # "down", process' = process,
           unread' \subseteq unread, used \subseteq used', d \in used', used' \subseteq Deployments,
           UNCHANGED <<account, pending, disk, stopped, bars, starts>>
    PROVE  RunnerInv'
<1> USE DEF OccupySlot
<1>1. TypeOK'
  <2>1. /\ process' \in {"down", "starting", "running"} /\ slots' \in SUBSET Deployments
        /\ unread' \in SUBSET Deployments /\ warming' \in SUBSET Deployments
        /\ position' \in [Deployments -> Positions] /\ used' \in SUBSET Deployments
        BY DEF RunnerInv, TypeOK, Positions
  <2>2. counters' \in [Deployments -> Counts]
        BY ConstantsAssumption DEF RunnerInv, TypeOK, NoCounts, Counts
  <2> QED
      BY <2>1, <2>2 DEF RunnerInv, TypeOK
<1>2. UsedOnly'
      BY DEF RunnerInv, UsedOnly
<1>3. DownIsEmpty' /\ UnreadIsFresh'
      BY DEF RunnerInv, DownIsEmpty, UnreadIsFresh
<1>4. WarmOnDisk'
      BY DEF RunnerInv, WarmOnDisk
<1>5. BarsBoundSignals' /\ SignalsAccounted'
  <2> SUFFICES ASSUME NEW e \in Deployments
               PROVE  /\ counters'[e].signals + counters'[e].raised <= bars
                      /\ account[e].long + account[e].short + Len(pending[e]) <= bars
                      /\ Reckoned(counters'[e], Len(pending[e]))
      BY DEF BarsBoundSignals, SignalsAccounted, Reckoned
  <2>1. counters'[e] = IF e = d THEN NoCounts ELSE counters[e]
        BY DEF RunnerInv, TypeOK
  <2>2. CASE e = d
        BY <2>1, <2>2, SignalQueue DEF RunnerInv, TypeOK, BarsBoundSignals, NoCounts, Reckoned
  <2>3. CASE e # d
        BY <2>1, <2>3 DEF RunnerInv, BarsBoundSignals, SignalsAccounted, Reckoned
  <2> QED
      BY <2>2, <2>3
<1>6. OneDeploymentPerStrategy'
      BY DEF RunnerInv, OneDeploymentPerStrategy, Occupied
<1>7. StoppedStaysStopped'
      BY DEF RunnerInv, StoppedStaysStopped
<1> QED
    BY <1>1, <1>2, <1>3, <1>4, <1>5, <1>6, <1>7 DEF RunnerInv

LEMMA DeployKeeps ==
    ASSUME RunnerInv, NEW d \in Deployments, Deploy(d)
    PROVE  RunnerInv'
<1>1. d \notin stopped /\ pending[d] = <<>> /\ unread = {}
      BY DEF RunnerInv, UsedOnly, UnreadIsFresh, Deploy
<1> QED
    BY <1>1, OccupyKeeps DEF Deploy, RunnerInv, TypeOK

LEMMA RestoreKeeps ==
    ASSUME RunnerInv, NEW d \in Deployments, RestoreDeployment(d)
    PROVE  RunnerInv'
<1>1. d \notin stopped /\ pending[d] = <<>> /\ d \in used
      BY DEF RunnerInv, UnreadIsFresh, RestoreDeployment
<1> QED
    BY <1>1, OccupyKeeps DEF RestoreDeployment, RunnerInv, TypeOK

LEMMA FinishWarmupKeeps ==
    ASSUME RunnerInv, NEW d \in Deployments, FinishWarmup(d)
    PROVE  RunnerInv'
<1> USE DEF FinishWarmup
<1>1. Entries \subseteq Positions
      BY ConstantsAssumption DEF Entries, Positions
<1>2. TypeOK'
      BY <1>1 DEF RunnerInv, TypeOK, Positions
<1>3. UsedOnly' /\ DownIsEmpty' /\ UnreadIsFresh' /\ WarmOnDisk'
      BY DEF RunnerInv, UsedOnly, DownIsEmpty, UnreadIsFresh, WarmOnDisk
<1>4. BarsBoundSignals' /\ SignalsAccounted'
      BY DEF RunnerInv, BarsBoundSignals, SignalsAccounted
<1>5. OneDeploymentPerStrategy' /\ StoppedStaysStopped'
      BY DEF RunnerInv, OneDeploymentPerStrategy, StoppedStaysStopped
<1> QED
    BY <1>2, <1>3, <1>4, <1>5 DEF RunnerInv

LEMMA StopKeeps ==
    ASSUME RunnerInv, NEW s, StopStrategy(s)
    PROVE  RunnerInv'
<1> USE DEF StopStrategy, SlotsOf
<1>1. TypeOK'
      BY DEF RunnerInv, TypeOK
<1>2. UsedOnly' /\ DownIsEmpty' /\ UnreadIsFresh' /\ WarmOnDisk'
      BY DEF RunnerInv, UsedOnly, DownIsEmpty, UnreadIsFresh, WarmOnDisk
<1>3. BarsBoundSignals' /\ SignalsAccounted'
      BY DEF RunnerInv, BarsBoundSignals, SignalsAccounted
<1>4. OneDeploymentPerStrategy' /\ StoppedStaysStopped'
      BY DEF RunnerInv, OneDeploymentPerStrategy, StoppedStaysStopped
<1> QED
    BY <1>1, <1>2, <1>3, <1>4 DEF RunnerInv

\* A bar moves only positions of slots, and counts each signal it queues.
LEMMA BarKeeps ==
    ASSUME RunnerInv, Bar
    PROVE  RunnerInv'
<1>1. PICK raising \in SUBSET slots, next \in [Deployments -> Positions] :
        /\ \A d \in Deployments : next[d] \in IF d \in slots \ raising THEN AfterBar(position[d])
                                                                       ELSE {position[d]}
        /\ position' = next
        /\ pending' = [d \in Deployments |-> IF next[d] # position[d]
                                             THEN Append(pending[d], SideOf(position[d], next[d]))
                                             ELSE pending[d]]
        /\ counters' = [d \in Deployments |->
                          IF next[d] # position[d] THEN WithSignal(counters[d])
                          ELSE IF d \in raising THEN WithRaised(counters[d])
                          ELSE counters[d]]
      BY DEF Bar
<1>2. bars < MaxBars /\ bars' = bars + 1 /\ bars \in Nat /\ MaxBars \in Nat
  <2>1. bars < MaxBars /\ bars' = bars + 1
        BY DEF Bar
  <2>2. bars \in Nat /\ MaxBars \in Nat
        BY ConstantsAssumption DEF RunnerInv, TypeOK
  <2> QED
      BY <2>1, <2>2
<1>3. UNCHANGED <<process, slots, unread, warming, account, disk, used, stopped, starts>>
      BY DEF Bar
<1>4. \A d \in Deployments :
        /\ pending'[d] \in Seq(Sides)
        /\ counters'[d] \in Counts
        /\ counters'[d].signals + counters'[d].raised <= bars'
        /\ account[d].long + account[d].short + Len(pending'[d]) <= bars'
        /\ Reckoned(counters'[d], Len(pending'[d]))
        /\ d \notin slots => pending'[d] = pending[d]
  <2> SUFFICES ASSUME NEW d \in Deployments
               PROVE  /\ pending'[d] \in Seq(Sides)
                      /\ counters'[d] \in Counts
                      /\ counters'[d].signals + counters'[d].raised <= bars'
                      /\ account[d].long + account[d].short + Len(pending'[d]) <= bars'
                      /\ Reckoned(counters'[d], Len(pending'[d]))
                      /\ d \notin slots => pending'[d] = pending[d]
      OBVIOUS
  <2>1. /\ pending[d] \in Seq(Sides) /\ account[d] \in [long: 0..MaxBars, short: 0..MaxBars]
        /\ counters[d] \in Counts
        /\ counters[d].signals + counters[d].raised <= bars
        /\ account[d].long + account[d].short + Len(pending[d]) <= bars
        /\ Reckoned(counters[d], Len(pending[d]))
        BY DEF RunnerInv, TypeOK, BarsBoundSignals, SignalsAccounted, Counts, Reckoned
  <2>2. PICK long \in Nat, short \in Nat, signals \in Nat, done \in Nat, errors \in Nat, raised \in Nat,
             waiting \in Nat :
          /\ long = account[d].long /\ short = account[d].short /\ waiting = Len(pending[d])
          /\ counters[d] = [signals |-> signals, orders |-> done, errors |-> errors, raised |-> raised]
    <3>1. account[d].long \in Nat /\ account[d].short \in Nat /\ Len(pending[d]) \in Nat
          BY <2>1, SignalQueue
    <3>2. /\ counters[d].signals \in Nat /\ counters[d].orders \in Nat /\ counters[d].errors \in Nat
          /\ counters[d].raised \in Nat
          BY <2>1 DEF Counts
    <3>3. counters[d] = [signals |-> counters[d].signals, orders |-> counters[d].orders,
                         errors |-> counters[d].errors, raised |-> counters[d].raised]
          BY <2>1 DEF Counts
    <3> QED
        BY <3>1, <3>2, <3>3
  <2>3. /\ signals + raised <= bars /\ long + short + waiting <= bars
        /\ signals = done + (errors - raised) + waiting
    <3>1. /\ counters[d].signals = signals /\ counters[d].orders = done /\ counters[d].errors = errors
          /\ counters[d].raised = raised
          BY <2>2
    <3>2. long + short + waiting <= bars
          BY <2>1, <2>2
    <3> QED
        BY <2>1, <2>2, <3>1, <3>2 DEF Reckoned
  <2>4. /\ signals <= bars /\ done <= bars /\ errors <= bars /\ raised <= bars /\ bars + 1 <= MaxBars
        /\ signals + 1 \in 0..MaxBars /\ errors + 1 \in 0..MaxBars /\ raised + 1 \in 0..MaxBars
        /\ signals \in 0..MaxBars /\ done \in 0..MaxBars /\ errors \in 0..MaxBars /\ raised \in 0..MaxBars
        BY <1>2, <2>3
  <2>5. CASE next[d] # position[d]
    <3>1. d \in slots
          BY <1>1, <2>5
    <3>2. pending'[d] = Append(pending[d], SideOf(position[d], next[d]))
          BY <1>1, <2>5
    <3>3. pending'[d] \in Seq(Sides) /\ Len(pending'[d]) = waiting + 1
          BY <2>1, <2>2, <3>2, SignalQueue, SideOfType
    <3>4. counters'[d] = [signals |-> signals + 1, orders |-> done, errors |-> errors, raised |-> raised]
      <4>1. counters'[d] = WithSignal(counters[d])
            BY <1>1, <2>5
      <4> QED
          BY <2>2, <4>1 DEF WithSignal
    <3>5. counters'[d] \in Counts
          BY <2>4, <3>4 DEF Counts
    <3>6. Reckoned(counters'[d], waiting + 1) /\ counters'[d].signals + counters'[d].raised <= bars'
          BY <1>2, <2>3, <3>4 DEF Reckoned
    <3>7. long + short + (waiting + 1) <= bars'
          BY <1>2, <2>3
    <3> QED
        BY <2>2, <3>1, <3>3, <3>5, <3>6, <3>7
  <2>6. CASE next[d] = position[d]
    <3>1. pending'[d] = pending[d]
          BY <1>1, <2>6
    <3>2. long + short + waiting <= bars'
          BY <1>2, <2>3
    <3>3. CASE d \in raising
      <4>1. counters'[d] = [signals |-> signals, orders |-> done, errors |-> errors + 1, raised |-> raised + 1]
        <5>1. counters'[d] = WithRaised(counters[d])
              BY <1>1, <2>6, <3>3
        <5> DEFINE once == [counters[d] EXCEPT !.errors = counters[d].errors + 1]
        <5>2. once = [signals |-> signals, orders |-> done, errors |-> errors + 1, raised |-> raised]
              BY <2>2
        <5>3. counters[d].raised + 1 = raised + 1
              BY <2>2
        <5>4. WithRaised(counters[d]) = [once EXCEPT !.raised = counters[d].raised + 1]
              BY Zenon DEF WithRaised
        <5> HIDE DEF once
        <5> QED
            BY <5>1, <5>2, <5>3, <5>4
      <4>2. counters'[d] \in Counts
            BY <2>4, <4>1 DEF Counts
      <4>3. Reckoned(counters'[d], waiting) /\ counters'[d].signals + counters'[d].raised <= bars'
            BY <1>2, <2>3, <4>1 DEF Reckoned
      <4> QED
          BY <2>1, <2>2, <3>1, <3>2, <4>2, <4>3
    <3>4. CASE d \notin raising
      <4>1. counters'[d] = counters[d]
            BY <1>1, <2>6, <3>4
      <4>2. counters'[d].signals = signals /\ counters'[d].raised = raised
            BY <2>2, <4>1
      <4>3. counters'[d].signals + counters'[d].raised <= bars'
            BY <1>2, <2>3, <4>2
      <4> QED
          BY <2>1, <2>2, <3>1, <3>2, <4>1, <4>3
    <3> QED
        BY <3>3, <3>4
  <2> QED
      BY <2>5, <2>6
<1>5. TypeOK'
  <2>1. pending' \in [Deployments -> Seq(Sides)]
        BY <1>1, <1>4
  <2>2. counters' \in [Deployments -> Counts]
        BY <1>1, <1>4
  <2>3. position' \in [Deployments -> Positions]
        BY <1>1, Zenon
  <2>4. bars' \in 0..MaxBars
        BY <1>2
  <2> QED
      BY <1>3, <2>1, <2>2, <2>3, <2>4 DEF RunnerInv, TypeOK
<1>6. UsedOnly' /\ DownIsEmpty' /\ UnreadIsFresh' /\ WarmOnDisk'
      BY <1>3, <1>4 DEF RunnerInv, TypeOK, UsedOnly, DownIsEmpty, UnreadIsFresh, WarmOnDisk
<1>7. BarsBoundSignals' /\ SignalsAccounted'
      BY <1>3, <1>4 DEF BarsBoundSignals, SignalsAccounted, Reckoned
<1>8. OneDeploymentPerStrategy' /\ StoppedStaysStopped'
      BY <1>3 DEF RunnerInv, OneDeploymentPerStrategy, StoppedStaysStopped
<1> QED
    BY <1>5, <1>6, <1>7, <1>8 DEF RunnerInv

\* A signal that is executed leaves the queue and becomes an order or an error.
LEMMA SignalLeaves ==
    ASSUME RunnerInv, NEW d \in Deployments, PlaceOrder(d) \/ FailOrder(d)
    PROVE  RunnerInv'
<1>1. pending[d] # <<>> /\ pending' = [pending EXCEPT ![d] = Tail(@)]
      BY DEF PlaceOrder, FailOrder
<1>2. UNCHANGED <<process, slots, unread, warming, position, disk, used, stopped, bars, starts>>
      BY DEF PlaceOrder, FailOrder
<1>3. /\ pending[d] \in Seq(Sides) /\ account[d] \in [long: 0..MaxBars, short: 0..MaxBars]
      /\ counters[d] \in Counts
      /\ counters[d].signals + counters[d].raised <= bars /\ bars \in 0..MaxBars /\ MaxBars \in Nat
      /\ account[d].long + account[d].short + Len(pending[d]) <= bars
      /\ Reckoned(counters[d], Len(pending[d]))
      BY ConstantsAssumption DEF RunnerInv, TypeOK, BarsBoundSignals, SignalsAccounted, Counts, Reckoned
<1>4. /\ pending'[d] \in Seq(Sides) /\ Len(pending'[d]) = Len(pending[d]) - 1 /\ Len(pending[d]) \in Nat
      /\ Head(pending[d]) \in Sides
  <2>1. pending'[d] = Tail(pending[d])
        BY <1>1 DEF RunnerInv, TypeOK
  <2> QED
      BY <1>1, <1>3, <2>1, SignalQueue
<1>5. PICK long \in Nat, short \in Nat, signals \in Nat, done \in Nat, errors \in Nat, raised \in Nat,
           waiting \in Nat :
        /\ long = account[d].long /\ short = account[d].short
        /\ signals = counters[d].signals /\ done = counters[d].orders /\ errors = counters[d].errors
        /\ raised = counters[d].raised
        /\ waiting = Len(pending'[d]) /\ Len(pending[d]) = waiting + 1
  <2>1. account[d].long \in Nat /\ account[d].short \in Nat
        BY <1>3
  <2>2. /\ counters[d].signals \in Nat /\ counters[d].orders \in Nat /\ counters[d].errors \in Nat
        /\ counters[d].raised \in Nat
        BY <1>3 DEF Counts
  <2>3. Len(pending'[d]) \in Nat /\ Len(pending[d]) = Len(pending'[d]) + 1
        BY <1>4, SignalQueue
  <2> QED
      BY <2>1, <2>2, <2>3
<1>6. /\ bars \in Nat /\ bars <= MaxBars /\ MaxBars \in Nat
      /\ long + short + waiting + 1 <= bars
      /\ signals + raised <= bars /\ signals = done + (errors - raised) + waiting + 1
  <2>1. long + short + (waiting + 1) <= bars /\ signals = done + (errors - raised) + (waiting + 1)
        BY <1>3, <1>5 DEF Reckoned
  <2>2. bars \in Nat /\ bars <= MaxBars /\ MaxBars \in Nat /\ signals + raised <= bars
        BY <1>3, <1>5
  <2> QED
      BY <2>1, <2>2
<1>7. /\ account'[d] \in [long: 0..MaxBars, short: 0..MaxBars]
      /\ counters'[d] \in Counts
      /\ counters'[d].signals = signals /\ counters'[d].raised = raised
      /\ account'[d].long + account'[d].short + waiting <= bars
      /\ Reckoned(counters'[d], waiting)
  <2>0. /\ signals \in 0..MaxBars /\ done \in 0..MaxBars /\ errors \in 0..MaxBars /\ raised \in 0..MaxBars
        /\ long \in 0..MaxBars /\ short \in 0..MaxBars
        /\ done + 1 \in 0..MaxBars /\ errors + 1 \in 0..MaxBars
        /\ long + 1 \in 0..MaxBars /\ short + 1 \in 0..MaxBars
        BY <1>6
  <2>1. CASE PlaceOrder(d)
    <3>1. counters'[d] = [signals |-> signals, orders |-> done + 1, errors |-> errors, raised |-> raised]
          BY <2>1, <1>3, <1>5 DEF PlaceOrder, RunnerInv, TypeOK, Counts
    <3>2. account'[d] \in {[long |-> long + 1, short |-> short], [long |-> long, short |-> short + 1]}
          BY <2>1, <1>3, <1>4, <1>5 DEF PlaceOrder, RunnerInv, TypeOK, PosSideOf
    <3>3. /\ counters'[d] \in Counts
          /\ counters'[d].signals = signals /\ counters'[d].orders = done + 1
          /\ counters'[d].errors = errors /\ counters'[d].raised = raised
          BY <2>0, <3>1 DEF Counts
    <3>4. /\ account'[d] \in [long: 0..MaxBars, short: 0..MaxBars]
          /\ account'[d].long + account'[d].short = long + short + 1
          BY <2>0, <3>2
    <3>5. account'[d].long + account'[d].short + waiting <= bars
          BY <1>6, <3>4
    <3>6. signals = (done + 1) + (errors - raised) + waiting
          BY <1>6
    <3> QED
        BY <3>3, <3>4, <3>5, <3>6 DEF Reckoned
  <2>2. CASE FailOrder(d)
    <3>1. /\ counters'[d] = [signals |-> signals, orders |-> done, errors |-> errors + 1,
                           raised |-> raised]
          /\ account'[d] = [long |-> long, short |-> short]
          BY <2>2, <1>3, <1>5 DEF FailOrder, RunnerInv, TypeOK, Counts
    <3>2. /\ counters'[d] \in Counts
          /\ counters'[d].signals = signals /\ counters'[d].orders = done
          /\ counters'[d].errors = errors + 1 /\ counters'[d].raised = raised
          BY <2>0, <3>1 DEF Counts
    <3>3. account'[d] \in [long: 0..MaxBars, short: 0..MaxBars]
          BY <2>0, <3>1
    <3>4. signals = done + ((errors + 1) - raised) + waiting /\ long + short + waiting <= bars
          BY <1>6
    <3>5. account'[d].long = long /\ account'[d].short = short
          BY <3>1
    <3> QED
        BY <3>2, <3>3, <3>4, <3>5 DEF Reckoned
  <2> QED
      BY <2>1, <2>2
<1>8. /\ \A e \in Deployments \ {d} : /\ pending'[e] = pending[e] /\ account'[e] = account[e]
                                      /\ counters'[e] = counters[e]
      /\ DOMAIN pending' = Deployments /\ DOMAIN account' = Deployments
      /\ DOMAIN counters' = Deployments
      BY <1>1 DEF PlaceOrder, FailOrder, RunnerInv, TypeOK
<1>9. TypeOK'
  <2>1. pending' \in [Deployments -> Seq(Sides)]
        BY <1>1, <1>4 DEF RunnerInv, TypeOK
  <2>2. account' \in [Deployments -> [long: 0..MaxBars, short: 0..MaxBars]]
        BY <1>7 DEF RunnerInv, TypeOK, PlaceOrder, FailOrder
  <2>3. counters' \in [Deployments -> Counts]
        BY <1>7 DEF RunnerInv, TypeOK, PlaceOrder, FailOrder, Counts
  <2> QED
      BY <1>2, <2>1, <2>2, <2>3 DEF RunnerInv, TypeOK
<1>10. UsedOnly' /\ DownIsEmpty' /\ UnreadIsFresh' /\ WarmOnDisk'
      BY <1>1, <1>2, <1>8 DEF RunnerInv, TypeOK, UsedOnly, DownIsEmpty, UnreadIsFresh, WarmOnDisk
<1>11. BarsBoundSignals' /\ SignalsAccounted'
  <2> SUFFICES ASSUME NEW e \in Deployments
               PROVE  /\ counters'[e].signals + counters'[e].raised <= bars'
                      /\ account'[e].long + account'[e].short + Len(pending'[e]) <= bars'
                      /\ Reckoned(counters'[e], Len(pending'[e]))
      BY DEF BarsBoundSignals, SignalsAccounted, Reckoned
  <2>1. CASE e = d
        BY <1>2, <1>5, <1>6, <1>7, <2>1
  <2>2. CASE e # d
        BY <1>2, <1>8, <2>2 DEF RunnerInv, BarsBoundSignals, SignalsAccounted, Reckoned
  <2> QED
      BY <2>1, <2>2
<1>12. OneDeploymentPerStrategy' /\ StoppedStaysStopped'
      BY <1>2 DEF RunnerInv, OneDeploymentPerStrategy, StoppedStaysStopped
<1> QED
    BY <1>9, <1>10, <1>11, <1>12 DEF RunnerInv

\* Nothing in memory survives; the file is what it was, or what the slots are.
LEMMA VanishKeeps ==
    ASSUME RunnerInv, Crash \/ Shutdown
    PROVE  RunnerInv'
<1>1. Vanish /\ UNCHANGED <<account, used, stopped, bars, starts>> /\ disk' \in {disk, slots}
      BY DEF Crash, Shutdown
<1> USE DEF Vanish
<1>2. TypeOK'
  <2>1. counters' \in [Deployments -> Counts]
        BY <1>1, ConstantsAssumption DEF NoCounts, Counts
  <2>2. pending' \in [Deployments -> Seq(Sides)] /\ position' \in [Deployments -> Positions]
        BY <1>1 DEF Positions
  <2> QED
      BY <1>1, <2>1, <2>2 DEF RunnerInv, TypeOK
<1>3. UsedOnly' /\ DownIsEmpty' /\ UnreadIsFresh' /\ WarmOnDisk'
      BY <1>1 DEF RunnerInv, UsedOnly, DownIsEmpty, UnreadIsFresh, WarmOnDisk
<1>4. BarsBoundSignals' /\ SignalsAccounted'
  <2> SUFFICES ASSUME NEW e \in Deployments
               PROVE  /\ counters'[e].signals + counters'[e].raised <= bars'
                      /\ account'[e].long + account'[e].short + Len(pending'[e]) <= bars'
                      /\ Reckoned(counters'[e], Len(pending'[e]))
      BY DEF BarsBoundSignals, SignalsAccounted, Reckoned
  <2>1. counters'[e] = NoCounts /\ Len(pending'[e]) = 0 /\ bars' = bars /\ account' = account
        BY <1>1
  <2>2. /\ account[e].long \in Nat /\ account[e].short \in Nat /\ bars \in Nat /\ Len(pending[e]) \in Nat
        /\ account[e].long + account[e].short + Len(pending[e]) <= bars
        BY SignalQueue DEF RunnerInv, TypeOK, BarsBoundSignals
  <2>3. Reckoned(NoCounts, 0) /\ NoCounts.signals + NoCounts.raised = 0
        BY DEF NoCounts, Reckoned
  <2>4. 0 <= bars /\ account[e].long + account[e].short + 0 <= bars
        BY <2>2
  <2> QED
      BY <2>1, <2>3, <2>4
<1>5. OneDeploymentPerStrategy' /\ StoppedStaysStopped'
      BY <1>1 DEF RunnerInv, OneDeploymentPerStrategy, StoppedStaysStopped
<1> QED
    BY <1>2, <1>3, <1>4, <1>5 DEF RunnerInv

LEMMA StartKeeps ==
    ASSUME RunnerInv, Start
    PROVE  RunnerInv'
<1> USE DEF Start
<1>1. TypeOK'
      BY ConstantsAssumption DEF RunnerInv, TypeOK
<1>2. UsedOnly' /\ DownIsEmpty' /\ WarmOnDisk'
      BY DEF RunnerInv, UsedOnly, DownIsEmpty, WarmOnDisk
<1>3. UnreadIsFresh'
      BY DEF RunnerInv, TypeOK, UnreadIsFresh, UsedOnly, DownIsEmpty, StoppedStaysStopped
<1>4. BarsBoundSignals' /\ SignalsAccounted'
      BY DEF RunnerInv, BarsBoundSignals, SignalsAccounted
<1>5. OneDeploymentPerStrategy' /\ StoppedStaysStopped'
      BY DEF RunnerInv, OneDeploymentPerStrategy, StoppedStaysStopped
<1> QED
    BY <1>1, <1>2, <1>3, <1>4, <1>5 DEF RunnerInv

LEMMA RestoringKeeps ==
    ASSUME RunnerInv, FinishStart \/ \E d \in Deployments : SkipDeployment(d)
    PROVE  RunnerInv'
<1>1. /\ process' \in {process, "running"} /\ process = "starting" /\ unread' \subseteq unread
      /\ process' = "running" => unread' = {}
      /\ UNCHANGED <<slots, warming, position, account, pending, counters, disk, used, stopped,
                     bars, starts>>
      BY DEF FinishStart, SkipDeployment
<1>2. TypeOK'
      BY <1>1 DEF RunnerInv, TypeOK
<1>3. UsedOnly' /\ DownIsEmpty' /\ UnreadIsFresh' /\ WarmOnDisk'
      BY <1>1 DEF RunnerInv, UsedOnly, DownIsEmpty, UnreadIsFresh, WarmOnDisk
<1>4. BarsBoundSignals' /\ SignalsAccounted'
      BY <1>1 DEF RunnerInv, BarsBoundSignals, SignalsAccounted
<1>5. OneDeploymentPerStrategy' /\ StoppedStaysStopped'
      BY <1>1 DEF RunnerInv, OneDeploymentPerStrategy, StoppedStaysStopped
<1> QED
    BY <1>2, <1>3, <1>4, <1>5 DEF RunnerInv

LEMMA RunnerNextInv == RunnerInv /\ [Next]_vars => RunnerInv'
<1> SUFFICES ASSUME RunnerInv, [Next]_vars PROVE RunnerInv'
    OBVIOUS
<1>1. CASE \E d \in Deployments : Deploy(d)
      BY <1>1, DeployKeeps
<1>2. CASE \E d \in Deployments : FinishWarmup(d)
      BY <1>2, FinishWarmupKeeps
<1>3. CASE \E d \in Deployments : PlaceOrder(d) \/ FailOrder(d)
      BY <1>3, SignalLeaves
<1>4. CASE \E d \in Deployments : RestoreDeployment(d)
      BY <1>4, RestoreKeeps
<1>5. CASE \E d \in Deployments : StopStrategy(StrategyOf[d])
      BY <1>5, StopKeeps
<1>6. CASE Bar
      BY <1>6, BarKeeps
<1>7. CASE Crash \/ Shutdown
      BY <1>7, VanishKeeps
<1>8. CASE Start
      BY <1>8, StartKeeps
<1>9. CASE FinishStart \/ \E d \in Deployments : SkipDeployment(d)
      BY <1>9, RestoringKeeps
<1>10. CASE UNCHANGED vars
  <2>1. TypeOK'
        BY <1>10 DEF vars, RunnerInv, TypeOK
  <2>2. UsedOnly' /\ DownIsEmpty' /\ UnreadIsFresh' /\ WarmOnDisk'
        BY <1>10 DEF vars, RunnerInv, UsedOnly, DownIsEmpty, UnreadIsFresh, WarmOnDisk
  <2>3. BarsBoundSignals' /\ SignalsAccounted'
        BY <1>10 DEF vars, RunnerInv, BarsBoundSignals, SignalsAccounted
  <2>4. OneDeploymentPerStrategy' /\ StoppedStaysStopped'
        BY <1>10 DEF vars, RunnerInv, OneDeploymentPerStrategy, StoppedStaysStopped
  <2> QED
      BY <2>1, <2>2, <2>3, <2>4 DEF RunnerInv
<1> QED
    BY <1>1, <1>2, <1>3, <1>4, <1>5, <1>6, <1>7, <1>8, <1>9, <1>10 DEF Next

LEMMA RunnerHolds == Spec => []RunnerInv
<1> QED
    BY RunnerInitInv, RunnerNextInv, PTL DEF Spec

-------------------------------------------------------------------------------

\* The types of the runner: no counter and no position outgrows the bars.
THEOREM RunnerTypes == Spec => []TypeOK
<1>1. RunnerInv => TypeOK
      BY DEF RunnerInv
<1> QED
    BY <1>1, RunnerHolds, PTL

\* deploy checks and then suspends, and restores, stops and other deploys run
\* meanwhile: a strategy never has two slots.
THEOREM NeverDeployedTwice == Spec => []OneDeploymentPerStrategy
<1>1. RunnerInv => OneDeploymentPerStrategy
      BY DEF RunnerInv
<1> QED
    BY <1>1, RunnerHolds, PTL

\* No restart and no deploy that resumes brings back what a user has stopped.
THEOREM StopsAreFinal == Spec => []StoppedStaysStopped
<1>1. RunnerInv => StoppedStaysStopped
      BY DEF RunnerInv
<1> QED
    BY <1>1, RunnerHolds, PTL

\* A deployment whose warm-up has ended survives a crash at any moment.
THEOREM DeploymentsSurvive == Spec => []DeploymentsPersist
<1>1. RunnerInv => DeploymentsPersist
      BY DEF RunnerInv, WarmOnDisk, DeploymentsPersist
<1> QED
    BY <1>1, RunnerHolds, PTL

\* Every signal is an order, an error, or still scheduled.
THEOREM NoSignalLost == Spec => []SignalsAccounted
<1>1. RunnerInv => SignalsAccounted
      BY DEF RunnerInv
<1> QED
    BY <1>1, RunnerHolds, PTL

-------------------------------------------------------------------------------
(***************************************************************************)
(* The promise to users (DeploymentRegister), for any deployments and      *)
(* strategies, any number of bars and any number of restarts.              *)
(*                                                                         *)
(* Every step maps to a step of the register or to none, by what each      *)
(* stage says of slots, file and process.  That no strategy is held twice  *)
(* needs one more invariant: what a restart may find holds no strategy     *)
(* twice, although the file may still hold a deployment that was passed    *)
(* over while another one of its strategy has a slot.                      *)
(***************************************************************************)

\* No strategy is recorded twice, and a restart never finds two of it.
Alike(S) == \A d, e \in S : StrategyOf[d] = StrategyOf[e] => d = e
OneRecorded == Alike(disk) /\ (process # "running" => Alike(Standing))

\* What a stage of the register says of the runner.
StagesRead ==
    \A d \in Deployments :
        /\ StageOf(d) \in Register!Stage
        /\ StageOf(d) = "starting" <=> process = "running" /\ d \in slots \cap warming
        /\ StageOf(d) = "running" <=> d \in Standing /\ (process = "running" => d \notin warming)
        /\ StageOf(d) = "stopped" <=> d \in stopped
        /\ StageOf(d) = "lost" <=> d \in used \ (stopped \cup Standing)
        /\ StageOf(d) = "unused" <=> d \notin used

RegisterInv == RunnerInv /\ OneRecorded /\ StagesRead

LEMMA StandingFacts ==
    ASSUME RunnerInv
    PROVE  /\ Standing \subseteq used /\ Standing \subseteq Deployments
           /\ Standing \cap stopped = {} /\ stopped \subseteq used
           /\ process = "running" => Standing = slots
BY DEF RunnerInv, TypeOK, UsedOnly, UnreadIsFresh, StoppedStaysStopped, Standing

LEMMA StagesAreRead == RunnerInv => StagesRead
<1> SUFFICES ASSUME RunnerInv, NEW d \in Deployments
             PROVE  /\ StageOf(d) \in Register!Stage
                    /\ StageOf(d) = "starting" <=> process = "running" /\ d \in slots \cap warming
                    /\ StageOf(d) = "running" <=> d \in Standing /\ (process = "running" => d \notin warming)
                    /\ StageOf(d) = "stopped" <=> d \in stopped
                    /\ StageOf(d) = "lost" <=> d \in used \ (stopped \cup Standing)
                    /\ StageOf(d) = "unused" <=> d \notin used
    BY DEF StagesRead
<1>1. CASE d \in Standing
      BY <1>1, StandingFacts DEF StageOf, Register!Stage
<1>2. CASE d \in stopped
      BY <1>2, StandingFacts DEF StageOf, Register!Stage
<1>3. CASE d \in used \ (stopped \cup Standing)
      BY <1>3, StandingFacts DEF StageOf, Register!Stage
<1>4. CASE d \notin used
      BY <1>4, StandingFacts DEF StageOf, Register!Stage
<1> QED
    BY <1>1, <1>2, <1>3, <1>4

LEMMA OneRecordedKept ==
    ASSUME RunnerInv, OneRecorded, [Next]_vars
    PROVE  OneRecorded'
<1> USE DEF OneRecorded, Alike, Standing
<1>1. /\ process = "running" => unread = {}
      /\ process = "down" => slots = {} /\ unread = {}
      /\ Alike(slots)
      BY DEF RunnerInv, OneDeploymentPerStrategy, UnreadIsFresh, DownIsEmpty
<1>2. ASSUME NEW d \in Deployments, Deploy(d) PROVE OneRecorded'
      BY <1>2 DEF Deploy, OccupySlot
<1>3. ASSUME NEW d \in Deployments, FinishWarmup(d) PROVE OneRecorded'
      BY <1>1, <1>3 DEF FinishWarmup
<1>4. ASSUME NEW d \in Deployments, PlaceOrder(d) \/ FailOrder(d) PROVE OneRecorded'
      BY <1>4 DEF PlaceOrder, FailOrder
<1>5. ASSUME NEW d \in Deployments, RestoreDeployment(d) PROVE OneRecorded'
      BY <1>5 DEF RestoreDeployment, OccupySlot
<1>6. ASSUME NEW d \in Deployments, SkipDeployment(d) PROVE OneRecorded'
      BY <1>6 DEF SkipDeployment
<1>7. ASSUME NEW s, StopStrategy(s) PROVE OneRecorded'
      BY <1>1, <1>7 DEF StopStrategy
<1>8. CASE Bar \/ UNCHANGED vars
      BY <1>8 DEF Bar, vars
<1>9. CASE Crash \/ Shutdown
      BY <1>1, <1>9 DEF Crash, Shutdown, Vanish
<1>10. CASE Start \/ FinishStart
      BY <1>1, <1>10 DEF Start, FinishStart
<1> QED
    BY <1>2, <1>3, <1>4, <1>5, <1>6, <1>7, <1>8, <1>9, <1>10 DEF Next

LEMMA RegisterInvHolds == Spec => []RegisterInv
<1>1. Init => OneRecorded
      BY DEF Init, OneRecorded, Alike, Standing
<1>2. RunnerInv /\ OneRecorded /\ [Next]_vars => OneRecorded'
      BY OneRecordedKept
<1>3. Spec => []OneRecorded
      BY <1>1, <1>2, RunnerHolds, PTL DEF Spec
<1> QED
    BY <1>3, RunnerHolds, StagesAreRead, PTL DEF RegisterInv

LEMMA RegisterStarts == Init => Register!Init
BY DEF Init, Register!Init, StageOf, Standing

\* In the register no strategy is ever held twice.
LEMMA HeldOnce == RegisterInv => Register!OnePerStrategy
<1> SUFFICES ASSUME RegisterInv PROVE Register!OnePerStrategy
    OBVIOUS
<1>1. \A d \in Deployments : Register!Held(d) <=> d \in Standing
      BY StandingFacts DEF RegisterInv, StagesRead, Register!Held
<1>2. Alike(Standing)
  <2>1. CASE process = "running"
        BY <2>1, StandingFacts DEF RegisterInv, RunnerInv, OneDeploymentPerStrategy, Alike
  <2> QED
      BY <2>1 DEF RegisterInv, OneRecorded
<1> QED
    BY <1>1, <1>2 DEF Register!OnePerStrategy, Alike

\* The stages are equal when what they are read from is.
LEMMA StagesStay ==
    ASSUME RegisterInv, RegisterInv', used' = used, stopped' = stopped, Standing' = Standing,
           process' = "running" <=> process = "running",
           process = "running" => warming' \cap slots' = warming \cap slots
    PROVE  UNCHANGED Register!vars
<1>1. process = "running" => Standing = slots /\ Standing' = slots'
      BY DEF Standing
<1>2. ASSUME NEW d \in Deployments PROVE StageOf(d)' = StageOf(d)
      BY <1>1 DEF StageOf
<1> QED
    BY <1>2 DEF Register!vars

LEMMA RequestMapped ==
    ASSUME RegisterInv, RegisterInv', NEW d \in Deployments, Deploy(d)
    PROVE  Register!Request(d)
<1> USE DEF Deploy, OccupySlot
<1>1. /\ process = "running" /\ process' = "running"
      /\ Standing = slots /\ Standing' = slots \cup {d}
      BY DEF Standing
<1>2. d \notin slots /\ d \notin stopped /\ warming' \cap slots' = {d} \cup (warming \cap slots')
      BY StandingFacts, <1>1 DEF RegisterInv
<1>3. StageOf(d) = "unused" /\ StageOf(d)' = "starting"
      BY <1>1, <1>2 DEF RegisterInv, StageOf
<1>4. ASSUME NEW e \in Deployments \ {d} PROVE StageOf(e)' = StageOf(e)
      BY <1>1 DEF StageOf
<1> QED
    BY <1>1, <1>3, <1>4 DEF Register!Request

LEMMA SettleMapped ==
    ASSUME RegisterInv, RegisterInv', NEW d \in Deployments, FinishWarmup(d), process = "running"
    PROVE  Register!Settle(d) \/ UNCHANGED Register!vars
<1> USE DEF FinishWarmup
<1>1. process' = "running" /\ Standing = slots /\ Standing' = slots
      BY DEF Standing
<1>2. CASE d \in slots
  <2>1. StageOf(d) = "starting" /\ StageOf(d)' = "running"
        BY <1>1, <1>2 DEF StageOf
  <2>2. ASSUME NEW e \in Deployments \ {d} PROVE StageOf(e)' = StageOf(e)
        BY <1>1 DEF StageOf
  <2> QED
      BY <1>1, <2>1, <2>2 DEF Register!Settle
<1>3. CASE d \notin slots
  <2>1. ASSUME NEW e \in Deployments PROVE StageOf(e)' = StageOf(e)
        BY <1>1, <1>3 DEF StageOf
  <2> QED
      BY <1>1, <2>1 DEF Register!vars
<1> QED
    BY <1>2, <1>3

LEMMA StopMapped ==
    ASSUME RegisterInv, RegisterInv', NEW s, StopStrategy(s)
    PROVE  Register!Stop(s)
<1> USE DEF StopStrategy, SlotsOf
<1>1. process' = "running" /\ Standing = slots /\ Standing' = slots \ SlotsOf(s)
      BY DEF Standing
<1>2. ASSUME NEW d \in Deployments
      PROVE  StageOf(d)' = IF Register!Held(d) /\ StrategyOf[d] = s THEN "stopped" ELSE StageOf(d)
  <2>1. Register!Held(d) <=> d \in slots
        BY <1>1 DEF RegisterInv, StagesRead, Register!Held
  <2>2. CASE d \in SlotsOf(s)
        BY <1>1, <2>1, <2>2 DEF StageOf
  <2>3. CASE d \notin SlotsOf(s)
        BY <1>1, <2>1, <2>3 DEF StageOf
  <2> QED
      BY <2>2, <2>3
<1> QED
    BY <1>1, <1>2 DEF Register!Stop

\* A process that ends while it runs.
LEMMA FallMapped ==
    ASSUME RegisterInv, RegisterInv', Crash \/ Shutdown, process = "running"
    PROVE  Register!Fall
<1>1. /\ process' = "down" /\ Standing = slots /\ Standing' = disk' /\ disk' \in {disk, slots}
      /\ used' = used /\ stopped' = stopped
      BY DEF Crash, Shutdown, Vanish, Standing
<1>2. slots \ warming \subseteq disk'
      BY <1>1 DEF RegisterInv, RunnerInv, WarmOnDisk
<1>3. \A d \in Deployments : StageOf(d)' \in Register!Stage
      BY DEF RegisterInv, StagesRead, Register!Stage
<1>4. ASSUME NEW d \in Deployments
      PROVE  IF StageOf(d) \in {"starting", "lost"} THEN StageOf(d)' \in {"running", "lost"}
                                                    ELSE StageOf(d)' = StageOf(d)
  <2>1. StageOf(d)' = CASE d \in disk' -> "running" [] d \in stopped \ disk' -> "stopped"
                        [] d \in used \ (stopped \cup disk') -> "lost" [] OTHER -> "unused"
        BY <1>1 DEF StageOf
  <2>2. disk' \subseteq used /\ disk' \cap stopped = {} /\ slots \subseteq used /\ slots \cap stopped = {}
        /\ stopped \subseteq used
        BY <1>1, StandingFacts DEF RegisterInv, RunnerInv, UsedOnly, StoppedStaysStopped
  <2>3. StageOf(d) = CASE d \in slots -> IF d \in warming THEN "starting" ELSE "running"
                       [] d \in stopped \ slots -> "stopped"
                       [] d \in used \ (stopped \cup slots) -> "lost" [] OTHER -> "unused"
        BY <1>1 DEF StageOf
  <2> QED
      BY <1>2, <2>1, <2>2, <2>3
<1> QED
    BY <1>1, <1>3, <1>4 DEF Register!Fall

\* What a restart may still find only shrinks until the service runs again.
LEMMA RecoverMapped ==
    ASSUME RegisterInv, RegisterInv', process # "running",
           Standing' \subseteq Standing, used' = used, stopped' = stopped,
           process' = "running" => warming' = {}
    PROVE  Register!Recover
<1>1. \A d \in Deployments : StageOf(d)' \in Register!Stage
      BY DEF RegisterInv, StagesRead, Register!Stage
<1>2. ASSUME NEW d \in Deployments, StageOf(d)' # StageOf(d)
      PROVE  StageOf(d) = "running" /\ StageOf(d)' = "lost"
  <2>1. Standing \subseteq used /\ Standing \cap stopped = {}
        BY StandingFacts DEF RegisterInv
  <2> QED
      BY <1>2, <2>1 DEF StageOf
<1> QED
    BY <1>1, <1>2 DEF Register!Recover

\* Every step of the runner is one of the register, or none.
LEMMA RegisterSteps ==
    ASSUME RegisterInv, RegisterInv', [Next]_vars
    PROVE  [Register!Next]_(Register!vars)
<1>1. Register!OnePerStrategy'
      BY HeldOnce, PTL
<1>2. ASSUME NEW d \in Deployments, Deploy(d) PROVE Register!Next
      BY <1>1, <1>2, RequestMapped DEF Register!Next
<1>3. ASSUME NEW d \in Deployments, FinishWarmup(d) PROVE [Register!Next]_(Register!vars)
  <2>1. CASE process = "running"
        BY <1>1, <1>3, <2>1, SettleMapped DEF Register!Next
  <2>2. CASE process # "running"
    <3>1. process' = process /\ Standing' \subseteq Standing /\ used' = used /\ stopped' = stopped
          BY <1>3 DEF FinishWarmup, Standing
    <3> QED
        BY <1>1, <2>2, <3>1, RecoverMapped DEF Register!Next
  <2> QED
      BY <2>1, <2>2
<1>4. ASSUME NEW d \in Deployments, StopStrategy(StrategyOf[d]) PROVE Register!Next
      BY <1>1, <1>4, StopMapped DEF Register!Next
<1>5. CASE \/ \E d \in Deployments : PlaceOrder(d) \/ FailOrder(d)
           \/ Bar \/ UNCHANGED vars
      BY <1>5, StagesStay DEF PlaceOrder, FailOrder, Bar, vars, Standing
<1>6. CASE Start
  <2>1. process = "down" /\ process' = "starting" /\ slots = {} /\ unread = {}
        BY <1>6 DEF Start, RegisterInv, RunnerInv, DownIsEmpty, UnreadIsFresh
  <2> QED
      BY <1>6, <2>1, StagesStay DEF Start, Standing
<1>7. CASE \E d \in Deployments : RestoreDeployment(d)
      BY <1>7, StagesStay DEF RestoreDeployment, OccupySlot, Standing
<1>8. CASE Crash \/ Shutdown
  <2>1. CASE process = "running"
        BY <1>1, <1>8, <2>1, FallMapped DEF Register!Next
  <2>2. CASE process # "running"
    <3>1. process' # "running" /\ Standing' \subseteq Standing /\ used' = used /\ stopped' = stopped
          BY <1>8, <2>2 DEF Crash, Shutdown, Vanish, Standing
    <3> QED
        BY <1>1, <2>2, <3>1, RecoverMapped DEF Register!Next
  <2> QED
      BY <2>1, <2>2
<1>9. CASE FinishStart \/ \E d \in Deployments : SkipDeployment(d)
  <2>1. /\ process # "running" /\ Standing' \subseteq Standing /\ used' = used /\ stopped' = stopped
        /\ process' = "running" => warming' = {}
        BY <1>9 DEF FinishStart, SkipDeployment, Standing
  <2> QED
      BY <1>1, <2>1, RecoverMapped DEF Register!Next
<1> QED
    BY <1>2, <1>3, <1>4, <1>5, <1>6, <1>7, <1>8, <1>9 DEF Next

\* Whatever deploys, stops, warm-ups, crashes and restores do together, users
\* see only what the register promises them.
THEOREM DeploymentsAsPromised == Spec => RegisterSpec
<1>1. RegisterInv /\ RegisterInv' /\ [Next]_vars => [Register!Next]_(Register!vars)
      BY RegisterSteps
<1> QED
    BY <1>1, RegisterStarts, RegisterInvHolds, PTL DEF Spec, RegisterSpec, Register!Spec

=============================================================================
