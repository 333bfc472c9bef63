-------------------------- MODULE PaperEngineProofs --------------------------
(***************************************************************************)
(* For every set of accounts, tasks, requests and prices, and for every    *)
(* behaviour of the callbacks: PaperEngine keeps its types, a placement    *)
(* holds its account's lock, no order is executed twice, and final orders  *)
(* stay as they are but for a forced fill. For callbacks that return:      *)
(* statements and positions reconcile with the fills, ticks settle the     *)
(* orders they trigger, and the engine implements OrderLifecycle.          *)
(***************************************************************************)
EXTENDS PaperEngine, DataFacts

-------------------------------------------------------------------------------
(* The inductive invariant.  ExecutedExactlyOnce is not inductive by itself:  *)
(* it needs to know that an unfilled order has nothing filled, and what the   *)
(* program counter of a coroutine says about the order it holds.              *)

\* An Order object that exists was made from a request, and is filled in full
\* or not at all; the manager lists only orders that exist.
OrderShape ==
    /\ \A o \in OrderIds :
        /\ orders[o].status # "none" => orders[o].req \in Request
        /\ orders[o].filled = IF orders[o].status = "filled" THEN orders[o].req.qty ELSE 0
    /\ \A o \in listed : orders[o].status # "none"

\* What a coroutine holds at each program counter.
HoldsOrder(ts) == ts.order \in OrderIds /\ orders[ts.order].status # "none"

TaskShape ==
    \A t \in Tasks :
        /\ tasks[t].pc = "lock" => tasks[t].op = "place" /\ tasks[t].req \in Request
        /\ tasks[t].pc = "created" => tasks[t].op = "place"
        /\ tasks[t].pc \in {"booking", "booked"} => tasks[t].op \in {"place", "tick"}
        /\ tasks[t].pc \in {"ticked", "scan"} => tasks[t].op = "tick"
        /\ tasks[t].pc = "cancelled" => tasks[t].op = "cancel"
        /\ tasks[t].pc = "idle" => tasks[t].op = "none"
        /\ tasks[t].op = "place" /\ tasks[t].pc # "lock" => HoldsOrder(tasks[t])
        /\ tasks[t].op = "cancel" => HoldsOrder(tasks[t])

IInv == TypeOK /\ OrderShape /\ TaskShape /\ LockHeldByPlacement /\ ExecutedExactlyOnce

-------------------------------------------------------------------------------

LEMMA InitIInv == Init => IInv
<1> SUFFICES ASSUME Init PROVE IInv
  OBVIOUS
<1> USE ConstantsAssumption DEF Init
<1>1. TypeOK
  BY DEF TypeOK, Account, Order, Position, Fill, Task, FreshAccount, AbsentAccount, Flat,
         IdleTask, Pc, Op, OrderStatus, Side, PosSide, NoPrice
<1>2. OrderShape
  BY DEF OrderShape
<1>3. TaskShape
  BY DEF TaskShape, IdleTask
<1>4. LockHeldByPlacement
  BY DEF LockHeldByPlacement, IdleTask
<1>5. ExecutedExactlyOnce
  BY DEF ExecutedExactlyOnce, FillsFor
<1> QED
  BY <1>1, <1>2, <1>3, <1>4, <1>5 DEF IInv

-------------------------------------------------------------------------------
(* Lemmas about the operators *)

LEMMA DivNat == ASSUME NEW q \in Nat, NEW l \in Nat \ {0} PROVE q \div l \in Nat
OBVIOUS

\* A position stays a position: in particular reducing fills never make its
\* quantity negative.
LEMMA PositionAfterType ==
    ASSUME NEW pos \in Position, NEW r \in Request, NEW qty \in Nat
    PROVE  PositionAfter(pos, r, qty) \in Position
<1>1. r.lev \in Nat \ {0} /\ r.side \in Side
  BY DEF Request
<1>2. /\ pos.lev \in Nat \ {0} /\ pos.qty \in Nat
      /\ pos.side \in Side
  BY DEF Position
<1>3. qty \div r.lev \in Nat /\ (pos.qty + qty) \div pos.lev \in Nat
  BY <1>1, <1>2, DivNat
<1>4. qty <= pos.qty => (pos.qty - qty) \in Nat /\ (pos.qty - qty) \div pos.lev \in Nat
  BY <1>2, DivNat
<1>5. ~ (qty <= pos.qty) => (qty - pos.qty) \in Nat /\ (qty - pos.qty) \div r.lev \in Nat
  BY <1>1, <1>2, DivNat
<1> QED
  BY <1>1, <1>2, <1>3, <1>4, <1>5 DEF PositionAfter, Held, Position

\* The account charged for an order is an account.
LEMMA AccountOfType ==
    ASSUME NEW o \in OrderIds, orders[o].req \in Request
    PROVE  AccountOf(o) \in Accounts
BY ConstantsAssumption DEF AccountOf, Request

\* What a fill of an existing, unfilled order looks like.
LEMMA NewFillType ==
    ASSUME TypeOK, OrderShape, NEW o \in OrderIds, NEW a \in Accounts, NEW fee \in Int,
           orders[o].status \notin {"none", "filled"}, NEW pnl \in PossiblePnls(o, a)
    PROVE  /\ NewFill(o, a, fee, pnl) \in Fill
           /\ NewFill(o, a, fee, pnl).order = o
           /\ NewFill(o, a, fee, pnl).acct = a
           /\ NewFill(o, a, fee, pnl).qty = orders[o].req.qty
<1>1. orders[o].req \in Request /\ orders[o].filled = 0
  BY DEF OrderShape
<1>2. /\ orders[o].req.qty \in Nat /\ orders[o].req.lev \in Nat \ {0}
      /\ orders[o].req.reduce \in BOOLEAN
  BY <1>1 DEF Request
<1>3. pnl \in Int
  BY ConstantsAssumption DEF PossiblePnls
<1> QED
  BY <1>1, <1>2, <1>3 DEF NewFill, Fill

\* Fees are integers.
LEMMA FeeType ==
    ASSUME NEW r \in Request, NEW qty \in Nat
    PROVE  FeeOf(r, qty) \in Int /\ qty * TakerRate \in Int
<1>1. MakerRate \in Nat /\ TakerRate \in Nat
  BY ConstantsAssumption
<1> QED
  BY <1>1 DEF FeeOf

\* Booking a fill keeps an integer balance.
LEMMA BookedDeltaType ==
    ASSUME NEW f \in Fill
    PROVE  BookedDelta(f) \in Int
<1>1. /\ f.qty \in Nat /\ f.lev \in Nat \ {0} /\ f.reduce \in BOOLEAN
      /\ f.fee \in Int /\ f.pnl \in Int
  BY DEF Fill
<1>2. f.qty \div f.lev \in Nat
  BY <1>1, DivNat
<1> QED
  BY <1>1, <1>2 DEF BookedDelta

LEMMA CreditType ==
    ASSUME NEW accts \in [Accounts -> Account], NEW a \in Accounts, NEW delta \in Int
    PROVE  Credit(accts, a, delta) \in [Accounts -> Account]
BY DEF Credit, Account

LEMMA AddTotalsType ==
    ASSUME NEW accts \in [Accounts -> Account], NEW f \in Fill
    PROVE  AddTotals(accts, f) \in [Accounts -> Account]
<1> DEFINE a == f.acct
           x == accts[a].realized + f.pnl
           y == accts[a].fee + f.fee
<1>1. a \in Accounts /\ f.pnl \in Int /\ f.fee \in Int
  BY DEF Fill
<1>2. accts[a].realized \in Int /\ accts[a].fee \in Int
  BY <1>1 DEF Account
<1>3. x \in Int /\ y \in Int
  BY <1>1, <1>2
<1>4. AddTotals(accts, f) = IF accts[a].state = "live"
                            THEN [accts EXCEPT ![a].realized = x, ![a].fee = y] ELSE accts
  BY DEF AddTotals
<1> HIDE DEF a, x, y
<1>5. [accts EXCEPT ![a].realized = x, ![a].fee = y] \in [Accounts -> Account]
  BY <1>1, <1>3 DEF Account
<1> QED
  BY <1>4, <1>5

\* Recording a fill keeps the types of orders, positions and fills.
LEMMA RecordFillType ==
    ASSUME TypeOK, OrderShape, NEW f \in Fill, orders[f.order].status # "none", RecordFill(f)
    PROVE  /\ orders' \in [OrderIds -> Order]
           /\ positions' \in [Accounts -> [PosSide -> Position]]
           /\ fills' \in Seq(Fill)
<1> DEFINE r == orders[f.order].req
           pos == positions[f.acct][r.posSide]
<1>1. f.order \in OrderIds /\ f.acct \in Accounts /\ f.qty \in Nat
  BY DEF Fill
<1>2. r \in Request /\ r.posSide \in PosSide /\ r.qty \in Nat
  BY <1>1 DEF OrderShape, Request
<1> DEFINE o == f.order
           q == r.qty
<1>3. orders' = [orders EXCEPT ![o].status = "filled", ![o].filled = q]
  BY DEF RecordFill
<1>3a. orders' \in [OrderIds -> Order]
  <2> o \in OrderIds /\ q \in Nat /\ orders \in [OrderIds -> Order]
    BY <1>1, <1>2 DEF TypeOK
  <2> HIDE DEF o, q
  <2> QED
    BY <1>3 DEF Order, OrderStatus
<1>4. pos \in Position
  BY <1>1, <1>2 DEF TypeOK
<1>5. PositionAfter(pos, r, f.qty) \in Position
  BY <1>1, <1>2, <1>4, PositionAfterType
<1>6. positions' = [positions EXCEPT ![f.acct][r.posSide] = PositionAfter(pos, r, f.qty)]
  BY <1>1, <1>2 DEF RecordFill, TypeOK
<1>7. positions' \in [Accounts -> [PosSide -> Position]]
  BY <1>1, <1>2, <1>5, <1>6 DEF TypeOK
<1>8. fills' \in Seq(Fill)
  BY DEF RecordFill, TypeOK
<1> QED
  BY <1>3a, <1>7, <1>8

-------------------------------------------------------------------------------
(* Type correctness *)

\* The updates of a coroutine's local state keep its type.
LEMMA PcType ==
    ASSUME NEW ts \in [Tasks -> Task], NEW t \in Tasks,
           NEW pc \in Pc
    PROVE  [ts EXCEPT ![t].pc = pc] \in [Tasks -> Task]
<1> DEFINE Reqs == Request \cup {NoRequest}
           Ids == OrderIds \cup {0}
           PriceSet == Prices \cup {NoPrice}
           Todos == SUBSET OrderIds
<1>1. Task = [pc: Pc, op: Op, req: Reqs, order: Ids, price: PriceSet, todo: Todos,
              acct: Accounts, delta: Int]
  BY DEF Task
<1> HIDE DEF Reqs, Ids, PriceSet, Todos
<1> QED
  BY <1>1

LEMMA BookingTask ==
    ASSUME NEW ts \in [Tasks -> Task], NEW t \in Tasks,
           NEW pc \in Pc, NEW a \in Accounts,
           NEW delta \in Int
    PROVE  [ts EXCEPT ![t].pc = pc, ![t].acct = a, ![t].delta = delta] \in [Tasks -> Task]
<1> DEFINE Reqs == Request \cup {NoRequest}
           Ids == OrderIds \cup {0}
           PriceSet == Prices \cup {NoPrice}
           Todos == SUBSET OrderIds
<1>1. Task = [pc: Pc, op: Op, req: Reqs, order: Ids, price: PriceSet, todo: Todos,
              acct: Accounts, delta: Int]
  BY DEF Task
<1> HIDE DEF Reqs, Ids, PriceSet, Todos
<1> QED
  BY <1>1

LEMMA SubmittedTask ==
    ASSUME NEW ts \in [Tasks -> Task], NEW t \in Tasks,
           NEW pc \in Pc, NEW op \in Op,
           NEW req \in Request \cup {NoRequest}
    PROVE  [ts EXCEPT ![t].pc = pc, ![t].op = op, ![t].req = req] \in [Tasks -> Task]
<1> DEFINE Reqs == Request \cup {NoRequest}
           Ids == OrderIds \cup {0}
           PriceSet == Prices \cup {NoPrice}
           Todos == SUBSET OrderIds
<1>1. Task = [pc: Pc, op: Op, req: Reqs, order: Ids, price: PriceSet, todo: Todos,
              acct: Accounts, delta: Int]
  BY DEF Task
<1>2. req \in Reqs
  OBVIOUS
<1> HIDE DEF Reqs, Ids, PriceSet, Todos
<1> QED
  BY <1>1, <1>2

LEMMA CreatedTask ==
    ASSUME NEW ts \in [Tasks -> Task], NEW t \in Tasks,
           NEW pc \in Pc, NEW req \in Request \cup {NoRequest},
           NEW o \in OrderIds \cup {0}
    PROVE  [ts EXCEPT ![t].pc = pc, ![t].req = req, ![t].order = o] \in [Tasks -> Task]
<1> DEFINE Reqs == Request \cup {NoRequest}
           Ids == OrderIds \cup {0}
           PriceSet == Prices \cup {NoPrice}
           Todos == SUBSET OrderIds
<1>1. Task = [pc: Pc, op: Op, req: Reqs, order: Ids, price: PriceSet, todo: Todos,
              acct: Accounts, delta: Int]
  BY DEF Task
<1>2. req \in Reqs /\ o \in Ids
  OBVIOUS
<1> HIDE DEF Reqs, Ids, PriceSet, Todos
<1> QED
  BY <1>1, <1>2

LEMMA CancelTask ==
    ASSUME NEW ts \in [Tasks -> Task], NEW t \in Tasks,
           NEW pc \in Pc, NEW op \in Op,
           NEW o \in OrderIds \cup {0}
    PROVE  [ts EXCEPT ![t].pc = pc, ![t].op = op, ![t].order = o] \in [Tasks -> Task]
<1> DEFINE Reqs == Request \cup {NoRequest}
           Ids == OrderIds \cup {0}
           PriceSet == Prices \cup {NoPrice}
           Todos == SUBSET OrderIds
<1>1. Task = [pc: Pc, op: Op, req: Reqs, order: Ids, price: PriceSet, todo: Todos,
              acct: Accounts, delta: Int]
  BY DEF Task
<1>2. o \in Ids
  OBVIOUS
<1> HIDE DEF Reqs, Ids, PriceSet, Todos
<1> QED
  BY <1>1, <1>2

LEMMA TickTask ==
    ASSUME NEW ts \in [Tasks -> Task], NEW t \in Tasks,
           NEW pc \in Pc, NEW op \in Op,
           NEW price \in Prices \cup {NoPrice}
    PROVE  [ts EXCEPT ![t].pc = pc, ![t].op = op, ![t].price = price] \in [Tasks -> Task]
<1> DEFINE Reqs == Request \cup {NoRequest}
           Ids == OrderIds \cup {0}
           PriceSet == Prices \cup {NoPrice}
           Todos == SUBSET OrderIds
<1>1. Task = [pc: Pc, op: Op, req: Reqs, order: Ids, price: PriceSet, todo: Todos,
              acct: Accounts, delta: Int]
  BY DEF Task
<1>2. price \in PriceSet
  OBVIOUS
<1> HIDE DEF Reqs, Ids, PriceSet, Todos
<1> QED
  BY <1>1, <1>2

LEMMA ScanTask ==
    ASSUME NEW ts \in [Tasks -> Task], NEW t \in Tasks,
           NEW pc \in Pc, NEW op \in Op,
           NEW price \in Prices \cup {NoPrice}, NEW todo \in SUBSET OrderIds
    PROVE  [ts EXCEPT ![t].pc = pc, ![t].op = op, ![t].price = price, ![t].todo = todo] \in [Tasks -> Task]
<1> DEFINE Reqs == Request \cup {NoRequest}
           Ids == OrderIds \cup {0}
           PriceSet == Prices \cup {NoPrice}
           Todos == SUBSET OrderIds
<1>1. Task = [pc: Pc, op: Op, req: Reqs, order: Ids, price: PriceSet, todo: Todos,
              acct: Accounts, delta: Int]
  BY DEF Task
<1>2. price \in PriceSet /\ todo \in Todos
  OBVIOUS
<1> HIDE DEF Reqs, Ids, PriceSet, Todos
<1> QED
  BY ZenonT(30), <1>1, <1>2

LEMMA SnapshotTask ==
    ASSUME NEW ts \in [Tasks -> Task], NEW t \in Tasks,
           NEW pc \in Pc, NEW todo \in SUBSET OrderIds
    PROVE  [ts EXCEPT ![t].pc = pc, ![t].todo = todo] \in [Tasks -> Task]
<1> DEFINE Reqs == Request \cup {NoRequest}
           Ids == OrderIds \cup {0}
           PriceSet == Prices \cup {NoPrice}
           Todos == SUBSET OrderIds
<1>1. Task = [pc: Pc, op: Op, req: Reqs, order: Ids, price: PriceSet, todo: Todos,
              acct: Accounts, delta: Int]
  BY DEF Task
<1>2. todo \in Todos
  OBVIOUS
<1> HIDE DEF Reqs, Ids, PriceSet, Todos
<1> QED
  BY <1>1, <1>2

LEMMA TodoTask ==
    ASSUME NEW ts \in [Tasks -> Task], NEW t \in Tasks,
           NEW todo \in SUBSET OrderIds
    PROVE  [ts EXCEPT ![t].todo = todo] \in [Tasks -> Task]
<1> DEFINE Reqs == Request \cup {NoRequest}
           Ids == OrderIds \cup {0}
           PriceSet == Prices \cup {NoPrice}
           Todos == SUBSET OrderIds
<1>1. Task = [pc: Pc, op: Op, req: Reqs, order: Ids, price: PriceSet, todo: Todos,
              acct: Accounts, delta: Int]
  BY DEF Task
<1>2. todo \in Todos
  OBVIOUS
<1> HIDE DEF Reqs, Ids, PriceSet, Todos
<1> QED
  BY <1>1, <1>2

LEMMA EndType ==
    ASSUME TypeOK, NEW t \in Tasks, End(t)
    PROVE  /\ tasks' \in [Tasks -> Task]
           /\ lock' \in [Accounts -> Tasks \cup {NoTask}]
           /\ loop' \in Tasks \cup {NoTask}
<1>1. IdleTask \in Task
  BY ConstantsAssumption DEF IdleTask, Task, Pc, Op, NoPrice
<1> QED
  BY <1>1 DEF End, Unlocked, TypeOK

LEMMA AwaitType ==
    ASSUME NEW t \in Tasks, Await(t)
    PROVE  loop' \in Tasks \cup {NoTask}
BY DEF Await

\* A fill applied by _try_fill_order.
LEMMA ApplyFillType ==
    ASSUME TypeOK, OrderShape, NEW t \in Tasks, NEW o \in OrderIds,
           NEW ts \in [Tasks -> Task], IsOpen(o), ApplyFill(ts, t, o)
    PROVE  /\ accounts' \in [Accounts -> Account]
           /\ tasks' \in [Tasks -> Task]
           /\ loop' \in Tasks \cup {NoTask}
           /\ \E f \in Fill : /\ RecordFill(f)
                             /\ f.order = o
                             /\ f.qty = orders[o].req.qty
           /\ UNCHANGED <<listed, lock>>
<1> DEFINE r == orders[o].req
           a == AccountOf(o)
           fee == FeeOf(r, r.qty - orders[o].filled)
<1>1. PICK pnl \in PossiblePnls(o, a) :
          /\ RecordFill(NewFill(o, a, fee, pnl))
          /\ accounts' = AddTotals(accounts, NewFill(o, a, fee, pnl))
          /\ tasks' = [ts EXCEPT ![t].pc = "booking", ![t].acct = a,
                                 ![t].delta = BookedDelta(NewFill(o, a, fee, pnl))]
          /\ Await(t)
          /\ UNCHANGED <<listed, lock>>
  BY DEF ApplyFill
<1> DEFINE f == NewFill(o, a, fee, pnl)
           delta == BookedDelta(f)
<1>2. r \in Request /\ orders[o].filled = 0 /\ orders[o].status \notin {"none", "filled"}
  BY DEF OrderShape, IsOpen
<1>3. a \in Accounts
  BY <1>2, AccountOfType
<1>4. r.qty - orders[o].filled \in Nat
  BY <1>2 DEF Request
<1>5. fee \in Int
  BY <1>2, <1>4, FeeType
<1> HIDE DEF a, fee
<1>6. f \in Fill /\ f.order = o /\ f.acct = a /\ f.qty = orders[o].req.qty
  BY <1>2, <1>3, <1>5, NewFillType
<1>7. delta \in Int
  BY <1>6, BookedDeltaType
<1>8. accounts' \in [Accounts -> Account]
  BY <1>1, <1>6, AddTotalsType DEF TypeOK
<1>9. tasks' \in [Tasks -> Task]
  <2> tasks' = [ts EXCEPT ![t].pc = "booking", ![t].acct = a, ![t].delta = delta]
    BY <1>1
  <2> "booking" \in Pc
    BY DEF Pc
  <2> HIDE DEF delta
  <2> QED
    BY <1>3, <1>7, BookingTask
<1> QED
  BY <1>1, <1>6, <1>8, <1>9, AwaitType

\* Requests, also those of the close-position endpoint, are requests.
LEMMA CloseRequestType ==
    ASSUME TypeOK, NEW a \in Accounts, NEW p \in PosSide, NEW qty \in Nat \ {0},
           NEW mark \in Prices \cup {NoPrice}
    PROVE  CloseRequest(a, p, qty, mark) \in Request
<1>1. positions[a][p].lev \in Nat \ {0}
  BY DEF TypeOK, Position
<1> QED
  BY <1>1 DEF CloseRequest, Request, Side, OrderType, PosSide, NoPrice

LEMMA SubmitType ==
    ASSUME TypeOK, NEW t \in Tasks, NEW r \in Request, SubmitRequest(t, r)
    PROVE  TypeOK'
<1>1. "lock" \in Pc /\ "place" \in Op
  BY DEF Pc, Op
<1>2. tasks' \in [Tasks -> Task]
  BY <1>1, SubmittedTask DEF SubmitRequest, TypeOK
<1>3. loop' \in Tasks \cup {NoTask}
  BY DEF SubmitRequest
<1> QED
  BY <1>2, <1>3 DEF SubmitRequest, TypeOK

LEMMA ApplyFillTypeOK ==
    ASSUME TypeOK, OrderShape, NEW t \in Tasks, NEW o \in OrderIds,
           NEW ts \in [Tasks -> Task], IsOpen(o), ApplyFill(ts, t, o),
           lastPrice' \in Prices \cup {NoPrice}
    PROVE  TypeOK'
<1>1. PICK f \in Fill : RecordFill(f) /\ f.order = o
  BY ApplyFillType
<1>2. orders[f.order].status # "none"
  BY <1>1 DEF IsOpen
<1> QED
  BY <1>1, <1>2, ApplyFillType, RecordFillType DEF TypeOK

\* What _force_fill_market_order records is the fill of an order that was not
\* filled, for its whole quantity.
LEMMA ForceFillIsAFill ==
    ASSUME TypeOK, OrderShape, TaskShape, NEW t \in Tasks, ForceFillMarketOrder(t)
    PROVE  \E f \in Fill :
              /\ RecordFill(f)
              /\ orders[f.order].status \notin {"none", "filled"}
              /\ f.qty = orders[f.order].req.qty
              /\ accounts' = Credit(AddTotals(accounts, f), f.acct, BookedDelta(f))
<1> DEFINE o == tasks[t].order
           r == orders[o].req
           a == AccountOf(o)
           fee == (r.qty - orders[o].filled) * TakerRate
<1>1. /\ o \in OrderIds /\ r \in Request /\ orders[o].filled = 0
      /\ orders[o].status \notin {"none", "filled"}
  BY DEF ForceFillMarketOrder, TaskShape, HoldsOrder, OrderShape
<1>2. PICK pnl \in PossiblePnls(o, a) :
          /\ RecordFill(NewFill(o, a, fee, pnl))
          /\ accounts' = Credit(AddTotals(accounts, NewFill(o, a, fee, pnl)), a,
                                BookedDelta(NewFill(o, a, fee, pnl)))
  BY DEF ForceFillMarketOrder
<1>3. a \in Accounts
  BY <1>1, AccountOfType
<1>4. r.qty - orders[o].filled \in Nat
  BY <1>1 DEF Request
<1>5. fee \in Int
  BY <1>4, ConstantsAssumption
<1> HIDE DEF a, fee, o
<1>6. /\ NewFill(o, a, fee, pnl) \in Fill
      /\ NewFill(o, a, fee, pnl).order = o
      /\ NewFill(o, a, fee, pnl).acct = a
      /\ NewFill(o, a, fee, pnl).qty = orders[o].req.qty
  BY <1>1, <1>3, <1>5, NewFillType
<1> QED
  BY <1>1, <1>2, <1>6

LEMMA TypeStep ==
    ASSUME IInv, [Next]_vars
    PROVE  TypeOK'
<1> USE DEF IInv
<1>1. ASSUME NEW t \in Tasks, PlaceOrder(t) PROVE TypeOK'
  BY <1>1, SubmitType, ConstantsAssumption DEF PlaceOrder
<1>2. ASSUME NEW t \in Tasks, ClosePosition(t) PROVE TypeOK'
  <2>1. PICK a \in Accounts, p \in PosSide, mark \in Prices \cup {NoPrice} :
            /\ positions[a][p].qty > 0
            /\ \E qty \in CloseQuantities \cup {positions[a][p].qty} :
                  SubmitRequest(t, CloseRequest(a, p, qty, mark))
    BY <1>2 DEF ClosePosition
  <2>2. positions[a][p].qty \in Nat \ {0}
    BY <2>1 DEF TypeOK, Position
  <2>3. CloseQuantities \cup {positions[a][p].qty} \subseteq Nat \ {0}
    BY <2>2, ConstantsAssumption
  <2> QED
    BY <2>1, <2>3, SubmitType, CloseRequestType
<1>3. ASSUME NEW t \in Tasks, PriceTick(t) PROVE TypeOK'
  <2>1. PICK cur \in Prices : Tick(t, cur)
    BY <1>3 DEF PriceTick
  <2>2. OpenOrders \in SUBSET OrderIds
    BY DEF OpenOrders, TypeOK
  <2>3. "ticked" \in Pc /\ "scan" \in Pc /\ "tick" \in Op
    BY DEF Pc, Op
  <2>4. CASE HasPositions
    <3>0. /\ tasks' = [tasks EXCEPT ![t].pc = "ticked", ![t].op = "tick", ![t].price = cur]
          /\ tasks \in [Tasks -> Task] /\ cur \in Prices \cup {NoPrice}
      BY <2>1, <2>4 DEF Tick, TypeOK
    <3>1. tasks' \in [Tasks -> Task]
      BY <2>3, <3>0, TickTask
    <3> QED
      BY <2>1, <2>4, <3>1, AwaitType DEF Tick, TypeOK
  <2>5. CASE ~ HasPositions
    <3>0. /\ tasks' = [tasks EXCEPT ![t].pc = "scan", ![t].op = "tick", ![t].price = cur,
                                    ![t].todo = OpenOrders]
          /\ tasks \in [Tasks -> Task] /\ cur \in Prices \cup {NoPrice}
      BY <2>1, <2>5 DEF Tick, TypeOK
    <3>1. tasks' \in [Tasks -> Task]
      BY <2>2, <2>3, <3>0, ScanTask
    <3> QED
      BY <2>1, <2>5, <3>1 DEF Tick, TypeOK
  <2> QED
    BY <2>4, <2>5
<1>4. ASSUME NEW t \in Tasks, Cancel(t) PROVE TypeOK'
  <2>1. PICK o \in OrderIds : CancelOrder(t, o)
    BY <1>4 DEF Cancel
  <2>2. "cancelled" \in Pc /\ "cancel" \in Op
    BY DEF Pc, Op
  <2>3. tasks' \in [Tasks -> Task]
    BY <2>1, <2>2, CancelTask DEF CancelOrder, TypeOK
  <2>4. orders' \in [OrderIds -> Order]
    BY <2>1 DEF CancelOrder, TypeOK, Order, OrderStatus
  <2> QED
    BY <2>1, <2>3, <2>4, AwaitType DEF CancelOrder, TypeOK
<1>5. ASSUME NEW t \in Tasks,
             \/ RejectOrder(t) \/ RestOrder(t) \/ LeaveMarketOrder(t)
             \/ ReturnFromPlace(t) \/ LoseTick(t) \/ FinishTick(t) \/ CallbackRaises(t)
      PROVE TypeOK'
  <2>1. End(t) /\ UNCHANGED <<accounts, orders, listed, positions, fills, lastPrice>>
    BY <1>5 DEF RejectOrder, RestOrder, LeaveMarketOrder, ReturnFromPlace, LoseTick,
                FinishTick, CallbackRaises
  <2> QED
    BY <2>1, EndType DEF TypeOK
<1>6. ASSUME NEW t \in Tasks, CreateOrder(t) PROVE TypeOK'
  <2> DEFINE r == tasks[t].req
  <2>1. r \in Request
    BY <1>6 DEF CreateOrder, TaskShape
  <2>2. PICK o \in OrderIds :
            /\ orders' = [orders EXCEPT ![o] = [req |-> r, status |-> "accepted", filled |-> 0]]
            /\ listed' = listed \cup {o}
            /\ tasks' = [tasks EXCEPT ![t].pc = "created", ![t].req = NoRequest, ![t].order = o]
    BY <1>6 DEF CreateOrder
  <2>3. orders' \in [OrderIds -> Order]
    BY <2>1, <2>2 DEF TypeOK, Order, OrderStatus
  <2>4. "created" \in Pc
    BY DEF Pc
  <2>5. tasks' \in [Tasks -> Task]
    BY <2>2, <2>4, CreatedTask DEF TypeOK
  <2>6. lock' \in [Accounts -> Tasks \cup {NoTask}]
    BY <1>6 DEF CreateOrder, TypeOK
  <2>7. loop' \in Tasks \cup {NoTask}
    BY <1>6, AwaitType DEF CreateOrder
  <2> QED
    BY <1>6, <2>2, <2>3, <2>5, <2>6, <2>7 DEF CreateOrder, TypeOK
<1>7. ASSUME NEW t \in Tasks, FillMarketOrder(t) PROVE TypeOK'
  <2> DEFINE o == tasks[t].order
  <2>1. o \in OrderIds /\ orders[o].req \in Request
    BY <1>7 DEF FillMarketOrder, TaskShape, HoldsOrder, OrderShape
  <2>2. IsOpen(o) /\ ApplyFill(tasks, t, o) /\ lastPrice' = PriceCachedBy(orders[o].req)
    BY <1>7 DEF FillMarketOrder, Fillable
  <2>3. lastPrice' \in Prices \cup {NoPrice}
    BY <2>1, <2>2 DEF PriceCachedBy, TypeOK, Request
  <2>4. tasks \in [Tasks -> Task]
    BY DEF TypeOK
  <2> HIDE DEF o
  <2> QED
    BY <2>1, <2>2, <2>3, <2>4, ApplyFillTypeOK
<1>8. ASSUME NEW t \in Tasks, MarketOrderAlreadyFilled(t) PROVE TypeOK'
  <2>1. orders[tasks[t].order].req \in Request
    BY <1>8 DEF MarketOrderAlreadyFilled, TaskShape, HoldsOrder, OrderShape
  <2>2. lastPrice' \in Prices \cup {NoPrice}
    BY <1>8, <2>1 DEF MarketOrderAlreadyFilled, PriceCachedBy, TypeOK, Request
  <2>3. End(t) /\ UNCHANGED <<accounts, orders, listed, positions, fills>>
    BY <1>8 DEF MarketOrderAlreadyFilled
  <2> QED
    BY <2>2, <2>3, EndType DEF TypeOK
<1>9. ASSUME NEW t \in Tasks, ForceFillMarketOrder(t) PROVE TypeOK'
  <2>1. orders[tasks[t].order].req \in Request
    BY <1>9 DEF ForceFillMarketOrder, TaskShape, HoldsOrder, OrderShape
  <2>2. lastPrice' \in Prices \cup {NoPrice}
    BY <1>9, <2>1 DEF ForceFillMarketOrder, PriceCachedBy, TypeOK, Request
  <2>3. PICK f \in Fill :
            /\ RecordFill(f)
            /\ orders[f.order].status \notin {"none", "filled"}
            /\ accounts' = Credit(AddTotals(accounts, f), f.acct, BookedDelta(f))
    BY <1>9, ForceFillIsAFill
  <2>4. accounts' \in [Accounts -> Account]
    <3>1. AddTotals(accounts, f) \in [Accounts -> Account]
      BY AddTotalsType DEF TypeOK
    <3>2. f.acct \in Accounts /\ BookedDelta(f) \in Int
      BY BookedDeltaType DEF Fill
    <3> QED
      BY <2>3, <3>1, <3>2, CreditType
  <2>5. End(t) /\ listed' = listed
    BY <1>9 DEF ForceFillMarketOrder
  <2> QED
    BY <2>2, <2>3, <2>4, <2>5, EndType, RecordFillType DEF TypeOK
<1>10. ASSUME NEW t \in Tasks, BookBalance(t) PROVE TypeOK'
  <2>1. tasks[t].acct \in Accounts /\ tasks[t].delta \in Int
    BY DEF TypeOK, Task
  <2>2. accounts' \in [Accounts -> Account]
    BY <1>10, <2>1, CreditType DEF BookBalance, TypeOK
  <2>3. "booked" \in Pc /\ DefaultAccount \in Accounts /\ 0 \in Int
    BY ConstantsAssumption DEF Pc
  <2>4. tasks' \in [Tasks -> Task]
    BY <1>10, <2>3, BookingTask DEF BookBalance, TypeOK
  <2> QED
    BY <1>10, <2>2, <2>4, AwaitType DEF BookBalance, TypeOK
<1>11. ASSUME NEW t \in Tasks, SnapshotOpenOrders(t) PROVE TypeOK'
  <2>1. "scan" \in Pc /\ OpenOrders \in SUBSET OrderIds
    BY DEF Pc, OpenOrders, TypeOK
  <2>2. tasks' \in [Tasks -> Task]
    BY <1>11, <2>1, SnapshotTask DEF SnapshotOpenOrders, TypeOK
  <2> QED
    BY <1>11, <2>2 DEF SnapshotOpenOrders, TypeOK
<1>12. ASSUME NEW t \in Tasks, SkipOrder(t) PROVE TypeOK'
  <2>1. PICK o \in OrderIds :
            /\ tasks' = [tasks EXCEPT ![t].pc = "scan", ![t].todo = tasks[t].todo \ {o}]
            /\ loop' = t
            /\ UNCHANGED <<accounts, orders, listed, positions, fills, lastPrice, lock>>
    BY <1>12 DEF SkipOrder, TypeOK
  <2>2. "scan" \in Pc /\ tasks[t].todo \ {o} \in SUBSET OrderIds
    BY DEF Pc, TypeOK, Task
  <2>3. tasks' \in [Tasks -> Task]
    BY <2>1, <2>2, SnapshotTask DEF TypeOK
  <2> QED
    BY <2>1, <2>3 DEF TypeOK
<1>13. ASSUME NEW t \in Tasks, FillRestingOrder(t) PROVE TypeOK'
  <2>1. PICK o \in OrderIds :
            /\ IsOpen(o)
            /\ ApplyFill([tasks EXCEPT ![t].todo = tasks[t].todo \ {o}], t, o)
            /\ lastPrice' = lastPrice
    BY <1>13 DEF FillRestingOrder, Fillable, TypeOK
  <2>2. tasks[t].todo \ {o} \in SUBSET OrderIds
    BY DEF TypeOK, Task
  <2>3. [tasks EXCEPT ![t].todo = tasks[t].todo \ {o}] \in [Tasks -> Task]
    BY <2>2, TodoTask DEF TypeOK
  <2>4. lastPrice' \in Prices \cup {NoPrice}
    BY <2>1 DEF TypeOK
  <2> QED
    BY <2>1, <2>3, <2>4, ApplyFillTypeOK
<1>14. ASSUME NEW t \in Tasks, ReleaseMargin(t) PROVE TypeOK'
  <2> DEFINE o == tasks[t].order
             r == orders[o].req
  <2>1. r \in Request /\ orders[o].filled \in Int
    BY <1>14 DEF ReleaseMargin, TaskShape, HoldsOrder, OrderShape, TypeOK, Order
  <2>2a. r.acct \in Accounts /\ r.qty \in Nat /\ r.lev \in Nat \ {0}
    BY <2>1 DEF Request
  <2>2. (r.qty - orders[o].filled) \div r.lev \in Int
    BY <2>1, <2>2a
  <2>3. accounts' \in [Accounts -> Account]
    BY <1>14, <2>2, <2>2a, CreditType DEF ReleaseMargin, TypeOK
  <2> QED
    BY <1>14, <2>3, EndType DEF ReleaseMargin, TypeOK
<1>15. ASSUME NEW a \in Accounts, CreateAccount(a) \/ ResetAccount(a) \/ DeleteAccount(a)
       PROVE TypeOK'
  <2>1. FreshAccount \in Account /\ Flat \in Position
    BY ConstantsAssumption DEF FreshAccount, Account, Flat, Position, Side
  <2>2. CASE CreateAccount(a)
    BY <2>1, <2>2 DEF CreateAccount, TypeOK
  <2>3. CASE ResetAccount(a)
    BY <2>1, <2>3 DEF ResetAccount, TypeOK
  <2>4. CASE DeleteAccount(a)
    BY <2>4 DEF DeleteAccount, TypeOK, Account
  <2> QED
    BY <1>15, <2>2, <2>3, <2>4
<1>16. CASE UNCHANGED vars
  BY <1>16 DEF vars, TypeOK
<1> QED
  BY <1>1, <1>2, <1>3, <1>4, <1>5, <1>6, <1>7, <1>8, <1>9, <1>10, <1>11, <1>12, <1>13,
     <1>14, <1>15, <1>16 DEF Next, Resume

-------------------------------------------------------------------------------
(* What a step may do to the orders and the fill history: nothing (but forget *)
(* orders), create an order, fill one, or cancel one.                         *)

Quiet == UNCHANGED <<orders, fills>> /\ listed' \subseteq listed

Creates(o) ==
    /\ orders[o].status = "none"
    /\ \E r \in Request :
          orders' = [orders EXCEPT ![o] = [req |-> r, status |-> "accepted", filled |-> 0]]
    /\ listed' = listed \cup {o}
    /\ fills' = fills

Executes(f) ==
    /\ orders[f.order].status \notin {"none", "filled"}
    /\ f.qty = orders[f.order].req.qty
    /\ RecordFill(f)
    /\ listed' = listed

Cancels(o) ==
    /\ orders[o].status = "accepted"
    /\ orders' = [orders EXCEPT ![o].status = "cancelled"]
    /\ UNCHANGED <<listed, fills>>

LEMMA OrderSteps ==
    ASSUME IInv, [Next]_vars
    PROVE  \/ Quiet
           \/ \E o \in OrderIds : Creates(o)
           \/ \E f \in Fill : Executes(f)
           \/ \E o \in OrderIds : Cancels(o)
<1> USE DEF IInv
<1>1. ASSUME NEW t \in Tasks, PlaceOrder(t) \/ ClosePosition(t) \/ PriceTick(t)
      PROVE  Quiet
  BY <1>1 DEF PlaceOrder, ClosePosition, SubmitRequest, PriceTick, Tick, Quiet
<1>2. ASSUME NEW t \in Tasks, Cancel(t) PROVE \E o \in OrderIds : Cancels(o)
  BY <1>2 DEF Cancel, CancelOrder, Cancels, IsOpen
<1>3. ASSUME NEW t \in Tasks,
             \/ RejectOrder(t) \/ RestOrder(t) \/ LeaveMarketOrder(t)
             \/ MarketOrderAlreadyFilled(t) \/ BookBalance(t) \/ ReturnFromPlace(t)
             \/ SnapshotOpenOrders(t) \/ SkipOrder(t) \/ LoseTick(t) \/ FinishTick(t)
             \/ ReleaseMargin(t) \/ CallbackRaises(t)
      PROVE  Quiet
  BY <1>3 DEF RejectOrder, RestOrder, LeaveMarketOrder, MarketOrderAlreadyFilled,
              BookBalance, ReturnFromPlace, SnapshotOpenOrders, SkipOrder, LoseTick,
              FinishTick, ReleaseMargin, CallbackRaises, Quiet
<1>4. ASSUME NEW t \in Tasks, CreateOrder(t) PROVE \E o \in OrderIds : Creates(o)
  <2>1. tasks[t].req \in Request
    BY <1>4 DEF CreateOrder, TaskShape
  <2> QED
    BY <1>4, <2>1 DEF CreateOrder, IsNextId, Creates
<1>5. ASSUME NEW t \in Tasks, FillMarketOrder(t) PROVE \E f \in Fill : Executes(f)
  <2> DEFINE o == tasks[t].order
  <2>1. o \in OrderIds /\ tasks \in [Tasks -> Task]
    BY <1>5 DEF FillMarketOrder, TaskShape, HoldsOrder, TypeOK
  <2>2. IsOpen(o) /\ ApplyFill(tasks, t, o)
    BY <1>5 DEF FillMarketOrder, Fillable
  <2> HIDE DEF o
  <2> QED
    BY <2>1, <2>2, ApplyFillType DEF Executes, IsOpen
<1>6. ASSUME NEW t \in Tasks, FillRestingOrder(t) PROVE \E f \in Fill : Executes(f)
  <2>1. PICK o \in OrderIds :
            IsOpen(o) /\ ApplyFill([tasks EXCEPT ![t].todo = tasks[t].todo \ {o}], t, o)
    BY <1>6 DEF FillRestingOrder, Fillable, TypeOK
  <2>2. tasks[t].todo \ {o} \in SUBSET OrderIds
    BY DEF TypeOK, Task
  <2>3. [tasks EXCEPT ![t].todo = tasks[t].todo \ {o}] \in [Tasks -> Task]
    BY <2>2, TodoTask DEF TypeOK
  <2> QED
    BY <2>1, <2>3, ApplyFillType DEF Executes, IsOpen
<1>7. ASSUME NEW t \in Tasks, ForceFillMarketOrder(t) PROVE \E f \in Fill : Executes(f)
  BY <1>7, ForceFillIsAFill DEF ForceFillMarketOrder, Executes
<1>8. ASSUME NEW a \in Accounts, CreateAccount(a) \/ ResetAccount(a) \/ DeleteAccount(a)
      PROVE  Quiet
  BY <1>8 DEF CreateAccount, ResetAccount, DeleteAccount, Quiet
<1>9. CASE UNCHANGED vars
  BY <1>9 DEF vars, Quiet
<1> QED
  BY <1>1, <1>2, <1>3, <1>4, <1>5, <1>6, <1>7, <1>8, <1>9 DEF Next, Resume

\* The request of an order never changes, and an order never disappears.
StableOrders ==
    \A o \in OrderIds : orders[o].status # "none" =>
        orders'[o].status # "none" /\ orders'[o].req = orders[o].req

LEMMA OrderStep ==
    ASSUME IInv, [Next]_vars
    PROVE  OrderShape' /\ StableOrders /\ ExecutedExactlyOnce'
<1> USE DEF IInv
<1>1. CASE Quiet
  BY <1>1 DEF Quiet, OrderShape, StableOrders, ExecutedExactlyOnce, FillsFor
<1>2. ASSUME NEW o \in OrderIds, Creates(o)
      PROVE OrderShape' /\ StableOrders /\ ExecutedExactlyOnce'
  <2>1. FillsFor(o) = {}
    BY <1>2 DEF Creates, ExecutedExactlyOnce
  <2>2. PICK r \in Request :
            orders' = [orders EXCEPT ![o] = [req |-> r, status |-> "accepted", filled |-> 0]]
    BY <1>2 DEF Creates
  <2>3. OrderShape' /\ StableOrders
    BY <1>2, <2>2 DEF Creates, OrderShape, StableOrders, TypeOK
  <2>4. ExecutedExactlyOnce'
    BY <1>2, <2>1, <2>2 DEF Creates, ExecutedExactlyOnce, FillsFor, TypeOK
  <2> QED
    BY <2>3, <2>4
<1>3. ASSUME NEW f \in Fill, Executes(f)
      PROVE OrderShape' /\ StableOrders /\ ExecutedExactlyOnce'
  <2> DEFINE o == f.order
             n == Len(fills)
  <2>1. o \in OrderIds /\ fills \in Seq(Fill) /\ n \in Nat
    BY DEF Fill, TypeOK
  <2>2. /\ orders[o].req \in Request
        /\ orders[o].req.qty \in Nat \ {0}
        /\ orders[o] \in Order
    BY <1>3, <2>1 DEF Executes, OrderShape, Request, TypeOK
  <2>3. /\ orders'[o].status = "filled"
        /\ orders'[o].filled = orders[o].req.qty
        /\ orders'[o].req = orders[o].req
        /\ \A p \in OrderIds \ {o} : orders'[p] = orders[p]
    BY <1>3, <2>1, <2>2 DEF Executes, RecordFill, TypeOK, Order
  <2>4. OrderShape' /\ StableOrders
    <3>1. listed' = listed /\ listed \subseteq OrderIds /\ orders[o].status # "none"
      BY <1>3 DEF Executes, TypeOK
    <3>2. \A p \in OrderIds :
              /\ orders'[p].status # "none" => orders'[p].req \in Request
              /\ orders'[p].filled = IF orders'[p].status = "filled"
                                     THEN orders'[p].req.qty ELSE 0
      <4>1. ASSUME NEW p \in OrderIds, p # o
            PROVE  orders'[p] = orders[p]
        BY <2>3, <4>1
      <4> HIDE DEF o
      <4> QED
        BY <2>2, <2>3, <4>1 DEF OrderShape
    <3>3. \A p \in OrderIds : orders[p].status # "none" =>
              orders'[p].status # "none" /\ orders'[p].req = orders[p].req
      <4> HIDE DEF o
      <4> QED
        BY <2>3
    <3>4. \A p \in listed' : orders'[p].status # "none"
      <4> HIDE DEF o
      <4> QED
        BY <3>1, <3>3 DEF OrderShape
    <3> QED
      BY <3>2, <3>3, <3>4 DEF OrderShape, StableOrders
  <2>5. FillsFor(o) = {}
    BY <1>3, <2>1 DEF Executes, ExecutedExactlyOnce
  <2>6. /\ DOMAIN fills' = DOMAIN fills \cup {n + 1}
        /\ fills'[n + 1] = f
        /\ n + 1 \notin DOMAIN fills
        /\ \A i \in DOMAIN fills : fills'[i] = fills[i]
    BY <1>3, <2>1 DEF Executes, RecordFill
  <2>7. FillsFor(o)' = {n + 1}
    BY <2>1, <2>5, <2>6 DEF FillsFor
  <2>8. \A p \in OrderIds \ {o} : FillsFor(p)' = FillsFor(p)
    BY <2>6 DEF FillsFor
  <2>9. \A p \in OrderIds \ {o} : \A i \in FillsFor(p) : fills'[i] = fills[i]
    BY <2>6 DEF FillsFor
  <2>10. ExecutedExactlyOnce'
    BY <1>3, <2>1, <2>3, <2>6, <2>7, <2>8, <2>9 DEF Executes, ExecutedExactlyOnce
  <2> QED
    BY <2>4, <2>10
<1>4. ASSUME NEW o \in OrderIds, Cancels(o)
      PROVE OrderShape' /\ StableOrders /\ ExecutedExactlyOnce'
  BY <1>4 DEF Cancels, OrderShape, StableOrders, ExecutedExactlyOnce, FillsFor, TypeOK, Order
<1> QED
  BY <1>1, <1>2, <1>3, <1>4, OrderSteps

-------------------------------------------------------------------------------
(* The coroutines and the account locks *)

\* A coroutine that ends releases the lock it held.
LEMMA EndStep ==
    ASSUME IInv, StableOrders, NEW t \in Tasks, End(t)
    PROVE  TaskShape' /\ LockHeldByPlacement'
<1>1. /\ tasks'[t] = IdleTask
      /\ \A u \in Tasks \ {t} : tasks'[u] = tasks[u]
      /\ \A a \in Accounts : lock'[a] = IF lock[a] = t THEN NoTask ELSE lock[a]
  BY DEF End, Unlocked, IInv, TypeOK
<1>2. IdleTask.pc = "idle" /\ IdleTask.op = "none"
  BY DEF IdleTask
<1>3. TaskShape'
  BY <1>1, <1>2 DEF IInv, TaskShape, HoldsOrder, StableOrders
<1>4. ASSUME NEW a \in Accounts, NEW u \in Tasks
      PROVE  lock'[a] = u <=> /\ tasks'[u].op = "place"
                              /\ tasks'[u].pc \in {"created", "booking", "booked"}
                              /\ orders'[tasks'[u].order].req.acct = a
  <2>1. CASE u = t
    BY <1>1, <1>2, <2>1, ConstantsAssumption
  <2>2. CASE u # t
    BY <1>1, <2>2, ConstantsAssumption
       DEF IInv, TaskShape, HoldsOrder, StableOrders, LockHeldByPlacement
  <2> QED
    BY <2>1, <2>2
<1> QED
  BY <1>3, <1>4 DEF LockHeldByPlacement

\* A coroutine that goes on keeps its lock, and needs none if it had none.
LEMMA MoveStep ==
    ASSUME IInv, StableOrders, NEW t \in Tasks, NEW k, lock' = lock,
           tasks'[t] = k, \A u \in Tasks \ {t} : tasks'[u] = tasks[u],
           \/ /\ k.pc = "lock" /\ k.op = "place" /\ k.req \in Request
              /\ tasks[t].pc = "idle"
           \/ /\ k.pc \in {"booking", "booked"} /\ k.op = tasks[t].op /\ k.order = tasks[t].order
              /\ tasks[t].pc \in {"created", "booking", "booked", "scan"}
           \/ /\ k.pc \in {"ticked", "scan"} /\ k.op = "tick" /\ tasks[t].op \in {"none", "tick"}
           \/ /\ k.pc = "cancelled" /\ k.op = "cancel" /\ tasks[t].pc = "idle"
              /\ k.order \in OrderIds /\ orders[k.order].status # "none"
    PROVE  TaskShape' /\ LockHeldByPlacement'
<1>1. TaskShape'
  BY DEF IInv, TaskShape, HoldsOrder, StableOrders
<1>2. ASSUME NEW a \in Accounts, NEW u \in Tasks
      PROVE  lock'[a] = u <=> /\ tasks'[u].op = "place"
                              /\ tasks'[u].pc \in {"created", "booking", "booked"}
                              /\ orders'[tasks'[u].order].req.acct = a
  BY DEF IInv, TaskShape, HoldsOrder, StableOrders, LockHeldByPlacement
<1> QED
  BY <1>1, <1>2 DEF LockHeldByPlacement

LEMMA TaskStep ==
    ASSUME IInv, StableOrders, [Next]_vars
    PROVE  TaskShape' /\ LockHeldByPlacement'
<1> DEFINE Goal == TaskShape' /\ LockHeldByPlacement'
<1>0. tasks \in [Tasks -> Task] /\ lock \in [Accounts -> Tasks \cup {NoTask}]
  BY DEF IInv, TypeOK
<1>1. ASSUME NEW t \in Tasks, NEW r \in Request, SubmitRequest(t, r) PROVE Goal
  <2>1. /\ tasks'[t].pc = "lock" /\ tasks'[t].op = "place" /\ tasks'[t].req = r
        /\ tasks[t].pc = "idle" /\ lock' = lock
        /\ \A u \in Tasks \ {t} : tasks'[u] = tasks[u]
    BY <1>0, <1>1 DEF SubmitRequest, Task
  <2> QED
    BY <2>1, MoveStep
<1>2. ASSUME NEW t \in Tasks, PlaceOrder(t) PROVE Goal
  BY <1>1, <1>2, ConstantsAssumption DEF PlaceOrder
<1>3. ASSUME NEW t \in Tasks, ClosePosition(t) PROVE Goal
  <2>1. PICK a \in Accounts, p \in PosSide, mark \in Prices \cup {NoPrice} :
            /\ positions[a][p].qty > 0
            /\ \E qty \in CloseQuantities \cup {positions[a][p].qty} :
                  SubmitRequest(t, CloseRequest(a, p, qty, mark))
    BY <1>3 DEF ClosePosition
  <2>2. positions[a][p].qty \in Nat \ {0}
    BY <2>1 DEF IInv, TypeOK, Position
  <2>3. CloseQuantities \cup {positions[a][p].qty} \subseteq Nat \ {0}
    BY <2>2, ConstantsAssumption
  <2> QED
    BY <1>1, <2>1, <2>3, CloseRequestType DEF IInv
<1>4. ASSUME NEW t \in Tasks, PriceTick(t) PROVE Goal
  <2>1. PICK cur \in Prices : Tick(t, cur)
    BY <1>4 DEF PriceTick
  <2>2. /\ tasks'[t].pc \in {"ticked", "scan"} /\ tasks'[t].op = "tick"
        /\ \A u \in Tasks \ {t} : tasks'[u] = tasks[u]
        /\ lock' = lock
    BY <1>0, <2>1 DEF Tick, Task
  <2>3. tasks[t].op = "none"
    BY <2>1 DEF Tick, IInv, TaskShape
  <2> QED
    BY <2>2, <2>3, MoveStep
<1>5. ASSUME NEW t \in Tasks, Cancel(t) PROVE Goal
  <2>1. PICK o \in OrderIds : CancelOrder(t, o)
    BY <1>5 DEF Cancel
  <2>2. /\ tasks'[t].pc = "cancelled" /\ tasks'[t].op = "cancel" /\ tasks'[t].order = o
        /\ tasks[t].pc = "idle" /\ lock' = lock /\ orders[o].status # "none"
        /\ \A u \in Tasks \ {t} : tasks'[u] = tasks[u]
    BY <1>0, <2>1 DEF CancelOrder, IsOpen, Task
  <2> QED
    BY <2>2, MoveStep
<1>6. ASSUME NEW t \in Tasks,
             \/ RejectOrder(t) \/ RestOrder(t) \/ LeaveMarketOrder(t)
             \/ MarketOrderAlreadyFilled(t) \/ ForceFillMarketOrder(t) \/ ReturnFromPlace(t)
             \/ LoseTick(t) \/ FinishTick(t) \/ ReleaseMargin(t) \/ CallbackRaises(t)
      PROVE  Goal
  <2>1. End(t)
    BY <1>6 DEF RejectOrder, RestOrder, LeaveMarketOrder, MarketOrderAlreadyFilled,
                ForceFillMarketOrder, ReturnFromPlace, LoseTick, FinishTick, ReleaseMargin,
                CallbackRaises
  <2> QED
    BY <2>1, EndStep
<1>7. ASSUME NEW t \in Tasks, CreateOrder(t) PROVE Goal
  <2> DEFINE r == tasks[t].req
  <2>1. PICK o \in OrderIds :
            /\ orders[o].status = "none"
            /\ orders' = [orders EXCEPT ![o] = [req |-> r, status |-> "accepted", filled |-> 0]]
            /\ tasks' = [tasks EXCEPT ![t].pc = "created", ![t].req = NoRequest, ![t].order = o]
    BY <1>7 DEF CreateOrder, IsNextId
  <2>2. /\ tasks'[t].pc = "created" /\ tasks'[t].op = tasks[t].op /\ tasks'[t].order = o
        /\ \A u \in Tasks \ {t} : tasks'[u] = tasks[u]
    BY <1>0, <2>1 DEF Task
  <2>3. orders'[o].status = "accepted" /\ orders'[o].req = r
    BY <2>1 DEF IInv, TypeOK
  <2>4. /\ tasks[t].pc = "lock" /\ tasks[t].op = "place" /\ r \in Request
        /\ r.acct \in Accounts /\ lock[r.acct] = NoTask
        /\ lock' = [lock EXCEPT ![r.acct] = t]
    BY <1>7 DEF CreateOrder, IInv, TaskShape, Request
  <2>5. TaskShape'
    BY <2>2, <2>3, <2>4 DEF IInv, TaskShape, HoldsOrder, StableOrders
  <2>6. ASSUME NEW a \in Accounts, NEW u \in Tasks
        PROVE  lock'[a] = u <=> /\ tasks'[u].op = "place"
                                /\ tasks'[u].pc \in {"created", "booking", "booked"}
                                /\ orders'[tasks'[u].order].req.acct = a
    <3>1. CASE u = t
      <4>1. lock[a] # t
        BY <2>4 DEF IInv, LockHeldByPlacement
      <4> QED
        BY <1>0, <2>2, <2>3, <2>4, <3>1, <4>1
    <3>2. CASE u # t
      <4>1. lock'[a] = u <=> lock[a] = u
        BY <1>0, <2>4, <3>2, ConstantsAssumption
      <4>2. lock[a] = u <=> /\ tasks[u].op = "place"
                            /\ tasks[u].pc \in {"created", "booking", "booked"}
                            /\ orders[tasks[u].order].req.acct = a
        BY DEF IInv, LockHeldByPlacement
      <4> QED
        BY <2>2, <3>2, <4>1, <4>2 DEF IInv, TaskShape, HoldsOrder, StableOrders
    <3> QED
      BY <3>1, <3>2
  <2> QED
    BY <2>5, <2>6 DEF LockHeldByPlacement
<1>8. ASSUME NEW t \in Tasks, NEW o \in OrderIds, NEW ts \in [Tasks -> Task],
             ts[t].op = tasks[t].op, ts[t].order = tasks[t].order,
             \A u \in Tasks \ {t} : ts[u] = tasks[u],
             tasks[t].pc \in {"created", "booked", "scan"}, ApplyFill(ts, t, o)
      PROVE  Goal
  <2>1. /\ tasks'[t].pc = "booking" /\ tasks'[t].op = tasks[t].op
        /\ tasks'[t].order = tasks[t].order /\ lock' = lock
        /\ \A u \in Tasks \ {t} : tasks'[u] = tasks[u]
    BY <1>8 DEF ApplyFill, Task
  <2> QED
    BY <1>8, <2>1, MoveStep
<1>9. ASSUME NEW t \in Tasks, FillMarketOrder(t) PROVE Goal
  BY <1>0, <1>8, <1>9 DEF FillMarketOrder, IInv, TaskShape, HoldsOrder
<1>10. ASSUME NEW t \in Tasks, FillRestingOrder(t) PROVE Goal
  <2>1. PICK o \in OrderIds :
            /\ tasks[t].pc \in {"scan", "booked"}
            /\ ApplyFill([tasks EXCEPT ![t].todo = tasks[t].todo \ {o}], t, o)
    BY <1>0, <1>10 DEF FillRestingOrder, Scanning
  <2> DEFINE ts == [tasks EXCEPT ![t].todo = tasks[t].todo \ {o}]
  <2>2. tasks[t].todo \ {o} \in SUBSET OrderIds
    BY <1>0 DEF Task
  <2>3. ts \in [Tasks -> Task]
    BY <1>0, <2>2, TodoTask
  <2>4. /\ ts[t].op = tasks[t].op /\ ts[t].order = tasks[t].order
        /\ \A u \in Tasks \ {t} : ts[u] = tasks[u]
    BY <1>0 DEF Task
  <2> HIDE DEF ts
  <2> QED
    BY <1>8, <2>1, <2>3, <2>4 DEF ts
<1>11. ASSUME NEW t \in Tasks, BookBalance(t) PROVE Goal
  <2>1. /\ tasks'[t].pc = "booked" /\ tasks'[t].op = tasks[t].op
        /\ tasks'[t].order = tasks[t].order /\ lock' = lock /\ tasks[t].pc = "booking"
        /\ \A u \in Tasks \ {t} : tasks'[u] = tasks[u]
    BY <1>0, <1>11 DEF BookBalance, Task
  <2> QED
    BY <2>1, MoveStep
<1>12. ASSUME NEW t \in Tasks, SnapshotOpenOrders(t) \/ SkipOrder(t) PROVE Goal
  <2>1. /\ tasks'[t].pc = "scan" /\ tasks'[t].op = tasks[t].op /\ lock' = lock
        /\ \A u \in Tasks \ {t} : tasks'[u] = tasks[u]
    BY <1>0, <1>12 DEF SnapshotOpenOrders, SkipOrder, Task
  <2>2. tasks[t].op = "tick"
    BY <1>12 DEF SnapshotOpenOrders, SkipOrder, Scanning, IInv, TaskShape
  <2> QED
    BY <2>1, <2>2, MoveStep
<1>13. ASSUME UNCHANGED <<tasks, lock>> PROVE Goal
  BY <1>13 DEF IInv, TaskShape, HoldsOrder, StableOrders, LockHeldByPlacement
<1>14. ASSUME NEW a \in Accounts, CreateAccount(a) \/ ResetAccount(a) \/ DeleteAccount(a)
       PROVE  Goal
  BY <1>13, <1>14 DEF CreateAccount, ResetAccount, DeleteAccount
<1>15. CASE UNCHANGED vars
  BY <1>13, <1>15 DEF vars
<1> QED
  BY <1>2, <1>3, <1>4, <1>5, <1>6, <1>7, <1>9, <1>10, <1>11, <1>12, <1>14, <1>15
     DEF Next, Resume

-------------------------------------------------------------------------------
(* The theorems *)

LEMMA Inductive == Spec => []IInv
<1>1. IInv /\ [Next]_vars => IInv'
  BY TypeStep, OrderStep, TaskStep DEF IInv
<1> QED
  BY InitIInv, <1>1, PTL DEF Spec

\* Whatever requests, ticks, cancellations, resets and deletions interleave and
\* whatever the callbacks do, the engine's state keeps its types: no position
\* quantity or margin is ever negative, however often positions are reduced and
\* flipped (positions.py caps a closing fill at the position).
THEOREM TypeCorrect == Spec => []TypeOK
BY Inductive, PTL DEF IInv

\* No order is executed twice, and a filled order has exactly one fill in the
\* history, for its whole quantity: the normal path of _try_fill_order, the tick
\* scan's snapshot and _force_fill_market_order never repeat or lose an execution.
THEOREM OrdersExecutedOnce == Spec => []ExecutedExactlyOnce
BY Inductive, PTL DEF IInv

\* A placement holds its account's lock from the margin check to its return, and
\* nobody else ever holds it: two placements of one account never overlap.
THEOREM PlacementsHoldLock == Spec => []LockHeldByPlacement
BY Inductive, PTL DEF IInv

-------------------------------------------------------------------------------
(* Orders that are final, for any callbacks *)

\* A fill of order u leaves the other orders as they are.
LEMMA OthersUntouched ==
    ASSUME orders \in [OrderIds -> Order], NEW f, RecordFill(f)
    PROVE  \A o \in OrderIds : o # f.order => orders'[o] = orders[o]
BY DEF RecordFill

LEMMA FinalStep ==
    ASSUME IInv, [Next]_vars, NEW o \in OrderIds,
           orders[o].status \in {"filled", "cancelled"}, orders'[o] # orders[o]
    PROVE  /\ orders[o].status = "cancelled" /\ orders'[o].status = "filled"
           /\ \E t \in Tasks :
                 /\ tasks[t].pc = "created" /\ tasks[t].order = o
                 /\ orders[o].req.type = "market" /\ tasks'[t].pc = "idle"
<1>0. orders \in [OrderIds -> Order] /\ tasks \in [Tasks -> Task] /\ TaskShape
  BY DEF IInv, TypeOK
<1>1. ASSUME NEW t \in Tasks, PlaceOrder(t) \/ ClosePosition(t) \/ PriceTick(t)
      PROVE  orders' = orders
  BY <1>1 DEF PlaceOrder, ClosePosition, SubmitRequest, PriceTick, Tick
<1>2. ASSUME NEW t \in Tasks, Cancel(t) PROVE orders'[o] = orders[o]
  BY <1>0, <1>2 DEF Cancel, CancelOrder, IsOpen
<1>3. ASSUME NEW t \in Tasks,
             \/ RejectOrder(t) \/ RestOrder(t) \/ LeaveMarketOrder(t)
             \/ MarketOrderAlreadyFilled(t) \/ BookBalance(t) \/ ReturnFromPlace(t)
             \/ SnapshotOpenOrders(t) \/ SkipOrder(t) \/ LoseTick(t) \/ FinishTick(t)
             \/ ReleaseMargin(t) \/ CallbackRaises(t)
      PROVE  orders' = orders
  BY <1>3 DEF RejectOrder, RestOrder, LeaveMarketOrder, MarketOrderAlreadyFilled,
              BookBalance, ReturnFromPlace, SnapshotOpenOrders, SkipOrder, LoseTick,
              FinishTick, ReleaseMargin, CallbackRaises
<1>4. ASSUME NEW t \in Tasks, CreateOrder(t) PROVE orders'[o] = orders[o]
  BY <1>0, <1>4 DEF CreateOrder, IsNextId
<1>5. ASSUME NEW t \in Tasks, FillMarketOrder(t) \/ FillRestingOrder(t)
      PROVE  orders'[o] = orders[o]
  <2>1. PICK u, ts : IsOpen(u) /\ ApplyFill(ts, t, u)
    BY <1>5 DEF FillMarketOrder, FillRestingOrder, Fillable
  <2>2. PICK f : f.order = u /\ RecordFill(f)
    BY <2>1 DEF ApplyFill, NewFill
  <2>3. u # o BY <2>1 DEF IsOpen
  <2> QED BY <1>0, <2>2, <2>3, OthersUntouched
<1>6. ASSUME NEW t \in Tasks, ForceFillMarketOrder(t)
      PROVE  /\ orders[o].status = "cancelled" /\ orders'[o].status = "filled"
             /\ tasks[t].pc = "created" /\ tasks[t].order = o
             /\ orders[o].req.type = "market" /\ tasks'[t].pc = "idle"
  <2> DEFINE u == tasks[t].order
  <2>1. /\ tasks[t].pc = "created" /\ orders[u].req.type = "market" /\ orders[u].status # "filled"
        /\ End(t)
    BY <1>6 DEF ForceFillMarketOrder
  <2>2. PICK f : f.order = u /\ RecordFill(f)
    BY <1>6 DEF ForceFillMarketOrder, NewFill
  <2>3. u = o
    BY <1>0, <2>2, OthersUntouched
  <2>4. orders'[o].status = "filled"
    <3> HIDE DEF u
    <3> QED BY <1>0, <2>2, <2>3 DEF RecordFill, Order
  <2>5. tasks'[t].pc = "idle"
    BY <1>0, <2>1 DEF End, IdleTask
  <2> QED BY <2>1, <2>3, <2>4, <2>5
<1>7. ASSUME NEW a \in Accounts, CreateAccount(a) \/ ResetAccount(a) \/ DeleteAccount(a)
      PROVE  orders' = orders
  BY <1>7 DEF CreateAccount, ResetAccount, DeleteAccount
<1>8. CASE UNCHANGED vars
  BY <1>8 DEF vars
<1> QED
  BY <1>1, <1>2, <1>3, <1>4, <1>5, <1>6, <1>7, <1>8 DEF Next, Resume

\* What callbacks do and how calls interleave does not matter: filled orders are
\* final, and cancelled ones too but for the forced fill by their own placement.
THEOREM FinalOrders == Spec => FinalUnlessForced
<1>1. IInv /\ [Next]_vars => [\A o \in OrderIds :
          /\ orders[o].status = "filled" => orders'[o] = orders[o]
          /\ orders[o].status = "cancelled" /\ orders'[o] # orders[o] =>
                \E t \in Tasks :
                    /\ tasks[t].pc = "created" /\ tasks[t].order = o
                    /\ orders[o].req.type = "market"
                    /\ orders'[o].status = "filled" /\ tasks'[t].pc = "idle"]_vars
  BY FinalStep
<1> QED
  BY <1>1, Inductive, PTL DEF Spec, FinalUnlessForced

-------------------------------------------------------------------------------
(***************************************************************************)
(* The theorems of the engine whose callbacks return, as main.py's do.     *)
(*                                                                         *)
(* The argument: one call runs from its start to its end before the next   *)
(* (Solo), so what it took from the state is still so when it goes on      *)
(* (ShapeOf, SettlesOf). The balance of an account lacks at most what the  *)
(* running call has yet to book (DueOf); with that, balance and statement  *)
(* change by the same terms in every step: a fill appends one term to the  *)
(* sums over the history (FilledExplained), a cancellation adds one to the *)
(* margins released (CancelledExplained), and a reset empties both         *)
(* (FreshExplained).                                                       *)
(***************************************************************************)

(* Sums over the fill history *)

\* The fills of fl for the orders in S, and what a weight w of fills adds up to.
History(fl, S) == {i \in DOMAIN fl : fl[i].order \in S}
Sum(fl, S, w) == Total([i \in History(fl, S) |-> w[fl[i]]], History(fl, S))

LEMMA TotalIsSum == \A f, S : Total(f, S) = SumOver(f, S)
BY DEF Total, SumOver, MapThenSumSet, MapThenFoldSet

LEMMA HistoryFinite ==
    ASSUME NEW fl \in Seq(Fill), NEW S
    PROVE  IsFiniteSet(History(fl, S)) /\ \A i \in History(fl, S) : i \in 1..Len(fl) /\ fl[i] \in Fill
<1>1. DOMAIN fl = 1..Len(fl) /\ Len(fl) \in Nat OBVIOUS
<1>2. History(fl, S) \subseteq 1..Len(fl) BY <1>1 DEF History
<1>3. IsFiniteSet(1..Len(fl)) BY <1>1, FS_Interval
<1> QED BY <1>1, <1>2, <1>3, FS_Subset

\* Weights that agree on the fills, and orders that agree on them.
LEMMA SumSame ==
    ASSUME NEW fl \in Seq(Fill), NEW S, NEW R, History(fl, S) = History(fl, R), NEW w, NEW v,
           \A i \in History(fl, S) : w[fl[i]] = v[fl[i]]
    PROVE  Sum(fl, S, w) = Sum(fl, R, v)
<1> DEFINE H == History(fl, S)
           f == [i \in H |-> w[fl[i]]]
           g == [i \in H |-> v[fl[i]]]
<1>1. Sum(fl, S, w) = SumOver(f, H) /\ Sum(fl, R, v) = SumOver(g, H)
  BY TotalIsSum DEF Sum
<1>2. IsFiniteSet(H) BY HistoryFinite
<1>3. \A i \in H : f[i] = g[i] OBVIOUS
<1> HIDE DEF H, f, g
<1> QED BY <1>1, <1>2, <1>3, SumEqual

LEMMA SumNothing ==
    ASSUME NEW fl, NEW S, NEW w, History(fl, S) = {}
    PROVE  Sum(fl, S, w) = 0
BY TotalIsSum, SumEmpty DEF Sum

LEMMA SumFills ==
    ASSUME NEW fl \in Seq(Fill), NEW S, NEW w \in [Fill -> Int]
    PROVE  Sum(fl, S, w) \in Int
<1> DEFINE H == History(fl, S)
           f == [i \in H |-> w[fl[i]]]
<1>1. Sum(fl, S, w) = SumOver(f, H)
  BY TotalIsSum DEF Sum
<1>2. IsFiniteSet(H) /\ \A i \in H : f[i] \in Int BY HistoryFinite
<1> HIDE DEF H, f
<1> QED BY <1>1, <1>2, SumInt

\* One fill more.
LEMMA SumAppend ==
    ASSUME NEW fl \in Seq(Fill), NEW x \in Fill, NEW S, NEW w \in [Fill -> Int]
    PROVE  Sum(Append(fl, x), S, w) = Sum(fl, S, w) + (IF x.order \in S THEN w[x] ELSE 0)
<1> DEFINE gl == Append(fl, x)
           k == Len(fl) + 1
           H == History(fl, S)
           K == History(gl, S)
           f == [i \in H |-> w[fl[i]]]
           g == [i \in K |-> w[gl[i]]]
<1>1. /\ gl \in Seq(Fill) /\ Len(fl) \in Nat /\ DOMAIN fl = 1..Len(fl) /\ DOMAIN gl = 1..k
      /\ gl[k] = x /\ \A i \in 1..Len(fl) : gl[i] = fl[i]
  BY AppendProperties
<1>2. /\ IsFiniteSet(H) /\ \A i \in H : i \in 1..Len(fl) /\ fl[i] \in Fill
      /\ IsFiniteSet(K) /\ \A i \in K : gl[i] \in Fill
  <2> HIDE DEF gl
  <2> QED BY <1>1, HistoryFinite
<1>3. Sum(fl, S, w) = SumOver(f, H) /\ Sum(gl, S, w) = SumOver(g, K)
  BY TotalIsSum DEF Sum
<1>4. \A i \in H : i # k /\ gl[i] = fl[i] BY <1>1, <1>2
<1> HIDE DEF gl
<1>5. \A i \in K : g[i] \in Int BY <1>2
<1>6. SumOver(f, H) \in Int
  <2>1. \A i \in H : f[i] \in Int BY <1>2
  <2> HIDE DEF f, H
  <2> QED BY <1>2, <2>1, SumInt
<1>7. CASE x.order \in S
  <2>1. K = H \cup {k} BY <1>1, <1>7 DEF History
  <2>2. \A i \in H : f[i] = g[i] BY <1>4, <2>1
  <2>3. g[k] = w[x] /\ k \notin H BY <1>1, <1>4, <2>1
  <2> HIDE DEF f, g, H, K, k
  <2>4. SumOver(g, K) = SumOver(g, H) + g[k] BY <1>2, <1>5, <2>1, <2>3, SumAdd
  <2>5. SumOver(g, H) = SumOver(f, H) BY <1>2, <2>2, SumEqual
  <2> QED BY <1>3, <1>7, <2>3, <2>4, <2>5 DEF gl
<1>8. CASE x.order \notin S
  <2>1. K = H BY <1>1, <1>8 DEF History
  <2>2. \A i \in H : f[i] = g[i] BY <1>4, <2>1
  <2> HIDE DEF f, g, H, K, k
  <2>3. SumOver(g, K) = SumOver(f, H) BY <1>2, <2>1, <2>2, SumEqual
  <2> QED BY <1>3, <1>6, <1>8, <2>3 DEF gl
<1> QED BY <1>7, <1>8

-------------------------------------------------------------------------------
(* What explains the books of an account *)

CashOf == [f \in Fill |-> (IF f.reduce THEN 1 ELSE -1) * (f.qty \div f.lev) + f.pnl - f.fee]
PnlOf == [f \in Fill |-> f.pnl]
FeeOn == [f \in Fill |-> f.fee]
\* Towards a position, by the side of the fill's order.
NetOf(ords) == [f \in Fill |-> Signed(ords[f.order].req.side, f.qty)]

OrdersIn(ords, lst, a) == {o \in lst : ords[o].req.acct = a}
OrdersOn(ords, lst, a, p) == {o \in OrdersIn(ords, lst, a) : ords[o].req.posSide = p}
CancelledIn(ords, lst, a) == {o \in OrdersIn(ords, lst, a) : ords[o].status = "cancelled"}
MarginOf(r) == r.qty \div r.lev
ReleasedIn(ords, lst, a) ==
    Total([o \in CancelledIn(ords, lst, a) |-> MarginOf(ords[o].req)], CancelledIn(ords, lst, a))

LEMMA WeightTypes ==
    /\ CashOf \in [Fill -> Int] /\ PnlOf \in [Fill -> Int] /\ FeeOn \in [Fill -> Int]
    /\ \A f \in Fill : CashOf[f] = BookedDelta(f) /\ PnlOf[f] = f.pnl /\ FeeOn[f] = f.fee
<1>1. ASSUME NEW f \in Fill
      PROVE  /\ f.qty \div f.lev \in Nat /\ f.pnl \in Int /\ f.fee \in Int /\ f.reduce \in BOOLEAN
    BY DivNat DEF Fill
<1>2. \A f \in Fill : CashOf[f] \in Int /\ CashOf[f] = BookedDelta(f)
  BY <1>1 DEF CashOf, BookedDelta
<1> QED BY <1>1, <1>2 DEF CashOf, PnlOf, FeeOn

\* The books and the positions of an account, explained; aw[a] is the cash that
\* the call under way has yet to book.
Explained(ac, ords, lst, fl, aw) ==
    \A a \in Accounts \ {DefaultAccount} : ac[a].state = "live" =>
        /\ ac[a].balance + aw[a]
              = InitialBalance + Sum(fl, OrdersIn(ords, lst, a), CashOf) + ReleasedIn(ords, lst, a)
        /\ ac[a].realized = Sum(fl, OrdersIn(ords, lst, a), PnlOf)
        /\ ac[a].fee = Sum(fl, OrdersIn(ords, lst, a), FeeOn)

Netted(ac, pos, ords, lst, fl) ==
    \A a \in Accounts \ {DefaultAccount}, p \in PosSide : ac[a].state = "live" =>
        Signed(pos[a][p].side, pos[a][p].qty) = Sum(fl, OrdersOn(ords, lst, a, p), NetOf(ords))

LEMMA CancelledFinite ==
    ASSUME NEW ords, NEW lst, lst \subseteq OrderIds, NEW a
    PROVE  IsFiniteSet(CancelledIn(ords, lst, a)) /\ IsFiniteSet(lst)
<1>1. IsFiniteSet(OrderIds) BY ConstantsAssumption, FS_Interval DEF OrderIds
<1> QED BY <1>1, FS_Subset DEF CancelledIn, OrdersIn

LEMMA MarginNat == ASSUME NEW r \in Request PROVE MarginOf(r) \in Nat
BY DivNat DEF MarginOf, Request

\* One cancelled order more.
LEMMA ReleasedGrows ==
    ASSUME NEW ords, NEW rest, NEW lst, lst \subseteq OrderIds, NEW a,
           NEW o, o \notin CancelledIn(ords, lst, a),
           CancelledIn(rest, lst, a) = CancelledIn(ords, lst, a) \cup {o},
           \A i \in CancelledIn(rest, lst, a) : rest[i].req \in Request /\ rest[i].req = ords[i].req
    PROVE  ReleasedIn(rest, lst, a) = ReleasedIn(ords, lst, a) + MarginOf(ords[o].req)
<1> DEFINE C == CancelledIn(ords, lst, a)
           D == CancelledIn(rest, lst, a)
           f == [i \in C |-> MarginOf(ords[i].req)]
           g == [i \in D |-> MarginOf(rest[i].req)]
<1>1. IsFiniteSet(C) BY CancelledFinite
<1>2. ReleasedIn(ords, lst, a) = SumOver(f, C) /\ ReleasedIn(rest, lst, a) = SumOver(g, D)
  BY TotalIsSum DEF ReleasedIn
<1>3. \A i \in D : g[i] \in Int BY MarginNat
<1>4. (\A i \in C : f[i] = g[i]) /\ g[o] = MarginOf(ords[o].req) OBVIOUS
<1> HIDE DEF f, g, C, D
<1>5. D = C \cup {o} /\ o \notin C BY DEF C, D
<1>6. SumOver(g, D) = SumOver(g, C) + g[o] BY <1>1, <1>3, <1>5, SumAdd
<1>7. SumOver(g, C) = SumOver(f, C) BY <1>1, <1>4, SumEqual
<1> QED BY <1>2, <1>4, <1>6, <1>7

LEMMA ReleasedSame ==
    ASSUME NEW ords, NEW rest, NEW lst, NEW mst, lst \subseteq OrderIds, NEW a,
           CancelledIn(rest, mst, a) = CancelledIn(ords, lst, a),
           \A i \in CancelledIn(ords, lst, a) : rest[i].req = ords[i].req
    PROVE  ReleasedIn(rest, mst, a) = ReleasedIn(ords, lst, a)
<1> DEFINE C == CancelledIn(ords, lst, a)
           f == [i \in C |-> MarginOf(ords[i].req)]
           g == [i \in C |-> MarginOf(rest[i].req)]
<1>1. IsFiniteSet(C) BY CancelledFinite
<1>2. ReleasedIn(ords, lst, a) = SumOver(f, C) /\ ReleasedIn(rest, mst, a) = SumOver(g, C)
  BY TotalIsSum DEF ReleasedIn
<1>3. \A i \in C : f[i] = g[i] OBVIOUS
<1> HIDE DEF f, g, C
<1> QED BY <1>1, <1>2, <1>3, SumEqual

LEMMA ReleasedInt ==
    ASSUME NEW ords, NEW lst, lst \subseteq OrderIds, NEW a,
           \A i \in CancelledIn(ords, lst, a) : ords[i].req \in Request
    PROVE  ReleasedIn(ords, lst, a) \in Int
<1> DEFINE C == CancelledIn(ords, lst, a)
           f == [i \in C |-> MarginOf(ords[i].req)]
<1>1. IsFiniteSet(C) BY CancelledFinite
<1>2. ReleasedIn(ords, lst, a) = SumOver(f, C) BY TotalIsSum DEF ReleasedIn
<1>3. \A i \in C : f[i] \in Int BY MarginNat
<1> HIDE DEF f, C
<1> QED BY <1>1, <1>2, <1>3, SumInt

\* Orders of which every account has the same, and fills as they were.
LEMMA ExplainedSame ==
    ASSUME NEW fl \in Seq(Fill), NEW ords, NEW rest, NEW lst, lst \subseteq OrderIds, NEW mst,
           NEW a,
           History(fl, OrdersIn(rest, mst, a)) = History(fl, OrdersIn(ords, lst, a)),
           CancelledIn(rest, mst, a) = CancelledIn(ords, lst, a),
           \A i \in CancelledIn(ords, lst, a) : rest[i].req = ords[i].req
    PROVE  /\ Sum(fl, OrdersIn(rest, mst, a), CashOf) = Sum(fl, OrdersIn(ords, lst, a), CashOf)
           /\ Sum(fl, OrdersIn(rest, mst, a), PnlOf) = Sum(fl, OrdersIn(ords, lst, a), PnlOf)
           /\ Sum(fl, OrdersIn(rest, mst, a), FeeOn) = Sum(fl, OrdersIn(ords, lst, a), FeeOn)
           /\ ReleasedIn(rest, mst, a) = ReleasedIn(ords, lst, a)
<1>1. \A w : Sum(fl, OrdersIn(rest, mst, a), w) = Sum(fl, OrdersIn(ords, lst, a), w)
  BY SumSame
<1> QED BY <1>1, ReleasedSame

LEMMA NetSame ==
    ASSUME NEW fl \in Seq(Fill), NEW ords, NEW rest, NEW lst, NEW mst, NEW a, NEW p,
           History(fl, OrdersOn(rest, mst, a, p)) = History(fl, OrdersOn(ords, lst, a, p)),
           \A i \in DOMAIN fl : rest[fl[i].order].req = ords[fl[i].order].req
    PROVE  Sum(fl, OrdersOn(rest, mst, a, p), NetOf(rest)) = Sum(fl, OrdersOn(ords, lst, a, p), NetOf(ords))
<1>1. \A i \in History(fl, OrdersOn(ords, lst, a, p)) : i \in DOMAIN fl /\ fl[i] \in Fill
  BY HistoryFinite DEF History
<1>2. \A i \in History(fl, OrdersOn(ords, lst, a, p)) : NetOf(rest)[fl[i]] = NetOf(ords)[fl[i]]
  BY <1>1 DEF NetOf
<1> QED BY <1>2, SumSame

\* An order is placed.
LEMMA PlacedExplained ==
    ASSUME NEW fl \in Seq(Fill), NEW ords, NEW lst, lst \subseteq OrderIds,
           NEW o \in OrderIds, o \notin lst, \A i \in DOMAIN fl : fl[i].order # o,
           NEW rest, rest[o].status = "accepted", \A u \in OrderIds \ {o} : rest[u] = ords[u],
           NEW ac, NEW pos, NEW aw, Explained(ac, ords, lst, fl, aw), Netted(ac, pos, ords, lst, fl)
    PROVE  /\ Explained(ac, rest, lst \cup {o}, fl, aw)
           /\ Netted(ac, pos, rest, lst \cup {o}, fl)
<1>1. ASSUME NEW a
      PROVE  /\ History(fl, OrdersIn(rest, lst \cup {o}, a)) = History(fl, OrdersIn(ords, lst, a))
             /\ CancelledIn(rest, lst \cup {o}, a) = CancelledIn(ords, lst, a)
             /\ \A i \in CancelledIn(ords, lst, a) : rest[i].req = ords[i].req
             /\ \A p : History(fl, OrdersOn(rest, lst \cup {o}, a, p)) = History(fl, OrdersOn(ords, lst, a, p))
  <2>1. \A u \in lst : rest[u] = ords[u] OBVIOUS
  <2>2. \A u \in lst : u \in OrdersIn(rest, lst \cup {o}, a) <=> u \in OrdersIn(ords, lst, a)
    BY <2>1 DEF OrdersIn
  <2>3. \A u \in lst : \A p : u \in OrdersOn(rest, lst \cup {o}, a, p) <=> u \in OrdersOn(ords, lst, a, p)
    BY <2>1, <2>2 DEF OrdersOn
  <2>4. \A p : /\ OrdersIn(rest, lst \cup {o}, a) \subseteq lst \cup {o}
               /\ OrdersOn(rest, lst \cup {o}, a, p) \subseteq lst \cup {o}
               /\ OrdersIn(ords, lst, a) \subseteq lst /\ OrdersOn(ords, lst, a, p) \subseteq lst
    BY DEF OrdersIn, OrdersOn
  <2>5. CancelledIn(rest, lst \cup {o}, a) = CancelledIn(ords, lst, a)
    BY <2>1, <2>2, <2>4 DEF CancelledIn
  <2> QED BY <2>1, <2>2, <2>3, <2>4, <2>5 DEF History, CancelledIn
<1>2. \A i \in DOMAIN fl : rest[fl[i].order].req = ords[fl[i].order].req
  <2>1. \A i \in DOMAIN fl : fl[i] \in Fill OBVIOUS
  <2> QED BY <2>1 DEF Fill
<1> DEFINE mst == lst \cup {o}
<1> HIDE DEF mst
<1>3. Explained(ac, rest, mst, fl, aw)
  <2>1. ASSUME NEW a
        PROVE  /\ Sum(fl, OrdersIn(rest, mst, a), CashOf) = Sum(fl, OrdersIn(ords, lst, a), CashOf)
               /\ Sum(fl, OrdersIn(rest, mst, a), PnlOf) = Sum(fl, OrdersIn(ords, lst, a), PnlOf)
               /\ Sum(fl, OrdersIn(rest, mst, a), FeeOn) = Sum(fl, OrdersIn(ords, lst, a), FeeOn)
               /\ ReleasedIn(rest, mst, a) = ReleasedIn(ords, lst, a)
    <3>1. /\ History(fl, OrdersIn(rest, mst, a)) = History(fl, OrdersIn(ords, lst, a))
          /\ CancelledIn(rest, mst, a) = CancelledIn(ords, lst, a)
          /\ \A i \in CancelledIn(ords, lst, a) : rest[i].req = ords[i].req
      BY <1>1 DEF mst
    <3> QED BY <3>1, ExplainedSame
  <2> QED BY <2>1 DEF Explained
<1>4. Netted(ac, pos, rest, mst, fl)
  <2>1. ASSUME NEW a, NEW p
        PROVE  Sum(fl, OrdersOn(rest, mst, a, p), NetOf(rest)) = Sum(fl, OrdersOn(ords, lst, a, p), NetOf(ords))
    <3>1. History(fl, OrdersOn(rest, mst, a, p)) = History(fl, OrdersOn(ords, lst, a, p))
      BY <1>1 DEF mst
    <3> QED BY <1>2, <3>1, NetSame
  <2> QED BY <2>1 DEF Netted
<1> QED BY <1>3, <1>4 DEF mst

\* An order is cancelled, and its margin is not booked yet.
CancelsOrder(o, ords, rest, lst) ==
    /\ o \in lst /\ ords[o].status # "cancelled" /\ rest[o].status = "cancelled"
    /\ rest[o].req = ords[o].req /\ \A u \in OrderIds \ {o} : rest[u] = ords[u]
    /\ \A u \in lst : ords[u].req \in Request

OwesMargin(r, ac, aw, ax) ==
    \A a \in Accounts : /\ ac[a].balance \in Int /\ aw[a] \in Int
                        /\ ax[a] = aw[a] + (IF a = r.acct THEN MarginOf(r) ELSE 0)

LEMMA CancelledExplained ==
    ASSUME NEW fl \in Seq(Fill), NEW ords, NEW lst, lst \subseteq OrderIds,
           NEW o, NEW rest, CancelsOrder(o, ords, rest, lst),
           NEW ac, NEW aw, NEW ax, OwesMargin(ords[o].req, ac, aw, ax),
           NEW pos, Explained(ac, ords, lst, fl, aw), Netted(ac, pos, ords, lst, fl)
    PROVE  Explained(ac, rest, lst, fl, ax) /\ Netted(ac, pos, rest, lst, fl)
<1> USE DEF CancelsOrder, OwesMargin
<1>1. \A u \in lst : rest[u].req = ords[u].req OBVIOUS
<1>2. \A a, p : OrdersIn(rest, lst, a) = OrdersIn(ords, lst, a) /\ OrdersOn(rest, lst, a, p) = OrdersOn(ords, lst, a, p)
  BY <1>1 DEF OrdersIn, OrdersOn
<1>3. Netted(ac, pos, rest, lst, fl)
  <2>1. \A i \in DOMAIN fl : fl[i] \in Fill OBVIOUS
  <2>2. \A i \in DOMAIN fl : rest[fl[i].order].req = ords[fl[i].order].req
    BY <2>1 DEF Fill
  <2> QED BY <1>2, <2>2, NetSame DEF Netted
<1>4. ASSUME NEW a \in Accounts
      PROVE  ReleasedIn(rest, lst, a)
                = ReleasedIn(ords, lst, a) + (IF a = ords[o].req.acct THEN MarginOf(ords[o].req) ELSE 0)
  <2>1. \A u \in CancelledIn(ords, lst, a) : ords[u].req \in Request /\ rest[u].req = ords[u].req
    BY <1>1 DEF CancelledIn, OrdersIn
  <2>2. ReleasedIn(ords, lst, a) \in Int BY <2>1, ReleasedInt
  <2>3. CASE a = ords[o].req.acct
    <3>1. /\ o \notin CancelledIn(ords, lst, a)
          /\ CancelledIn(rest, lst, a) = CancelledIn(ords, lst, a) \cup {o}
      BY <1>2, <2>3 DEF CancelledIn, OrdersIn
    <3>2. \A u \in CancelledIn(rest, lst, a) : rest[u].req \in Request /\ rest[u].req = ords[u].req
      BY <1>1 DEF CancelledIn, OrdersIn
    <3> QED BY <2>3, <3>1, <3>2, ReleasedGrows
  <2>4. CASE a # ords[o].req.acct
    <3>1. CancelledIn(rest, lst, a) = CancelledIn(ords, lst, a)
      BY <1>2, <2>4 DEF CancelledIn, OrdersIn
    <3> QED BY <2>1, <2>2, <2>4, <3>1, ReleasedSame
  <2> QED BY <2>3, <2>4
<1>5. ASSUME NEW a \in Accounts \ {DefaultAccount}, ac[a].state = "live"
      PROVE  ac[a].balance + ax[a]
                = InitialBalance + Sum(fl, OrdersIn(rest, lst, a), CashOf) + ReleasedIn(rest, lst, a)
  <2>1. /\ Sum(fl, OrdersIn(ords, lst, a), CashOf) \in Int /\ ReleasedIn(ords, lst, a) \in Int
        /\ InitialBalance \in Int /\ ac[a].balance \in Int /\ aw[a] \in Int
        /\ MarginOf(ords[o].req) \in Int
    <3>1. \A u \in CancelledIn(ords, lst, a) : ords[u].req \in Request
      BY DEF CancelledIn, OrdersIn
    <3>2. Sum(fl, OrdersIn(ords, lst, a), CashOf) \in Int BY SumFills, WeightTypes
    <3>3. ReleasedIn(ords, lst, a) \in Int BY <3>1, ReleasedInt
    <3>4. MarginOf(ords[o].req) \in Int BY MarginNat
    <3> QED BY <3>2, <3>3, <3>4, ConstantsAssumption
  <2>2. ac[a].balance + aw[a]
            = InitialBalance + Sum(fl, OrdersIn(ords, lst, a), CashOf) + ReleasedIn(ords, lst, a)
    BY <1>5 DEF Explained
  <2> DEFINE d == IF a = ords[o].req.acct THEN MarginOf(ords[o].req) ELSE 0
             b == ac[a].balance
             w == aw[a]
             s == Sum(fl, OrdersIn(ords, lst, a), CashOf)
             q == ReleasedIn(ords, lst, a)
  <2>3. /\ ax[a] = w + d
        /\ OrdersIn(rest, lst, a) = OrdersIn(ords, lst, a)
        /\ ReleasedIn(rest, lst, a) = q + d
    BY <1>2, <1>4
  <2>4. /\ s \in Int /\ q \in Int /\ b \in Int /\ w \in Int /\ d \in Int /\ InitialBalance \in Int
        /\ b + w = InitialBalance + s + q
    BY <2>1, <2>2
  <2> HIDE DEF d, b, w, s, q
  <2>5. b + (w + d) = InitialBalance + s + (q + d) BY <2>4
  <2> QED BY <2>3, <2>5 DEF b, s
<1> QED BY <1>2, <1>3, <1>5 DEF Explained

\* A fill adds to a position what its side and quantity say.
LEMMA PositionSigned ==
    ASSUME NEW pos \in Position, NEW r \in Request, NEW q \in Nat
    PROVE  LET after == PositionAfter(pos, r, q)
           IN  Signed(after.side, after.qty) = Signed(pos.side, pos.qty) + Signed(r.side, q)
<1>1. pos.side \in {"buy", "sell"} /\ r.side \in {"buy", "sell"} /\ pos.qty \in Nat
  BY DEF Position, Request, Side
<1> QED BY <1>1 DEF PositionAfter, Held, Signed

\* What a fill x does: to the orders, the totals, the cash under way, a position.
FillsOrder(x, ords, rest, lst) ==
    /\ x.order \in lst
    /\ \A u \in lst : ords[u].req \in Request /\ rest[u].req = ords[u].req
    /\ \A u \in lst : rest[u].status = "cancelled" <=> ords[u].status = "cancelled"
    /\ \A u \in OrderIds : rest[u].req = ords[u].req

ChargesOwner(x, ac, r) ==
    x.acct = IF ac[r.acct].state = "live" THEN r.acct ELSE DefaultAccount

AddsTotals(x, ac, bc) ==
    \A a \in Accounts :
        /\ bc[a].state = ac[a].state /\ bc[a].balance = ac[a].balance
        /\ ac[a].state = "live" =>
              /\ bc[a].realized = IF a = x.acct THEN ac[a].realized + x.pnl ELSE ac[a].realized
              /\ bc[a].fee = IF a = x.acct THEN ac[a].fee + x.fee ELSE ac[a].fee

OwesFill(x, aw, ax) ==
    \A a \in Accounts : ax[a] = IF a = x.acct THEN aw[a] + BookedDelta(x) ELSE aw[a]

MovesPosition(x, r, pos, qos) ==
    \A a \in Accounts, p \in PosSide :
        qos[a][p] = IF a = x.acct /\ p = r.posSide THEN PositionAfter(pos[a][p], r, x.qty) ELSE pos[a][p]

LEMMA FillFields ==
    ASSUME NEW x \in Fill
    PROVE  /\ x.qty \in Nat /\ x.pnl \in Int /\ x.fee \in Int /\ x.acct \in Accounts /\ x.order \in OrderIds
           /\ BookedDelta(x) \in Int /\ CashOf[x] = BookedDelta(x) /\ PnlOf[x] = x.pnl /\ FeeOn[x] = x.fee
BY WeightTypes, BookedDeltaType DEF Fill

\* Which accounts, and which of their positions, an order that is filled is of.
LEMMA FilledOrders ==
    ASSUME NEW x, NEW ords, NEW rest, NEW lst, lst \subseteq OrderIds, FillsOrder(x, ords, rest, lst), NEW a
    PROVE  /\ OrdersIn(rest, lst, a) = OrdersIn(ords, lst, a)
           /\ CancelledIn(rest, lst, a) = CancelledIn(ords, lst, a)
           /\ \A i \in CancelledIn(ords, lst, a) : rest[i].req = ords[i].req /\ ords[i].req \in Request
           /\ x.order \in OrdersIn(ords, lst, a) <=> ords[x.order].req.acct = a
<1>1. OrdersIn(rest, lst, a) = OrdersIn(ords, lst, a)
  BY DEF FillsOrder, OrdersIn
<1>2. \A u \in OrdersIn(ords, lst, a) : u \in lst /\ rest[u].req = ords[u].req
  BY DEF FillsOrder, OrdersIn
<1>4. CancelledIn(rest, lst, a) = CancelledIn(ords, lst, a)
  BY <1>1, <1>2 DEF CancelledIn, FillsOrder
<1>5. \A i \in CancelledIn(ords, lst, a) : rest[i].req = ords[i].req /\ ords[i].req \in Request
  BY <1>2 DEF CancelledIn, FillsOrder
<1>6. x.order \in OrdersIn(ords, lst, a) <=> ords[x.order].req.acct = a
  BY DEF FillsOrder, OrdersIn
<1> QED BY <1>1, <1>4, <1>5, <1>6

LEMMA FilledOn ==
    ASSUME NEW x, NEW ords, NEW rest, NEW lst, lst \subseteq OrderIds, FillsOrder(x, ords, rest, lst),
           NEW a, NEW p
    PROVE  /\ OrdersOn(rest, lst, a, p) = OrdersOn(ords, lst, a, p)
           /\ x.order \in OrdersOn(ords, lst, a, p)
                <=> ords[x.order].req.acct = a /\ ords[x.order].req.posSide = p
<1>1. /\ OrdersIn(rest, lst, a) = OrdersIn(ords, lst, a)
      /\ x.order \in OrdersIn(ords, lst, a) <=> ords[x.order].req.acct = a
  BY FilledOrders
<1>2. \A u \in OrdersIn(ords, lst, a) : rest[u].req = ords[u].req
  BY DEF FillsOrder, OrdersIn
<1> QED BY <1>1, <1>2 DEF OrdersOn

LEMMA AddToBoth ==
    ASSUME NEW b \in Int, NEW w \in Int, NEW i \in Int, NEW s \in Int, NEW r \in Int, NEW d \in Int,
           b + w = i + s + r
    PROVE  b + (w + d) = i + (s + d) + r
OBVIOUS

\* An order is filled: the books, whose cash is not booked yet.
LEMMA FilledExplained ==
    ASSUME NEW fl \in Seq(Fill), NEW x \in Fill, NEW ords, NEW rest, NEW lst, lst \subseteq OrderIds,
           FillsOrder(x, ords, rest, lst),
           NEW ac \in [Accounts -> Account], ChargesOwner(x, ac, ords[x.order].req),
           NEW bc, AddsTotals(x, ac, bc),
           NEW aw \in [Accounts -> Int], NEW ax, OwesFill(x, aw, ax),
           Explained(ac, ords, lst, fl, aw)
    PROVE  Explained(bc, rest, lst, Append(fl, x), ax)
<1> SUFFICES ASSUME NEW a \in Accounts \ {DefaultAccount}, bc[a].state = "live"
             PROVE  /\ bc[a].balance + ax[a]
                          = InitialBalance + Sum(Append(fl, x), OrdersIn(rest, lst, a), CashOf)
                                + ReleasedIn(rest, lst, a)
                    /\ bc[a].realized = Sum(Append(fl, x), OrdersIn(rest, lst, a), PnlOf)
                    /\ bc[a].fee = Sum(Append(fl, x), OrdersIn(rest, lst, a), FeeOn)
  BY DEF Explained
<1> DEFINE S == OrdersIn(ords, lst, a)
           R == ReleasedIn(ords, lst, a)
<1>1. ac[a].state = "live" /\ ac[a] \in Account
  BY DEF AddsTotals
<1>2. R \in Int /\ ReleasedIn(rest, lst, a) = R
  <2>1. R \in Int BY FilledOrders, ReleasedInt
  <2>2. ReleasedIn(rest, lst, a) = R BY FilledOrders, ReleasedSame
  <2> QED BY <2>1, <2>2
<1>3. OrdersIn(rest, lst, a) = S /\ (x.order \in S <=> ords[x.order].req.acct = a)
  BY FilledOrders
<1>4. /\ ac[a].balance + aw[a] = InitialBalance + Sum(fl, S, CashOf) + R
      /\ ac[a].realized = Sum(fl, S, PnlOf) /\ ac[a].fee = Sum(fl, S, FeeOn)
  BY <1>1 DEF Explained
<1>5. ac[a].balance \in Int /\ aw[a] \in Int /\ InitialBalance \in Int
  BY <1>1, ConstantsAssumption DEF Account
<1> HIDE DEF S, R
<1>6. /\ Sum(fl, S, CashOf) \in Int /\ Sum(fl, S, PnlOf) \in Int /\ Sum(fl, S, FeeOn) \in Int
  BY SumFills, WeightTypes
<1>7. /\ Sum(Append(fl, x), S, CashOf) = Sum(fl, S, CashOf) + (IF x.order \in S THEN CashOf[x] ELSE 0)
      /\ Sum(Append(fl, x), S, PnlOf) = Sum(fl, S, PnlOf) + (IF x.order \in S THEN PnlOf[x] ELSE 0)
      /\ Sum(Append(fl, x), S, FeeOn) = Sum(fl, S, FeeOn) + (IF x.order \in S THEN FeeOn[x] ELSE 0)
  BY SumAppend, WeightTypes
<1>8. x.order \in S <=> a = x.acct
  BY <1>1, <1>3 DEF ChargesOwner
<1>9. /\ bc[a].balance = ac[a].balance
      /\ bc[a].realized = IF a = x.acct THEN ac[a].realized + x.pnl ELSE ac[a].realized
      /\ bc[a].fee = IF a = x.acct THEN ac[a].fee + x.fee ELSE ac[a].fee
      /\ ax[a] = IF a = x.acct THEN aw[a] + BookedDelta(x) ELSE aw[a]
  BY <1>1 DEF AddsTotals, OwesFill
<1>10. /\ BookedDelta(x) \in Int /\ CashOf[x] = BookedDelta(x) /\ PnlOf[x] = x.pnl /\ FeeOn[x] = x.fee
  BY FillFields
<1>11. CASE a = x.acct
  <2>1. Sum(Append(fl, x), S, CashOf) = Sum(fl, S, CashOf) + BookedDelta(x)
    BY <1>7, <1>8, <1>10, <1>11
  <2>2. ax[a] = aw[a] + BookedDelta(x) /\ bc[a].balance = ac[a].balance BY <1>9, <1>11
  <2>3. ac[a].balance + ax[a] = InitialBalance + (Sum(fl, S, CashOf) + BookedDelta(x)) + R
    <3> DEFINE b == ac[a].balance
               w == aw[a]
               s == Sum(fl, S, CashOf)
               d == BookedDelta(x)
    <3>1. b \in Int /\ w \in Int /\ s \in Int /\ d \in Int /\ R \in Int /\ InitialBalance \in Int
          /\ b + w = InitialBalance + s + R
      BY <1>2, <1>4, <1>5, <1>6, <1>10
    <3>2. ax[a] = w + d BY <2>2
    <3> HIDE DEF b, w, s, d
    <3>3. b + (w + d) = InitialBalance + (s + d) + R BY <3>1, AddToBoth
    <3> QED BY <3>2, <3>3 DEF b, s, d
  <2>4. /\ bc[a].realized = Sum(Append(fl, x), S, PnlOf)
        /\ bc[a].fee = Sum(Append(fl, x), S, FeeOn)
    BY <1>4, <1>7, <1>8, <1>9, <1>10, <1>11
  <2> QED BY <1>2, <1>3, <2>1, <2>2, <2>3, <2>4
<1>12. CASE a # x.acct
  <2>1. /\ Sum(Append(fl, x), S, CashOf) = Sum(fl, S, CashOf)
        /\ Sum(Append(fl, x), S, PnlOf) = Sum(fl, S, PnlOf)
        /\ Sum(Append(fl, x), S, FeeOn) = Sum(fl, S, FeeOn)
    BY <1>6, <1>7, <1>8, <1>12
  <2> QED BY <1>2, <1>3, <1>4, <1>9, <1>12, <2>1
<1> QED
  BY <1>11, <1>12

\* An order is filled: the positions.
LEMMA FilledNetted ==
    ASSUME NEW fl \in Seq(Fill), NEW x \in Fill, NEW ords, NEW rest, NEW lst, lst \subseteq OrderIds,
           FillsOrder(x, ords, rest, lst),
           NEW ac, ChargesOwner(x, ac, ords[x.order].req), NEW bc, AddsTotals(x, ac, bc),
           NEW pos \in [Accounts -> [PosSide -> Position]], NEW qos,
           MovesPosition(x, ords[x.order].req, pos, qos),
           Netted(ac, pos, ords, lst, fl)
    PROVE  Netted(bc, qos, rest, lst, Append(fl, x))
<1> SUFFICES ASSUME NEW a \in Accounts \ {DefaultAccount}, NEW p \in PosSide, bc[a].state = "live"
             PROVE  Signed(qos[a][p].side, qos[a][p].qty)
                        = Sum(Append(fl, x), OrdersOn(rest, lst, a, p), NetOf(rest))
  BY DEF Netted
<1> DEFINE S == OrdersOn(ords, lst, a, p)
           r == ords[x.order].req
           gl == Append(fl, x)
<1>0. /\ OrdersOn(rest, lst, a, p) = S
      /\ x.order \in S <=> r.acct = a /\ r.posSide = p
  BY FilledOn
<1>1. ac[a].state = "live"
  BY DEF AddsTotals
<1>2. r \in Request /\ pos[a][p] \in Position
  BY DEF FillsOrder
<1>3. gl \in Seq(Fill) OBVIOUS
<1>4. Sum(gl, OrdersOn(rest, lst, a, p), NetOf(rest)) = Sum(gl, S, NetOf(ords))
  <2>1. History(gl, OrdersOn(rest, lst, a, p)) = History(gl, S)
    BY <1>0
  <2>2. \A i \in DOMAIN gl : rest[gl[i].order].req = ords[gl[i].order].req
    <3>1. \A i \in DOMAIN gl : gl[i] \in Fill
      <4> HIDE DEF gl
      <4> QED BY <1>3
    <3> HIDE DEF gl
    <3> QED BY <3>1, FillFields DEF FillsOrder
  <2> HIDE DEF gl
  <2> QED BY <1>3, <2>1, <2>2, NetSame
<1>5. Signed(pos[a][p].side, pos[a][p].qty) = Sum(fl, S, NetOf(ords))
  BY <1>1 DEF Netted
<1>6. NetOf(ords) \in [Fill -> Int] /\ NetOf(ords)[x] = Signed(r.side, x.qty)
  BY DEF NetOf, Signed, Fill
<1>7. x.order \in S <=> a = x.acct /\ p = r.posSide
  BY <1>0, <1>1 DEF ChargesOwner
<1> HIDE DEF S
<1>8. Sum(gl, S, NetOf(ords)) = Sum(fl, S, NetOf(ords)) + (IF x.order \in S THEN NetOf(ords)[x] ELSE 0)
  BY <1>6, SumAppend
<1>9. Sum(fl, S, NetOf(ords)) \in Int
  BY <1>6, SumFills
<1>10. qos[a][p] = IF x.order \in S THEN PositionAfter(pos[a][p], r, x.qty) ELSE pos[a][p]
  BY <1>7 DEF MovesPosition
<1> HIDE DEF r, gl
<1>11. LET after == PositionAfter(pos[a][p], r, x.qty)
       IN  Signed(after.side, after.qty) = Signed(pos[a][p].side, pos[a][p].qty) + Signed(r.side, x.qty)
  BY <1>2, FillFields, PositionSigned
<1> QED
  BY <1>4, <1>5, <1>6, <1>8, <1>9, <1>10, <1>11 DEF gl

\* An account is opened, or begins again: nothing is left to explain.
LEMMA FreshExplained ==
    ASSUME NEW fl \in Seq(Fill), NEW ords, NEW lst, lst \subseteq OrderIds, NEW a \in Accounts,
           NEW mst, mst \subseteq lst, OrdersIn(ords, mst, a) = {},
           \A c \in Accounts \ {a} : OrdersIn(ords, mst, c) = OrdersIn(ords, lst, c),
           NEW ac, NEW bc, bc[a] = FreshAccount, \A c \in Accounts \ {a} : bc[c] = ac[c],
           NEW aw, aw[a] = 0,
           NEW pos, NEW qos, \A p \in PosSide : qos[a][p].qty = 0 /\ qos[a][p].side \in Side,
           \A c \in Accounts \ {a} : qos[c] = pos[c],
           Explained(ac, ords, lst, fl, aw), Netted(ac, pos, ords, lst, fl)
    PROVE  Explained(bc, ords, mst, fl, aw) /\ Netted(bc, qos, ords, mst, fl)
<1>1. /\ \A w : Sum(fl, OrdersIn(ords, mst, a), w) = 0
      /\ \A p, w : Sum(fl, OrdersOn(ords, mst, a, p), w) = 0
      /\ ReleasedIn(ords, mst, a) = 0
  <2>1. /\ History(fl, OrdersIn(ords, mst, a)) = {} /\ CancelledIn(ords, mst, a) = {}
        /\ \A p : History(fl, OrdersOn(ords, mst, a, p)) = {}
    BY DEF History, CancelledIn, OrdersOn
  <2>2. ReleasedIn(ords, mst, a) = 0
    BY <2>1, TotalIsSum, SumEmpty DEF ReleasedIn
  <2> QED BY <2>1, <2>2, SumNothing
<1>2. ASSUME NEW c \in Accounts \ {DefaultAccount}, bc[c].state = "live"
      PROVE  /\ bc[c].balance + aw[c]
                    = InitialBalance + Sum(fl, OrdersIn(ords, mst, c), CashOf) + ReleasedIn(ords, mst, c)
             /\ bc[c].realized = Sum(fl, OrdersIn(ords, mst, c), PnlOf)
             /\ bc[c].fee = Sum(fl, OrdersIn(ords, mst, c), FeeOn)
             /\ \A p \in PosSide : Signed(qos[c][p].side, qos[c][p].qty) = Sum(fl, OrdersOn(ords, mst, c, p), NetOf(ords))
  <2>1. CASE c = a
    <3>1. \A p \in PosSide : Signed(qos[a][p].side, qos[a][p].qty) = 0 BY DEF Signed
    <3>2. bc[a].balance = InitialBalance /\ bc[a].realized = 0 /\ bc[a].fee = 0 /\ InitialBalance \in Int
      BY ConstantsAssumption DEF FreshAccount
    <3>3. /\ Sum(fl, OrdersIn(ords, mst, c), CashOf) = 0 /\ ReleasedIn(ords, mst, c) = 0
          /\ Sum(fl, OrdersIn(ords, mst, c), PnlOf) = 0 /\ Sum(fl, OrdersIn(ords, mst, c), FeeOn) = 0
          /\ \A p \in PosSide : Sum(fl, OrdersOn(ords, mst, c, p), NetOf(ords)) = 0
      BY <1>1, <2>1
    <3>4. bc[c].balance + aw[c] = InitialBalance /\ InitialBalance + 0 + 0 = InitialBalance
      BY <2>1, <3>2
    <3> QED BY <2>1, <3>1, <3>2, <3>3, <3>4
  <2>2. CASE c # a
    <3>1. /\ OrdersIn(ords, mst, c) = OrdersIn(ords, lst, c)
          /\ bc[c] = ac[c] /\ qos[c] = pos[c] /\ ac[c].state = "live"
      BY <1>2, <2>2
    <3>2. /\ CancelledIn(ords, mst, c) = CancelledIn(ords, lst, c)
          /\ \A p : OrdersOn(ords, mst, c, p) = OrdersOn(ords, lst, c, p)
      BY <3>1 DEF CancelledIn, OrdersOn
    <3>3. ReleasedIn(ords, mst, c) = ReleasedIn(ords, lst, c)
      BY <3>2 DEF ReleasedIn
    <3>4. \A w : Sum(fl, OrdersIn(ords, mst, c), w) = Sum(fl, OrdersIn(ords, lst, c), w)
      BY <3>1
    <3>5. \A p, w : Sum(fl, OrdersOn(ords, mst, c, p), w) = Sum(fl, OrdersOn(ords, lst, c, p), w)
      BY <3>2
    <3>6. /\ ac[c].balance + aw[c]
                = InitialBalance + Sum(fl, OrdersIn(ords, lst, c), CashOf) + ReleasedIn(ords, lst, c)
          /\ ac[c].realized = Sum(fl, OrdersIn(ords, lst, c), PnlOf)
          /\ ac[c].fee = Sum(fl, OrdersIn(ords, lst, c), FeeOn)
      BY <3>1 DEF Explained
    <3>7. \A p \in PosSide : Signed(pos[c][p].side, pos[c][p].qty) = Sum(fl, OrdersOn(ords, lst, c, p), NetOf(ords))
      BY <3>1 DEF Netted
    <3> QED BY <3>1, <3>3, <3>4, <3>5, <3>6, <3>7
  <2> QED BY <2>1, <2>2
<1> QED BY <1>2 DEF Explained, Netted

-------------------------------------------------------------------------------
(* Callbacks that return: one call runs at a time, from its start to its end *)

\* The call that has the loop; an idle one when none has.
Running == IF loop = NoTask THEN IdleTask ELSE tasks[loop]

Solo == \A t \in Tasks : loop # t => tasks[t] = IdleTask

\* What a call knows of the state: its account is live, the order it holds and
\* those it has yet to scan are listed.
ShapeOf(k, ac, ords, lst) ==
    /\ k.pc = "lock" => ac[k.req.acct].state = "live"
    /\ k.pc = "created" => k.order \in lst /\ ords[k.order].status = "accepted"
    /\ k.pc = "cancelled" => k.order \in lst /\ ords[k.order].status = "cancelled"
    /\ k.todo \subseteq lst

FillableAs(ord, cur) ==
    ord.status = "accepted" /\ ord.filled < ord.req.qty /\ PriceConditionMet(ord.req, cur)

\* A tick has settled every order it has not yet to scan.
SettlesOf(k, ords, lst) ==
    k.op = "tick" /\ k.pc \in {"scan", "booking", "booked"} =>
        \A o \in lst \ k.todo : ~ FillableAs(ords[o], k.price)

\* The cash the call has yet to book.
DueOf(k, ords) ==
    [a \in Accounts |-> IF k.pc = "booking" /\ k.acct = a THEN k.delta
                        ELSE IF k.pc = "cancelled" /\ ords[k.order].req.acct = a
                             THEN MarginOf(ords[k.order].req) ELSE 0]

\* An account that does not exist has no orders and no positions.
EmptyOf(ac, pos, ords, lst) ==
    /\ ac[DefaultAccount].state # "absent"
    /\ \A a \in Accounts : ac[a].state = "absent" =>
          OrdersIn(ords, lst, a) = {} /\ \A p \in PosSide : pos[a][p].qty = 0

Books(k, ac, pos, ords, lst, fl) ==
    /\ ShapeOf(k, ac, ords, lst) /\ SettlesOf(k, ords, lst) /\ EmptyOf(ac, pos, ords, lst)
    /\ Explained(ac, ords, lst, fl, DueOf(k, ords)) /\ Netted(ac, pos, ords, lst, fl)

BooksAgree == Books(Running, accounts, positions, orders, listed, fills)

CallInv == IInv /\ Solo /\ BooksAgree

LEMMA Runs ==
    ASSUME TypeOK, Solo, NEW t \in Tasks, CanRun(t),
           \A u \in Tasks \ {t} : tasks'[u] = tasks[u],
           loop' = t \/ (loop' = NoTask /\ tasks'[t] = IdleTask)
    PROVE  Solo' /\ Running' = tasks'[t] /\ Running = tasks[t]
BY ConstantsAssumption DEF Solo, Running, CanRun

LEMMA EndRuns ==
    ASSUME TypeOK, NEW t \in Tasks, End(t)
    PROVE  tasks'[t] = IdleTask /\ loop' = NoTask /\ \A u \in Tasks \ {t} : tasks'[u] = tasks[u]
BY DEF End, TypeOK

LEMMA AwaitRuns ==
    ASSUME CallbackOutcomes = {"return"}, NEW t, Await(t)
    PROVE  loop' = t
BY DEF Await

LEMMA FillableIs == \A o, cur : Fillable(o, cur) <=> FillableAs(orders[o], cur)
BY DEF Fillable, FillableAs, IsOpen

LEMMA NothingDue ==
    ASSUME NEW k, NEW ords, k.pc \notin {"booking", "cancelled"}
    PROVE  DueOf(k, ords) = [a \in Accounts |-> 0]
BY DEF DueOf

LEMMA IdleKnowsNothing ==
    ASSUME NEW ac, NEW ords, NEW lst
    PROVE  ShapeOf(IdleTask, ac, ords, lst) /\ SettlesOf(IdleTask, ords, lst)
           /\ IdleTask.pc = "idle" /\ IdleTask.op = "none" /\ IdleTask.todo = {}
BY DEF ShapeOf, SettlesOf, IdleTask

\* The call goes on and touches nothing but itself.
LEMMA GoesOn ==
    ASSUME CallInv, NEW t \in Tasks, CanRun(t),
           UNCHANGED <<accounts, positions, orders, listed, fills>>,
           \A u \in Tasks \ {t} : tasks'[u] = tasks[u],
           loop' = t \/ (loop' = NoTask /\ tasks'[t] = IdleTask),
           ShapeOf(tasks'[t], accounts, orders, listed), SettlesOf(tasks'[t], orders, listed),
           tasks[t].pc \notin {"booking", "cancelled"}, tasks'[t].pc \notin {"booking", "cancelled"}
    PROVE  Solo' /\ BooksAgree'
<1>1. Solo' /\ Running' = tasks'[t] /\ Running = tasks[t]
  BY Runs DEF CallInv, IInv
<1>2. DueOf(tasks'[t], orders) = DueOf(tasks[t], orders)
  BY NothingDue
<1>3. Books(tasks'[t], accounts, positions, orders, listed, fills)
  BY <1>1, <1>2 DEF CallInv, BooksAgree, Books
<1> QED BY <1>1, <1>3 DEF BooksAgree

\* The call ends and has nothing left to book.
LEMMA Ends ==
    ASSUME CallInv, NEW t \in Tasks, CanRun(t), End(t),
           UNCHANGED <<accounts, positions, orders, listed, fills>>,
           tasks[t].pc \notin {"booking", "cancelled"}
    PROVE  Solo' /\ BooksAgree'
BY GoesOn, EndRuns, IdleKnowsNothing DEF CallInv, IInv

\* A call starts: nothing else is under way.
LEMMA Starts ==
    ASSUME CallInv, loop = NoTask, NEW t \in Tasks
    PROVE  /\ CanRun(t) /\ tasks[t] = IdleTask /\ Running = IdleTask
           /\ \A a \in Accounts : lock[a] = NoTask
<1>1. \A u \in Tasks : tasks[u] = IdleTask
  BY ConstantsAssumption DEF CallInv, Solo
<1>2. \A a \in Accounts, u \in Tasks : lock[a] # u
  BY <1>1, IdleKnowsNothing DEF CallInv, IInv, LockHeldByPlacement
<1>3. \A a \in Accounts : lock[a] \in Tasks \cup {NoTask}
  BY DEF CallInv, IInv, TypeOK
<1> QED BY <1>1, <1>2, <1>3 DEF CanRun, Running

\* What a running call knows.
LEMMA Knows ==
    ASSUME CallInv, NEW t \in Tasks, CanRun(t)
    PROVE  /\ Running = tasks[t]
           /\ ShapeOf(tasks[t], accounts, orders, listed) /\ SettlesOf(tasks[t], orders, listed)
           /\ tasks[t] \in Task
<1>1. Running = tasks[t]
  BY ConstantsAssumption DEF CallInv, Solo, Running, CanRun
<1> QED BY <1>1 DEF CallInv, BooksAgree, Books, IInv, TypeOK

LEMMA SubmitBooks ==
    ASSUME CallInv, CallbackOutcomes = {"return"}, NEW t \in Tasks, NEW r \in Request, SubmitRequest(t, r)
    PROVE  Solo' /\ BooksAgree'
<1>1. /\ CanRun(t) /\ tasks[t] = IdleTask /\ loop = NoTask /\ lock[r.acct] = NoTask
      /\ accounts[r.acct].state = "live"
  BY Starts DEF SubmitRequest, Live, Request
<1>2. /\ tasks'[t].pc = "lock" /\ tasks'[t].op = "place" /\ tasks'[t].req = r /\ tasks'[t].todo = tasks[t].todo
      /\ \A u \in Tasks \ {t} : tasks'[u] = tasks[u]
      /\ loop' = t
      /\ UNCHANGED <<accounts, positions, orders, listed, fills>>
  BY <1>1 DEF SubmitRequest, CallInv, IInv, TypeOK, Task
<1>3. tasks[t].pc = "idle" /\ tasks[t].todo = {}
  BY <1>1, IdleKnowsNothing
<1>4. ShapeOf(tasks'[t], accounts, orders, listed) /\ SettlesOf(tasks'[t], orders, listed)
  BY <1>1, <1>2, <1>3 DEF ShapeOf, SettlesOf
<1> QED BY <1>1, <1>2, <1>3, <1>4, GoesOn

\* Requests clients send are requests.
LEMMA PlaceBooks ==
    ASSUME CallInv, CallbackOutcomes = {"return"}, NEW t \in Tasks, PlaceOrder(t) \/ ClosePosition(t)
    PROVE  Solo' /\ BooksAgree'
<1>1. CASE PlaceOrder(t)
  BY <1>1, SubmitBooks, ConstantsAssumption DEF PlaceOrder
<1>2. CASE ClosePosition(t)
  <2>1. PICK a \in Accounts, p \in PosSide, mark \in Prices \cup {NoPrice} :
            /\ positions[a][p].qty > 0
            /\ \E qty \in CloseQuantities \cup {positions[a][p].qty} :
                  SubmitRequest(t, CloseRequest(a, p, qty, mark))
    BY <1>2 DEF ClosePosition
  <2>2. positions[a][p].qty \in Nat \ {0}
    BY <2>1 DEF CallInv, IInv, TypeOK, Position
  <2>3. CloseQuantities \cup {positions[a][p].qty} \subseteq Nat \ {0}
    BY <2>2, ConstantsAssumption
  <2>4. TypeOK BY DEF CallInv, IInv
  <2> QED BY <2>1, <2>3, <2>4, SubmitBooks, CloseRequestType
<1> QED BY <1>1, <1>2

\* Calls that end having changed nothing that is booked.
LEMMA ReturnsBooks ==
    ASSUME CallInv, NEW t \in Tasks,
           \/ RejectOrder(t) \/ RestOrder(t) \/ LeaveMarketOrder(t) \/ ReturnFromPlace(t) \/ FinishTick(t)
    PROVE  Solo' /\ BooksAgree'
<1>1. /\ CanRun(t) /\ End(t) /\ UNCHANGED <<accounts, positions, orders, listed, fills>>
      /\ tasks[t].pc \in {"lock", "created", "booked", "scan"}
  BY DEF RejectOrder, RestOrder, LeaveMarketOrder, ReturnFromPlace, FinishTick, Scanning
<1> QED BY <1>1, Ends

LEMMA TickBooks ==
    ASSUME CallInv, CallbackOutcomes = {"return"}, NEW t \in Tasks, PriceTick(t)
    PROVE  Solo' /\ BooksAgree'
<1>1. PICK cur \in Prices : Tick(t, cur)
  BY DEF PriceTick
<1>2. /\ CanRun(t) /\ tasks[t] = IdleTask /\ loop = NoTask /\ tasks \in [Tasks -> Task]
      /\ tasks[t].pc = "idle" /\ tasks[t].todo = {}
  BY <1>1, Starts, IdleKnowsNothing DEF Tick, CallInv, IInv, TypeOK
<1>3. /\ loop' = t /\ UNCHANGED <<accounts, positions, orders, listed, fills>>
      /\ \A u \in Tasks \ {t} : tasks'[u] = tasks[u]
      /\ tasks'[t].op = "tick" /\ tasks'[t].price = cur
      /\ \/ tasks'[t].pc = "ticked" /\ tasks'[t].todo = tasks[t].todo
         \/ tasks'[t].pc = "scan" /\ tasks'[t].todo = OpenOrders
  BY <1>1, <1>2, AwaitRuns DEF Tick, Task
<1>4. OpenOrders \subseteq listed /\ \A o \in listed \ OpenOrders : ~ FillableAs(orders[o], cur)
  BY DEF OpenOrders, IsOpen, FillableAs
<1>5. ShapeOf(tasks'[t], accounts, orders, listed) /\ SettlesOf(tasks'[t], orders, listed)
  BY <1>2, <1>3, <1>4 DEF ShapeOf, SettlesOf
<1> QED BY <1>2, <1>3, <1>5, GoesOn

LEMMA ScanBooks ==
    ASSUME CallInv, NEW t \in Tasks, SnapshotOpenOrders(t) \/ SkipOrder(t)
    PROVE  Solo' /\ BooksAgree'
<1>1. CanRun(t) /\ tasks[t].pc \in {"ticked", "scan", "booked"}
  BY DEF SnapshotOpenOrders, SkipOrder, Scanning
<1>2. ShapeOf(tasks[t], accounts, orders, listed) /\ SettlesOf(tasks[t], orders, listed) /\ tasks \in [Tasks -> Task]
  BY <1>1, Knows DEF CallInv, IInv, TypeOK
<1>3. CASE SnapshotOpenOrders(t)
  <2>1. /\ loop' = t /\ UNCHANGED <<accounts, positions, orders, listed, fills>>
        /\ \A u \in Tasks \ {t} : tasks'[u] = tasks[u]
        /\ tasks'[t].pc = "scan" /\ tasks'[t].todo = OpenOrders
    BY <1>2, <1>3 DEF SnapshotOpenOrders, Task
  <2>2. OpenOrders \subseteq listed /\ \A o \in listed \ OpenOrders : \A cur : ~ FillableAs(orders[o], cur)
    BY DEF OpenOrders, IsOpen, FillableAs
  <2>3. ShapeOf(tasks'[t], accounts, orders, listed) /\ SettlesOf(tasks'[t], orders, listed)
    BY <2>1, <2>2 DEF ShapeOf, SettlesOf
  <2> QED BY <1>1, <2>1, <2>3, GoesOn
<1>4. CASE SkipOrder(t)
  <2>1. PICK o \in OrderIds :
            /\ Scanning(t) /\ o \in tasks[t].todo /\ ~ Fillable(o, tasks[t].price)
            /\ tasks' = [tasks EXCEPT ![t].pc = "scan", ![t].todo = @ \ {o}]
            /\ loop' = t /\ UNCHANGED <<accounts, positions, orders, listed, fills>>
    BY <1>4 DEF SkipOrder, IsNextToScan
  <2>2. /\ \A u \in Tasks \ {t} : tasks'[u] = tasks[u]
        /\ tasks'[t].pc = "scan" /\ tasks'[t].todo = tasks[t].todo \ {o}
        /\ tasks'[t].op = tasks[t].op /\ tasks'[t].price = tasks[t].price
        /\ tasks[t].op = "tick" /\ tasks[t].pc \in {"scan", "booked"}
    BY <1>2, <2>1 DEF Scanning, Task
  <2>3. \A u \in listed \ tasks[t].todo : ~ FillableAs(orders[u], tasks[t].price)
    BY <1>2, <2>2 DEF SettlesOf
  <2>4. ~ FillableAs(orders[o], tasks[t].price)
    BY <2>1, FillableIs
  <2>5. ShapeOf(tasks'[t], accounts, orders, listed)
    BY <1>2, <2>2 DEF ShapeOf
  <2>6. SettlesOf(tasks'[t], orders, listed)
    BY <2>2, <2>3, <2>4 DEF SettlesOf
  <2> QED BY <1>1, <2>1, <2>2, <2>5, <2>6, GoesOn
<1> QED BY <1>3, <1>4

\* What only callbacks that suspend or raise can lead to.
LEMMA NeverHappens ==
    ASSUME CallInv, CallbackOutcomes = {"return"}, NEW t \in Tasks,
           \/ MarketOrderAlreadyFilled(t) \/ ForceFillMarketOrder(t) \/ LoseTick(t) \/ CallbackRaises(t)
    PROVE  FALSE
<1>1. CASE CallbackRaises(t)
  BY <1>1 DEF CallbackRaises
<1>2. CASE MarketOrderAlreadyFilled(t)
  BY <1>2, Knows DEF MarketOrderAlreadyFilled, ShapeOf
<1>3. CASE LoseTick(t)
  BY <1>3, Knows DEF LoseTick, Scanning, IsNextToScan, ShapeOf
<1>4. CASE ForceFillMarketOrder(t)
  <2> DEFINE o == tasks[t].order
  <2>1. /\ CanRun(t) /\ tasks[t].pc = "created" /\ orders[o].req.type = "market"
        /\ o \notin listed \/ ~ Fillable(o, MarketPrice(orders[o].req))
    BY <1>4 DEF ForceFillMarketOrder
  <2>2. o \in listed /\ orders[o].status = "accepted"
    BY <2>1, Knows DEF ShapeOf
  <2>3. o \in OrderIds /\ orders[o].filled = 0 /\ orders[o].req \in Request
    BY <2>2 DEF CallInv, IInv, TypeOK, OrderShape
  <2>4. PriceConditionMet(orders[o].req, MarketPrice(orders[o].req))
    BY <2>1 DEF PriceConditionMet
  <2>5. Fillable(o, MarketPrice(orders[o].req))
    BY <2>2, <2>3, <2>4 DEF Fillable, IsOpen, Request
  <2> QED BY <2>1, <2>2, <2>5
<1> QED BY <1>1, <1>2, <1>3, <1>4

LEMMA CreateBooks ==
    ASSUME CallInv, CallbackOutcomes = {"return"}, NEW t \in Tasks, CreateOrder(t)
    PROVE  Solo' /\ BooksAgree'
<1> DEFINE r == tasks[t].req
<1>1. PICK o \in OrderIds :
          /\ IsNextId(o)
          /\ orders' = [orders EXCEPT ![o] = [req |-> r, status |-> "accepted", filled |-> 0]]
          /\ listed' = listed \cup {o}
          /\ tasks' = [tasks EXCEPT ![t].pc = "created", ![t].req = NoRequest, ![t].order = o]
  BY DEF CreateOrder
<1>2. CanRun(t) /\ tasks[t].pc = "lock" /\ Await(t) /\ UNCHANGED <<accounts, positions, fills>>
  BY DEF CreateOrder
<1>3. /\ tasks \in [Tasks -> Task] /\ orders \in [OrderIds -> Order] /\ listed \subseteq OrderIds
      /\ fills \in Seq(Fill) /\ tasks[t].op = "place" /\ orders[o].status = "none"
  BY <1>1, <1>2 DEF CallInv, IInv, TypeOK, TaskShape, IsNextId
<1>4. ShapeOf(tasks[t], accounts, orders, listed) /\ Running = tasks[t]
  BY <1>2, Knows
<1>5. loop' = t BY <1>2, AwaitRuns
<1>6. /\ \A u \in Tasks \ {t} : tasks'[u] = tasks[u]
      /\ tasks'[t].pc = "created" /\ tasks'[t].order = o /\ tasks'[t].todo = tasks[t].todo
      /\ tasks'[t].op = tasks[t].op
  BY <1>1, <1>3 DEF Task
<1>7. Solo' /\ Running' = tasks'[t]
  BY <1>2, <1>5, <1>6, Runs DEF CallInv, IInv
<1>8. /\ orders'[o].status = "accepted" /\ orders'[o].req = r /\ \A u \in OrderIds \ {o} : orders'[u] = orders[u]
  BY <1>1, <1>3
<1>9. o \notin listed /\ \A i \in DOMAIN fills : fills[i].order # o
  BY <1>3 DEF CallInv, IInv, OrderShape, ExecutedExactlyOnce, FillsFor
<1> HIDE DEF r
<1>10. /\ Explained(accounts, orders', listed', fills, DueOf(tasks[t], orders))
       /\ Netted(accounts, positions, orders', listed', fills)
  <2>1. /\ Explained(accounts, orders, listed, fills, DueOf(tasks[t], orders))
        /\ Netted(accounts, positions, orders, listed, fills)
    BY <1>4 DEF CallInv, BooksAgree, Books
  <2> QED BY <1>1, <1>3, <1>8, <1>9, <2>1, PlacedExplained
<1>11. DueOf(tasks'[t], orders') = DueOf(tasks[t], orders)
  BY <1>2, <1>6, NothingDue
<1>12. ShapeOf(tasks'[t], accounts, orders', listed') /\ SettlesOf(tasks'[t], orders', listed')
  BY <1>1, <1>3, <1>4, <1>6, <1>8 DEF ShapeOf, SettlesOf
<1>13. EmptyOf(accounts, positions, orders', listed')
  <2>1. EmptyOf(accounts, positions, orders, listed)
    BY DEF CallInv, BooksAgree, Books
  <2>2. accounts[r.acct].state = "live"
    BY <1>2, <1>4 DEF ShapeOf, r
  <2>3. \A a : OrdersIn(orders, listed, a) = {} /\ a # r.acct => OrdersIn(orders', listed', a) = {}
    BY <1>1, <1>3, <1>8 DEF OrdersIn
  <2> QED BY <2>1, <2>2, <2>3 DEF EmptyOf
<1> QED BY <1>2, <1>7, <1>10, <1>11, <1>12, <1>13 DEF BooksAgree, Books

\* The balance is booked.
LEMMA CreditExplained ==
    ASSUME NEW ac \in [Accounts -> Account], NEW c, NEW d \in Int, NEW ords, NEW lst, NEW fl,
           NEW aw, \A a \in Accounts : aw[a] = IF a = c THEN d ELSE 0,
           NEW pos, Explained(ac, ords, lst, fl, aw), Netted(ac, pos, ords, lst, fl)
    PROVE  /\ Explained(Credit(ac, c, d), ords, lst, fl, [a \in Accounts |-> 0])
           /\ Netted(Credit(ac, c, d), pos, ords, lst, fl)
           /\ \A a \in Accounts : Credit(ac, c, d)[a].state = ac[a].state
<1>1. ASSUME NEW a \in Accounts
      PROVE  LET b == Credit(ac, c, d)[a]
             IN  /\ b.state = ac[a].state /\ b.realized = ac[a].realized /\ b.fee = ac[a].fee
                 /\ ac[a].state = "live" => b.balance + 0 = ac[a].balance + aw[a]
  <2>1. ac[a] \in Account /\ ac[a].balance \in Int /\ aw[a] \in Int BY DEF Account
  <2>2. CASE a = c /\ ac[c].state = "live"
    BY <2>1, <2>2 DEF Credit, Account
  <2>3. CASE ~ (a = c /\ ac[c].state = "live")
    <3>1. Credit(ac, c, d)[a] = ac[a] BY <2>3 DEF Credit
    <3> QED BY <2>1, <2>3, <3>1
  <2> QED BY <2>2, <2>3
<1>2. ASSUME NEW a \in Accounts \ {DefaultAccount}, Credit(ac, c, d)[a].state = "live"
      PROVE  /\ Credit(ac, c, d)[a].balance + 0
                    = InitialBalance + Sum(fl, OrdersIn(ords, lst, a), CashOf) + ReleasedIn(ords, lst, a)
             /\ Credit(ac, c, d)[a].realized = Sum(fl, OrdersIn(ords, lst, a), PnlOf)
             /\ Credit(ac, c, d)[a].fee = Sum(fl, OrdersIn(ords, lst, a), FeeOn)
  BY <1>1, <1>2 DEF Explained
<1>3. Explained(Credit(ac, c, d), ords, lst, fl, [a \in Accounts |-> 0])
  BY <1>2 DEF Explained
<1> QED BY <1>1, <1>3 DEF Netted

LEMMA BookBalanceBooks ==
    ASSUME CallInv, CallbackOutcomes = {"return"}, NEW t \in Tasks, BookBalance(t)
    PROVE  Solo' /\ BooksAgree'
<1> DEFINE c == tasks[t].acct
           d == tasks[t].delta
<1>1. /\ CanRun(t) /\ tasks[t].pc = "booking" /\ Await(t) /\ UNCHANGED <<positions, orders, listed, fills>>
      /\ accounts' = Credit(accounts, c, d)
      /\ tasks' = [tasks EXCEPT ![t].pc = "booked", ![t].acct = DefaultAccount, ![t].delta = 0]
  BY DEF BookBalance
<1>2. /\ tasks \in [Tasks -> Task] /\ accounts \in [Accounts -> Account] /\ d \in Int
  BY DEF CallInv, IInv, TypeOK, Task
<1>3. /\ \A u \in Tasks \ {t} : tasks'[u] = tasks[u]
      /\ tasks'[t].pc = "booked" /\ tasks'[t].todo = tasks[t].todo
      /\ tasks'[t].op = tasks[t].op /\ tasks'[t].price = tasks[t].price
  BY <1>1, <1>2 DEF Task
<1>4. Solo' /\ Running' = tasks'[t] /\ Running = tasks[t]
  BY <1>1, <1>3, AwaitRuns, Runs DEF CallInv, IInv
<1>5. /\ ShapeOf(tasks[t], accounts, orders, listed) /\ SettlesOf(tasks[t], orders, listed)
      /\ EmptyOf(accounts, positions, orders, listed)
      /\ Explained(accounts, orders, listed, fills, DueOf(tasks[t], orders))
      /\ Netted(accounts, positions, orders, listed, fills)
  BY <1>4 DEF CallInv, BooksAgree, Books
<1>6. \A a \in Accounts : DueOf(tasks[t], orders)[a] = IF a = c THEN d ELSE 0
  BY <1>1 DEF DueOf
<1>7. DueOf(tasks'[t], orders) = [a \in Accounts |-> 0]
  BY <1>3, NothingDue
<1> HIDE DEF c, d
<1>8. /\ Explained(accounts', orders, listed, fills, [a \in Accounts |-> 0])
      /\ Netted(accounts', positions, orders, listed, fills)
      /\ \A a \in Accounts : accounts'[a].state = accounts[a].state
  BY <1>1, <1>2, <1>5, <1>6, CreditExplained
<1>9. ShapeOf(tasks'[t], accounts', orders, listed) /\ SettlesOf(tasks'[t], orders, listed)
  BY <1>1, <1>3, <1>5 DEF ShapeOf, SettlesOf
<1>10. EmptyOf(accounts', positions, orders, listed)
  BY <1>5, <1>8, ConstantsAssumption DEF EmptyOf
<1> QED BY <1>1, <1>4, <1>7, <1>8, <1>9, <1>10 DEF BooksAgree, Books

LEMMA ReleaseBooks ==
    ASSUME CallInv, NEW t \in Tasks, ReleaseMargin(t)
    PROVE  Solo' /\ BooksAgree'
<1> DEFINE o == tasks[t].order
           c == orders[o].req.acct
           d == MarginOf(orders[o].req)
<1>1. CanRun(t) /\ tasks[t].pc = "cancelled" /\ End(t) /\ UNCHANGED <<positions, orders, listed, fills>>
  BY DEF ReleaseMargin
<1>2. /\ \A u \in Tasks \ {t} : tasks'[u] = tasks[u]
      /\ tasks'[t] = IdleTask /\ loop' = NoTask
  BY <1>1, EndRuns DEF CallInv, IInv
<1>3. Solo' /\ Running' = IdleTask /\ Running = tasks[t]
  BY <1>1, <1>2, Runs DEF CallInv, IInv
<1>4. /\ EmptyOf(accounts, positions, orders, listed)
      /\ Explained(accounts, orders, listed, fills, DueOf(tasks[t], orders))
      /\ Netted(accounts, positions, orders, listed, fills)
  BY <1>3 DEF CallInv, BooksAgree, Books
<1>5. o \in listed /\ orders[o].status = "cancelled"
  BY <1>1, Knows DEF ShapeOf
<1>6. o \in OrderIds /\ orders[o].filled = 0 /\ orders[o].req \in Request /\ accounts \in [Accounts -> Account]
  BY <1>5 DEF CallInv, IInv, TypeOK, OrderShape
<1>7. d \in Int /\ (orders[o].req.qty - orders[o].filled) \div orders[o].req.lev = d
  <2>1. orders[o].req.qty - orders[o].filled = orders[o].req.qty
    BY <1>6 DEF Request
  <2> QED BY <1>6, <2>1, MarginNat DEF MarginOf
<1>8. accounts' = Credit(accounts, c, d)
  BY <1>5, <1>7 DEF ReleaseMargin
<1>9. \A a \in Accounts : DueOf(tasks[t], orders)[a] = IF a = c THEN d ELSE 0
  BY <1>1 DEF DueOf
<1>10. DueOf(IdleTask, orders) = [a \in Accounts |-> 0]
  BY NothingDue, IdleKnowsNothing
<1> HIDE DEF c, d, o
<1>11. /\ Explained(accounts', orders, listed, fills, [a \in Accounts |-> 0])
       /\ Netted(accounts', positions, orders, listed, fills)
       /\ \A a \in Accounts : accounts'[a].state = accounts[a].state
  BY ZenonT(30), <1>4, <1>6, <1>7, <1>8, <1>9, CreditExplained
<1>12. EmptyOf(accounts', positions, orders, listed)
  BY <1>4, <1>11, ConstantsAssumption DEF EmptyOf
<1> QED BY <1>1, <1>3, <1>10, <1>11, <1>12, IdleKnowsNothing DEF BooksAgree, Books

\* What _try_fill_order does before its first await.
LEMMA FillFacts ==
    ASSUME TypeOK, OrderShape, NEW t \in Tasks, NEW o \in OrderIds,
           NEW ts \in [Tasks -> Task], IsOpen(o), ApplyFill(ts, t, o)
    PROVE  \E f \in Fill :
              /\ f.order = o /\ f.acct = AccountOf(o) /\ f.qty = orders[o].req.qty
              /\ RecordFill(f) /\ accounts' = AddTotals(accounts, f)
              /\ tasks' = [ts EXCEPT ![t].pc = "booking", ![t].acct = f.acct, ![t].delta = BookedDelta(f)]
              /\ Await(t) /\ listed' = listed
<1> DEFINE r == orders[o].req
           a == AccountOf(o)
           fee == FeeOf(r, r.qty - orders[o].filled)
<1>1. PICK pnl \in PossiblePnls(o, a) :
          /\ RecordFill(NewFill(o, a, fee, pnl))
          /\ accounts' = AddTotals(accounts, NewFill(o, a, fee, pnl))
          /\ tasks' = [ts EXCEPT ![t].pc = "booking", ![t].acct = a,
                                 ![t].delta = BookedDelta(NewFill(o, a, fee, pnl))]
          /\ Await(t)
          /\ UNCHANGED <<listed, lock>>
  BY DEF ApplyFill
<1> DEFINE f == NewFill(o, a, fee, pnl)
<1>2. r \in Request /\ orders[o].filled = 0 /\ orders[o].status \notin {"none", "filled"}
  BY DEF OrderShape, IsOpen
<1>3. a \in Accounts
  BY <1>2, AccountOfType
<1>4. fee \in Int
  <2>1. r.qty - orders[o].filled \in Nat BY <1>2 DEF Request
  <2> QED BY <1>2, <2>1, FeeType
<1> HIDE DEF fee
<1>6. f \in Fill /\ f.order = o /\ f.acct = a /\ f.qty = orders[o].req.qty
  <2> HIDE DEF a
  <2> QED BY <1>2, <1>3, <1>4, NewFillType
<1>7. /\ RecordFill(f) /\ accounts' = AddTotals(accounts, f) /\ listed' = listed /\ Await(t)
      /\ tasks' = [ts EXCEPT ![t].pc = "booking", ![t].acct = a, ![t].delta = BookedDelta(f)]
  BY <1>1
<1> HIDE DEF f
<1> QED BY <1>6, <1>7

\* The fill of a listed order that was accepted, by call k, which goes on as m.
LEMMA FilledBooks ==
    ASSUME IInv, NEW f \in Fill, f.order \in listed, orders[f.order].status = "accepted",
           f.acct = AccountOf(f.order), f.qty = orders[f.order].req.qty,
           RecordFill(f), accounts' = AddTotals(accounts, f), listed' = listed,
           NEW k, k.pc \notin {"booking", "cancelled"},
           NEW m, m.pc = "booking", m.acct = f.acct, m.delta = BookedDelta(f),
           m.todo \subseteq listed,
           m.op = "tick" => /\ m.price = k.price /\ k.op = "tick" /\ k.pc \in {"scan", "booked"}
                            /\ k.todo \subseteq m.todo \cup {f.order},
           Books(k, accounts, positions, orders, listed, fills)
    PROVE  Books(m, accounts', positions', orders', listed', fills')
<1> DEFINE o == f.order
           r == orders[o].req
           zero == [a \in Accounts |-> 0]
<1>1. /\ accounts \in [Accounts -> Account] /\ orders \in [OrderIds -> Order] /\ listed \subseteq OrderIds
      /\ positions \in [Accounts -> [PosSide -> Position]] /\ fills \in Seq(Fill) /\ OrderShape
  BY DEF IInv, TypeOK
<1>2. /\ fills' = Append(fills, f)
      /\ orders' = [orders EXCEPT ![o].status = "filled", ![o].filled = r.qty]
      /\ positions' = [positions EXCEPT ![f.acct][r.posSide] = PositionAfter(@, r, f.qty)]
  BY DEF RecordFill
<1>3. /\ o \in OrderIds /\ orders'[o].status = "filled" /\ orders'[o].req = r
      /\ \A u \in OrderIds \ {o} : orders'[u] = orders[u]
      /\ \A u \in OrderIds : orders'[u].req = orders[u].req
  BY <1>1, <1>2 DEF Order
<1>4. FillsOrder(f, orders, orders', listed)
  <2>1. \A u \in listed : orders[u].req \in Request
    BY <1>1 DEF OrderShape
  <2> QED BY <1>1, <1>3, <2>1 DEF FillsOrder
<1>5. ChargesOwner(f, accounts, r)
  BY DEF ChargesOwner, AccountOf, Live
<1>6. AddsTotals(f, accounts, accounts') /\ \A a \in Accounts : accounts'[a].state = accounts[a].state
  <2>1. ASSUME NEW a \in Accounts
        PROVE  LET b == AddTotals(accounts, f)[a]
               IN  /\ b.state = accounts[a].state /\ b.balance = accounts[a].balance
                   /\ accounts[a].state = "live" =>
                        /\ b.realized = IF a = f.acct THEN accounts[a].realized + f.pnl ELSE accounts[a].realized
                        /\ b.fee = IF a = f.acct THEN accounts[a].fee + f.fee ELSE accounts[a].fee
    <3>1. accounts[a] \in Account BY <1>1
    <3> QED BY <1>1, <3>1 DEF AddTotals, Account
  <2> QED BY <2>1 DEF AddsTotals
<1>7. OwesFill(f, zero, DueOf(m, orders'))
  <2>1. BookedDelta(f) \in Int BY FillFields
  <2>2. \A a \in Accounts : DueOf(m, orders')[a] = IF a = f.acct THEN BookedDelta(f) ELSE 0
    BY DEF DueOf
  <2> QED BY <2>1, <2>2 DEF OwesFill
<1>8. MovesPosition(f, r, positions, positions')
  BY <1>1, <1>2 DEF MovesPosition
<1>9. /\ Explained(accounts, orders, listed, fills, zero)
      /\ Netted(accounts, positions, orders, listed, fills)
      /\ EmptyOf(accounts, positions, orders, listed) /\ SettlesOf(k, orders, listed)
  BY NothingDue DEF Books
<1>10. zero \in [Accounts -> Int] OBVIOUS
<1> HIDE DEF zero
<1>11. Explained(accounts', orders', listed, Append(fills, f), DueOf(m, orders'))
  BY <1>1, <1>4, <1>5, <1>6, <1>7, <1>9, <1>10, FilledExplained
<1>12. Netted(accounts', positions', orders', listed, Append(fills, f))
  BY <1>1, <1>4, <1>5, <1>6, <1>8, <1>9, FilledNetted
<1>13. ShapeOf(m, accounts', orders', listed)
  BY DEF ShapeOf
<1>14. SettlesOf(m, orders', listed)
  <2> SUFFICES ASSUME m.op = "tick", NEW u \in listed \ m.todo PROVE ~ FillableAs(orders'[u], m.price)
    BY DEF SettlesOf
  <2>1. CASE u = o
    BY <1>3, <2>1 DEF FillableAs
  <2>2. CASE u # o
    <3>1. u \in listed \ k.todo /\ orders'[u] = orders[u] BY <1>1, <1>3, <2>2
    <3> QED BY <1>9, <3>1 DEF SettlesOf
  <2> QED BY <2>1, <2>2
<1>15. EmptyOf(accounts', positions', orders', listed)
  <2>1. accounts[f.acct].state # "absent"
    BY <1>9 DEF EmptyOf, AccountOf, Live
  <2>2. \A a \in Accounts, p \in PosSide : a # f.acct => positions'[a][p] = positions[a][p]
    BY <1>8 DEF MovesPosition
  <2>3. \A a \in Accounts : OrdersIn(orders', listed, a) = OrdersIn(orders, listed, a)
    BY <1>1, <1>4, FilledOrders
  <2> QED BY <1>6, <1>9, <2>1, <2>2, <2>3, ConstantsAssumption DEF EmptyOf
<1> QED BY <1>2, <1>11, <1>12, <1>13, <1>14, <1>15 DEF Books

LEMMA FillBooks ==
    ASSUME CallInv, CallbackOutcomes = {"return"}, NEW t \in Tasks, FillMarketOrder(t) \/ FillRestingOrder(t)
    PROVE  Solo' /\ BooksAgree'
<1>1. CanRun(t)
  BY DEF FillMarketOrder, FillRestingOrder, Scanning
<1>2. /\ Running = tasks[t] /\ tasks \in [Tasks -> Task] /\ TypeOK /\ OrderShape /\ listed \subseteq OrderIds
      /\ ShapeOf(tasks[t], accounts, orders, listed)
      /\ Books(tasks[t], accounts, positions, orders, listed, fills)
  BY <1>1, Knows DEF CallInv, IInv, BooksAgree, TypeOK
<1>3. \E o \in OrderIds, ts \in [Tasks -> Task] :
          /\ o \in listed /\ IsOpen(o) /\ ApplyFill(ts, t, o)
          /\ \A u \in Tasks \ {t} : ts[u] = tasks[u]
          /\ ts[t].op = tasks[t].op /\ ts[t].price = tasks[t].price /\ ts[t].todo \subseteq listed
          /\ tasks[t].pc \in {"created", "scan", "booked"}
          /\ tasks[t].op = "tick" => /\ tasks[t].pc \in {"scan", "booked"}
                                     /\ tasks[t].todo \subseteq ts[t].todo \cup {o}
  <2>1. CASE FillMarketOrder(t)
    <3> DEFINE o == tasks[t].order
    <3>1. o \in listed /\ IsOpen(o) /\ ApplyFill(tasks, t, o) /\ tasks[t].pc = "created"
      BY <2>1 DEF FillMarketOrder, Fillable
    <3>2. tasks[t].op = "place" BY <3>1 DEF CallInv, IInv, TaskShape
    <3>3. o \in OrderIds /\ tasks[t].todo \subseteq listed BY <1>2, <3>1 DEF ShapeOf
    <3> HIDE DEF o
    <3> QED BY <1>2, <3>1, <3>2, <3>3
  <2>2. CASE FillRestingOrder(t)
    <3>1. PICK o \in OrderIds :
              /\ Scanning(t) /\ o \in tasks[t].todo /\ o \in listed /\ IsOpen(o)
              /\ ApplyFill([tasks EXCEPT ![t].todo = @ \ {o}], t, o)
      BY <2>2 DEF FillRestingOrder, IsNextToScan, Fillable
    <3> DEFINE ts == [tasks EXCEPT ![t].todo = tasks[t].todo \ {o}]
    <3>2. tasks[t].todo \ {o} \in SUBSET OrderIds BY <1>2 DEF Task
    <3>3. ts \in [Tasks -> Task] BY <1>2, <3>2, TodoTask
    <3>4. /\ \A u \in Tasks \ {t} : ts[u] = tasks[u]
          /\ ts[t].op = tasks[t].op /\ ts[t].price = tasks[t].price /\ ts[t].todo = tasks[t].todo \ {o}
      BY <1>2 DEF Task
    <3>5. ApplyFill(ts, t, o) BY <1>2, <3>1
    <3>6. tasks[t].todo \subseteq listed /\ tasks[t].pc \in {"scan", "booked"}
      BY <1>2, <3>1 DEF ShapeOf, Scanning
    <3> HIDE DEF ts
    <3> QED BY <3>1, <3>3, <3>4, <3>5, <3>6
  <2> QED BY <2>1, <2>2
<1>4. PICK o \in OrderIds, ts \in [Tasks -> Task] :
          /\ o \in listed /\ IsOpen(o) /\ ApplyFill(ts, t, o)
          /\ \A u \in Tasks \ {t} : ts[u] = tasks[u]
          /\ ts[t].op = tasks[t].op /\ ts[t].price = tasks[t].price /\ ts[t].todo \subseteq listed
          /\ tasks[t].pc \in {"created", "scan", "booked"}
          /\ tasks[t].op = "tick" => /\ tasks[t].pc \in {"scan", "booked"}
                                     /\ tasks[t].todo \subseteq ts[t].todo \cup {o}
  BY <1>3
<1>5. PICK f \in Fill :
          /\ f.order = o /\ f.acct = AccountOf(o) /\ f.qty = orders[o].req.qty
          /\ RecordFill(f) /\ accounts' = AddTotals(accounts, f)
          /\ tasks' = [ts EXCEPT ![t].pc = "booking", ![t].acct = f.acct, ![t].delta = BookedDelta(f)]
          /\ Await(t) /\ listed' = listed
  BY ZenonT(30), <1>2, <1>4, FillFacts
<1>6. /\ \A u \in Tasks \ {t} : tasks'[u] = tasks[u]
      /\ tasks'[t].pc = "booking" /\ tasks'[t].acct = f.acct /\ tasks'[t].delta = BookedDelta(f)
      /\ tasks'[t].op = tasks[t].op /\ tasks'[t].price = tasks[t].price /\ tasks'[t].todo = ts[t].todo
  BY <1>4, <1>5 DEF Task
<1>7. Solo' /\ Running' = tasks'[t]
  BY <1>1, <1>2, <1>5, <1>6, AwaitRuns, Runs DEF CallInv
<1>8. orders[o].status = "accepted" BY <1>4 DEF IsOpen
<1>9. IInv BY DEF CallInv
<1>10. /\ tasks'[t].todo \subseteq listed /\ tasks[t].pc \notin {"booking", "cancelled"}
       /\ tasks'[t].op = "tick" => /\ tasks'[t].price = tasks[t].price /\ tasks[t].op = "tick"
                                   /\ tasks[t].pc \in {"scan", "booked"}
                                   /\ tasks[t].todo \subseteq tasks'[t].todo \cup {f.order}
  BY <1>4, <1>5, <1>6
<1>11. Books(tasks'[t], accounts', positions', orders', listed', fills')
  BY <1>2, <1>4, <1>5, <1>6, <1>8, <1>9, <1>10, FilledBooks
<1> QED BY <1>7, <1>11 DEF BooksAgree

LEMMA CancelBooks ==
    ASSUME CallInv, CallbackOutcomes = {"return"}, NEW t \in Tasks, Cancel(t)
    PROVE  Solo' /\ BooksAgree'
<1> DEFINE zero == [a \in Accounts |-> 0]
<1>1. PICK o \in OrderIds : CancelOrder(t, o)
  BY DEF Cancel
<1>2. /\ CanRun(t) /\ tasks[t] = IdleTask /\ loop = NoTask /\ tasks \in [Tasks -> Task]
      /\ tasks[t].pc = "idle" /\ tasks[t].todo = {} /\ Running = IdleTask
  BY <1>1, Starts, IdleKnowsNothing DEF CancelOrder, CallInv, IInv, TypeOK
<1>3. /\ o \in listed /\ orders[o].status = "accepted" /\ UNCHANGED <<accounts, positions, listed, fills>>
      /\ orders' = [orders EXCEPT ![o].status = "cancelled"]
      /\ tasks' = [tasks EXCEPT ![t].pc = "cancelled", ![t].op = "cancel", ![t].order = o]
      /\ Await(t)
  BY <1>1 DEF CancelOrder, IsOpen
<1>4. /\ \A u \in Tasks \ {t} : tasks'[u] = tasks[u]
      /\ tasks'[t].pc = "cancelled" /\ tasks'[t].op = "cancel" /\ tasks'[t].order = o
      /\ tasks'[t].todo = tasks[t].todo
  BY <1>2, <1>3 DEF Task
<1>5. Solo' /\ Running' = tasks'[t]
  BY <1>2, <1>3, <1>4, AwaitRuns, Runs DEF CallInv, IInv
<1>6. /\ accounts \in [Accounts -> Account] /\ orders \in [OrderIds -> Order] /\ listed \subseteq OrderIds
      /\ fills \in Seq(Fill) /\ \A u \in listed : orders[u].req \in Request
  BY DEF CallInv, IInv, TypeOK, OrderShape
<1>7. /\ orders'[o].status = "cancelled" /\ orders'[o].req = orders[o].req
      /\ \A u \in OrderIds \ {o} : orders'[u] = orders[u]
      /\ \A u \in OrderIds : orders'[u].req = orders[u].req
  BY <1>3, <1>6 DEF Order
<1>8. /\ Explained(accounts, orders, listed, fills, zero)
      /\ Netted(accounts, positions, orders, listed, fills)
      /\ EmptyOf(accounts, positions, orders, listed)
  BY <1>2, NothingDue DEF CallInv, BooksAgree, Books
<1>9. /\ \A a \in Accounts : accounts[a].balance \in Int /\ zero[a] \in Int
      /\ \A a \in Accounts : DueOf(tasks'[t], orders')[a]
              = zero[a] + (IF a = orders[o].req.acct THEN MarginOf(orders[o].req) ELSE 0)
  <2>1. MarginOf(orders[o].req) \in Int BY <1>3, <1>6, MarginNat
  <2>2. \A a \in Accounts : DueOf(tasks'[t], orders')[a]
              = IF a = orders[o].req.acct THEN MarginOf(orders[o].req) ELSE 0
    BY <1>4, <1>7 DEF DueOf
  <2> QED BY <1>6, <2>1, <2>2 DEF Account
<1> HIDE DEF zero
<1>10. /\ Explained(accounts, orders', listed, fills, DueOf(tasks'[t], orders'))
       /\ Netted(accounts, positions, orders', listed, fills)
  <2>1. CancelsOrder(o, orders, orders', listed)
    BY <1>3, <1>6, <1>7 DEF CancelsOrder
  <2>2. OwesMargin(orders[o].req, accounts, zero, DueOf(tasks'[t], orders'))
    BY <1>9 DEF OwesMargin
  <2> QED BY <1>6, <1>8, <2>1, <2>2, CancelledExplained
<1>11. ShapeOf(tasks'[t], accounts, orders', listed) /\ SettlesOf(tasks'[t], orders', listed)
  BY <1>2, <1>3, <1>4, <1>7 DEF ShapeOf, SettlesOf
<1>12. EmptyOf(accounts, positions, orders', listed)
  <2>1. \A a : OrdersIn(orders', listed, a) = OrdersIn(orders, listed, a)
    BY <1>6, <1>7 DEF OrdersIn
  <2> QED BY <1>8, <2>1 DEF EmptyOf
<1> QED BY <1>3, <1>5, <1>10, <1>11, <1>12 DEF BooksAgree, Books

\* The account endpoints run while no call is under way.
LEMMA AccountBooks ==
    ASSUME CallInv, NEW a \in Accounts, CreateAccount(a) \/ ResetAccount(a) \/ DeleteAccount(a)
    PROVE  Solo' /\ BooksAgree'
<1> DEFINE zero == DueOf(IdleTask, orders)
<1>1. loop = NoTask /\ UNCHANGED <<tasks, loop, orders, fills>>
  BY DEF CreateAccount, ResetAccount, DeleteAccount
<1>2. Running = IdleTask /\ Running' = IdleTask /\ Solo'
  BY <1>1 DEF CallInv, Solo, Running
<1>3. /\ accounts \in [Accounts -> Account] /\ listed \subseteq OrderIds /\ fills \in Seq(Fill)
      /\ positions \in [Accounts -> [PosSide -> Position]]
  BY DEF CallInv, IInv, TypeOK
<1>4. /\ Explained(accounts, orders, listed, fills, zero)
      /\ Netted(accounts, positions, orders, listed, fills)
      /\ EmptyOf(accounts, positions, orders, listed)
  BY <1>2 DEF CallInv, BooksAgree, Books
<1>5. zero[a] = 0
  BY IdleKnowsNothing DEF DueOf
<1> HIDE DEF zero
<1>6. /\ Explained(accounts', orders, listed', fills, zero)
      /\ Netted(accounts', positions', orders, listed', fills)
      /\ EmptyOf(accounts', positions', orders, listed')
  <2>1. CASE CreateAccount(a)
    <3>1. /\ accounts' = [accounts EXCEPT ![a] = FreshAccount] /\ accounts[a].state = "absent"
          /\ UNCHANGED <<listed, positions>>
      BY <2>1 DEF CreateAccount
    <3>2. /\ accounts'[a] = FreshAccount /\ \A c \in Accounts \ {a} : accounts'[c] = accounts[c]
          /\ OrdersIn(orders, listed, a) = {} /\ a # DefaultAccount
          /\ \A p \in PosSide : positions[a][p].qty = 0 /\ positions[a][p].side \in Side
      BY <1>3, <1>4, <3>1 DEF EmptyOf, Position
    <3>3. /\ Explained(accounts', orders, listed, fills, zero)
          /\ Netted(accounts', positions, orders, listed, fills)
      BY <1>3, <1>4, <1>5, <3>2, FreshExplained
    <3>4. EmptyOf(accounts', positions, orders, listed)
      BY <1>4, <3>2, ConstantsAssumption DEF EmptyOf, FreshAccount
    <3> QED BY <3>1, <3>3, <3>4
  <2>2. CASE ResetAccount(a)
    <3> DEFINE mst == listed \ OrdersOf(a)
    <3>1. /\ accounts' = [accounts EXCEPT ![a] = FreshAccount] /\ listed' = mst
          /\ positions' = [positions EXCEPT ![a] = [p \in PosSide |-> Flat]]
      BY <2>2 DEF ResetAccount
    <3>2. /\ accounts'[a] = FreshAccount /\ \A c \in Accounts \ {a} : accounts'[c] = accounts[c]
          /\ \A p \in PosSide : positions'[a][p].qty = 0 /\ positions'[a][p].side \in Side
          /\ \A c \in Accounts \ {a} : positions'[c] = positions[c]
      BY <1>3, <3>1 DEF Flat, Side
    <3>3. /\ mst \subseteq listed /\ OrdersIn(orders, mst, a) = {}
          /\ \A c \in Accounts \ {a} : OrdersIn(orders, mst, c) = OrdersIn(orders, listed, c)
      BY DEF OrdersIn, OrdersOf
    <3> HIDE DEF mst
    <3>4. /\ Explained(accounts', orders, mst, fills, zero)
          /\ Netted(accounts', positions', orders, mst, fills)
      BY <1>3, <1>4, <1>5, <3>2, <3>3, FreshExplained
    <3>5. EmptyOf(accounts', positions', orders, mst)
      <4>1. accounts'[a].state = "live" BY <3>2 DEF FreshAccount
      <4> QED BY <1>4, <3>2, <3>3, <4>1, ConstantsAssumption DEF EmptyOf
    <3> QED BY <3>1, <3>4, <3>5
  <2>3. CASE DeleteAccount(a)
    <3>1. /\ accounts'[a].state = "deleted" /\ \A c \in Accounts \ {a} : accounts'[c] = accounts[c]
          /\ UNCHANGED <<listed, positions>>
      BY <1>3, <2>3 DEF DeleteAccount, Account
    <3>2. /\ Explained(accounts', orders, listed, fills, zero)
          /\ Netted(accounts', positions, orders, listed, fills)
      BY <1>4, <3>1 DEF Explained, Netted
    <3>3. EmptyOf(accounts', positions, orders, listed)
      BY <1>4, <3>1, ConstantsAssumption DEF EmptyOf
    <3> QED BY <3>1, <3>2, <3>3
  <2> QED BY <2>1, <2>2, <2>3
<1>7. ShapeOf(IdleTask, accounts', orders, listed') /\ SettlesOf(IdleTask, orders, listed')
  BY IdleKnowsNothing
<1> QED BY <1>1, <1>2, <1>6, <1>7 DEF BooksAgree, Books, zero

LEMMA InitBooks == Init => Solo /\ BooksAgree
<1> SUFFICES ASSUME Init PROVE Solo /\ BooksAgree
  OBVIOUS
<1>1. Solo /\ Running = IdleTask
  BY DEF Init, Solo, Running
<1>2. /\ listed = {} /\ fills = <<>> /\ fills \in Seq(Fill)
      /\ \A a \in Accounts : accounts[a] = IF a = DefaultAccount THEN FreshAccount ELSE AbsentAccount
      /\ \A a \in Accounts, p \in PosSide : positions[a][p].qty = 0
  BY DEF Init, Flat
<1>3. \A a \in Accounts \ {DefaultAccount} : accounts[a].state = "absent"
  BY <1>2 DEF AbsentAccount, FreshAccount
<1>4. EmptyOf(accounts, positions, orders, listed)
  BY <1>2, ConstantsAssumption DEF EmptyOf, OrdersIn, FreshAccount
<1>5. /\ Explained(accounts, orders, listed, fills, DueOf(IdleTask, orders))
      /\ Netted(accounts, positions, orders, listed, fills)
  BY <1>3 DEF Explained, Netted
<1> QED BY <1>1, <1>4, <1>5, IdleKnowsNothing DEF BooksAgree, Books

LEMMA NextBooks ==
    ASSUME CallInv, CallbackOutcomes = {"return"}, [Next]_vars
    PROVE  Solo' /\ BooksAgree'
<1>1. CASE UNCHANGED vars
  <2>1. /\ Running' = Running /\ Solo'
        /\ UNCHANGED <<accounts, positions, orders, listed, fills>>
    BY <1>1 DEF vars, CallInv, Solo, Running
  <2> QED BY <2>1 DEF CallInv, BooksAgree
<1>2. ASSUME NEW t \in Tasks, PlaceOrder(t) \/ ClosePosition(t) \/ PriceTick(t) \/ Cancel(t)
      PROVE  Solo' /\ BooksAgree'
  BY <1>2, PlaceBooks, TickBooks, CancelBooks
<1>3. ASSUME NEW t \in Tasks, Resume(t)
      PROVE  Solo' /\ BooksAgree'
  <2>1. CASE RejectOrder(t) \/ RestOrder(t) \/ LeaveMarketOrder(t) \/ ReturnFromPlace(t) \/ FinishTick(t)
    BY <2>1, ReturnsBooks
  <2>2. CASE CreateOrder(t) BY <2>2, CreateBooks
  <2>3. CASE FillMarketOrder(t) \/ FillRestingOrder(t) BY <2>3, FillBooks
  <2>4. CASE MarketOrderAlreadyFilled(t) \/ ForceFillMarketOrder(t) \/ LoseTick(t) \/ CallbackRaises(t)
    BY <2>4, NeverHappens
  <2>5. CASE BookBalance(t) BY <2>5, BookBalanceBooks
  <2>6. CASE SnapshotOpenOrders(t) \/ SkipOrder(t) BY <2>6, ScanBooks
  <2>7. CASE ReleaseMargin(t) BY <2>7, ReleaseBooks
  <2> QED BY <1>3, <2>1, <2>2, <2>3, <2>4, <2>5, <2>6, <2>7 DEF Resume
<1>4. ASSUME NEW a \in Accounts, CreateAccount(a) \/ ResetAccount(a) \/ DeleteAccount(a)
      PROVE  Solo' /\ BooksAgree'
  BY <1>4, AccountBooks
<1> QED BY <1>1, <1>2, <1>3, <1>4 DEF Next

LEMMA CallStep == CallInv /\ CallbackOutcomes = {"return"} /\ [Next]_vars => CallInv'
<1>1. ASSUME CallInv, CallbackOutcomes = {"return"}, [Next]_vars PROVE CallInv'
  <2>1. IInv'
    BY <1>1, TypeStep, OrderStep, TaskStep DEF CallInv, IInv
  <2> QED BY <1>1, <2>1, NextBooks DEF CallInv
<1> QED BY <1>1

LEMMA CallsInductive == ASSUME CallbackOutcomes = {"return"} PROVE Spec => []CallInv
<1>1. Init => CallInv
  BY InitIInv, InitBooks DEF CallInv
<1>2. CallInv /\ [Next]_vars => CallInv'
  BY CallStep
<1> QED BY <1>1, <1>2, PTL DEF Spec

\* What the model's statement and positions are.
LEMMA StatementIs ==
    ASSUME CallInv, NEW a \in Accounts
    PROVE  /\ NetCash(a) = Sum(fills, OrdersIn(orders, listed, a), CashOf)
           /\ Released(a) = ReleasedIn(orders, listed, a)
           /\ Total([i \in StatementOf(a) |-> fills[i].pnl], StatementOf(a))
                 = Sum(fills, OrdersIn(orders, listed, a), PnlOf)
           /\ Total([i \in StatementOf(a) |-> fills[i].fee], StatementOf(a))
                 = Sum(fills, OrdersIn(orders, listed, a), FeeOn)
<1>1. OrdersOf(a) = OrdersIn(orders, listed, a)
  BY DEF OrdersOf, OrdersIn
<1>2. StatementOf(a) = History(fills, OrdersIn(orders, listed, a))
  BY <1>1 DEF StatementOf, History
<1>3. \A i \in StatementOf(a) : fills[i] \in Fill
  BY <1>2, HistoryFinite DEF CallInv, IInv, TypeOK
<1>4. \A i \in StatementOf(a) :
          /\ CashOf[fills[i]] = (IF fills[i].reduce THEN 1 ELSE -1) * (fills[i].qty \div fills[i].lev)
                                    + fills[i].pnl - fills[i].fee
          /\ PnlOf[fills[i]] = fills[i].pnl /\ FeeOn[fills[i]] = fills[i].fee
  BY <1>3 DEF CashOf, PnlOf, FeeOn
<1>5. /\ [i \in StatementOf(a) |-> (IF fills[i].reduce THEN 1 ELSE -1) * (fills[i].qty \div fills[i].lev)
                                        + fills[i].pnl - fills[i].fee]
            = [i \in StatementOf(a) |-> CashOf[fills[i]]]
      /\ [i \in StatementOf(a) |-> fills[i].pnl] = [i \in StatementOf(a) |-> PnlOf[fills[i]]]
      /\ [i \in StatementOf(a) |-> fills[i].fee] = [i \in StatementOf(a) |-> FeeOn[fills[i]]]
  BY <1>4
<1>6. CancelledOf(a) = CancelledIn(orders, listed, a)
  BY <1>1 DEF CancelledOf, CancelledIn
<1>7. Released(a) = ReleasedIn(orders, listed, a)
  BY <1>6 DEF Released, ReleasedIn, MarginOf
<1> QED BY <1>2, <1>5, <1>7 DEF NetCash, Sum

LEMMA Reconciles == CallInv => StatementReconciles
<1> SUFFICES ASSUME CallInv, loop = NoTask, NEW a \in Accounts \ {DefaultAccount}, Live(a)
             PROVE  /\ accounts[a].balance = InitialBalance + NetCash(a) + Released(a)
                    /\ accounts[a].realized = Total([i \in StatementOf(a) |-> fills[i].pnl], StatementOf(a))
                    /\ accounts[a].fee = Total([i \in StatementOf(a) |-> fills[i].fee], StatementOf(a))
  BY DEF StatementReconciles
<1>1. Explained(accounts, orders, listed, fills, [c \in Accounts |-> 0])
  <2>1. Running = IdleTask BY DEF Running
  <2> QED BY <2>1, NothingDue, IdleKnowsNothing DEF CallInv, BooksAgree, Books
<1>2. accounts[a].balance \in Int BY DEF CallInv, IInv, TypeOK, Account
<1>3. /\ accounts[a].balance + 0 = InitialBalance + Sum(fills, OrdersIn(orders, listed, a), CashOf)
                                      + ReleasedIn(orders, listed, a)
      /\ accounts[a].realized = Sum(fills, OrdersIn(orders, listed, a), PnlOf)
      /\ accounts[a].fee = Sum(fills, OrdersIn(orders, listed, a), FeeOn)
  BY <1>1 DEF Explained, Live
<1> QED BY <1>2, <1>3, StatementIs

LEMMA Nets == CallInv => PositionNetsFills
<1> SUFFICES ASSUME CallInv, NEW a \in Accounts \ {DefaultAccount}, NEW p \in PosSide, Live(a)
             PROVE  LET onKey == {i \in StatementOf(a) : orders[fills[i].order].req.posSide = p}
                    IN  Signed(positions[a][p].side, positions[a][p].qty)
                          = Total([i \in onKey |-> Signed(orders[fills[i].order].req.side, fills[i].qty)], onKey)
  BY DEF PositionNetsFills
<1> DEFINE onKey == {i \in StatementOf(a) : orders[fills[i].order].req.posSide = p}
<1>1. onKey = History(fills, OrdersOn(orders, listed, a, p))
  BY DEF StatementOf, OrdersOf, History, OrdersOn, OrdersIn
<1>2. \A i \in onKey : fills[i] \in Fill
  <2> HIDE DEF onKey
  <2> QED BY <1>1, HistoryFinite DEF CallInv, IInv, TypeOK
<1> HIDE DEF onKey
<1>3. [i \in onKey |-> Signed(orders[fills[i].order].req.side, fills[i].qty)]
        = [i \in onKey |-> NetOf(orders)[fills[i]]]
  BY <1>2 DEF NetOf
<1>4. Signed(positions[a][p].side, positions[a][p].qty) = Sum(fills, OrdersOn(orders, listed, a, p), NetOf(orders))
  BY DEF CallInv, BooksAgree, Books, Netted, Live
<1> QED BY <1>1, <1>3, <1>4 DEF Sum, onKey

\* As main.py wires the engine, its callbacks return at once.  Then, between two
\* calls, what get_fills shows of an account and what the cancel endpoint
\* released explain its balance, its realised P&L and its fees, whatever is
\* placed, ticked, cancelled, reset, deleted and created before.
THEOREM StatementsReconcile == ASSUME CallbackOutcomes = {"return"} PROVE Spec => []StatementReconciles
BY CallsInductive, Reconciles, PTL

\* With callbacks that return, a position is at every moment the net of the
\* fills listed for it, through any opening, adding, reducing and flipping.
THEOREM PositionsNetFills == ASSUME CallbackOutcomes = {"return"} PROVE Spec => []PositionNetsFills
BY CallsInductive, Nets, PTL

-------------------------------------------------------------------------------
(* What a tick has settled when it ends *)

SettledBy(t) ==
    tasks[t].op = "tick" /\ tasks'[t].op = "none" => \A o \in listed : ~ Fillable(o, tasks[t].price)

LEMMA TickEnds ==
    ASSUME CallInv, CallbackOutcomes = {"return"}, [Next]_vars, NEW t \in Tasks
    PROVE  SettledBy(t)
<1> SUFFICES ASSUME tasks[t].op = "tick", tasks'[t].op = "none"
             PROVE  \A o \in listed : ~ Fillable(o, tasks[t].price)
  BY DEF SettledBy
<1>1. loop = t /\ tasks \in [Tasks -> Task] /\ loop # NoTask
  <2>1. tasks[t] # IdleTask BY IdleKnowsNothing
  <2> QED BY <2>1, ConstantsAssumption DEF CallInv, Solo, IInv, TypeOK
<1>2. /\ tasks[t].pc \notin {"lock", "created", "cancelled"} /\ tasks' # tasks
  BY DEF CallInv, IInv, TaskShape
<1>3. ASSUME NEW u \in Tasks, PlaceOrder(u) \/ ClosePosition(u) \/ PriceTick(u) \/ Cancel(u)
      PROVE  FALSE
  BY <1>1, <1>3 DEF PlaceOrder, ClosePosition, SubmitRequest, PriceTick, Tick, Cancel, CancelOrder
<1>4. ASSUME NEW a \in Accounts, CreateAccount(a) \/ ResetAccount(a) \/ DeleteAccount(a)
      PROVE  FALSE
  BY <1>1, <1>4 DEF CreateAccount, ResetAccount, DeleteAccount
<1>5. ASSUME NEW u \in Tasks, Resume(u)
      PROVE  \A o \in listed : ~ Fillable(o, tasks[t].price)
  <2>1. CASE RejectOrder(u) \/ CreateOrder(u) \/ RestOrder(u) \/ LeaveMarketOrder(u) \/ FillMarketOrder(u)
    BY <1>1, <1>2, <2>1 DEF RejectOrder, CreateOrder, RestOrder, LeaveMarketOrder, FillMarketOrder, CanRun
  <2>2. CASE ReturnFromPlace(u) \/ ReleaseMargin(u)
    BY <1>1, <1>2, <2>2 DEF ReturnFromPlace, ReleaseMargin, CanRun
  <2>3. CASE MarketOrderAlreadyFilled(u) \/ ForceFillMarketOrder(u) \/ LoseTick(u) \/ CallbackRaises(u)
    BY <2>3, NeverHappens
  <2>4. CASE BookBalance(u) \/ SnapshotOpenOrders(u) \/ SkipOrder(u)
    BY <1>1, <2>4 DEF BookBalance, SnapshotOpenOrders, SkipOrder, Task
  <2>5. CASE FillRestingOrder(u)
    <3>1. PICK o \in OrderIds : ApplyFill([tasks EXCEPT ![u].todo = @ \ {o}], u, o)
      BY <2>5 DEF FillRestingOrder
    <3> DEFINE ts == [tasks EXCEPT ![u].todo = @ \ {o}]
    <3>2. \E a, d : tasks' = [ts EXCEPT ![u].pc = "booking", ![u].acct = a, ![u].delta = d]
      BY <3>1 DEF ApplyFill
    <3>3. tasks'[t].op = tasks[t].op
      BY <1>1, <3>2 DEF Task
    <3> QED BY <3>3
  <2>6. CASE FinishTick(u)
    <3>1. u = t /\ tasks[t].todo = {} /\ tasks[t].pc \in {"scan", "booked"}
      BY <1>1, <2>6 DEF FinishTick, Scanning, CanRun
    <3>2. SettlesOf(tasks[t], orders, listed)
      BY <1>1, Knows DEF CanRun
    <3>3. \A o \in listed : ~ FillableAs(orders[o], tasks[t].price)
      BY <3>1, <3>2 DEF SettlesOf
    <3> QED BY <3>3, FillableIs
  <2> QED BY <1>5, <2>1, <2>2, <2>3, <2>4, <2>5, <2>6 DEF Resume
<1>6. CASE UNCHANGED vars BY <1>2, <1>6 DEF vars
<1> QED BY <1>3, <1>4, <1>5, <1>6 DEF Next

\* With callbacks that return, the end of a price tick leaves no listed order
\* open whose price condition the tick met.
THEOREM TicksSettle == ASSUME CallbackOutcomes = {"return"} PROVE Spec => TickSettlesTriggeredOrders
<1>1. CallInv /\ [Next]_vars => [\A t \in Tasks : (tasks[t].op = "tick" /\ tasks'[t].op = "none") =>
                                     \A o \in listed : ~ Fillable(o, tasks[t].price)]_vars
  <2>1. ASSUME CallInv, [Next]_vars
        PROVE  \A t \in Tasks : (tasks[t].op = "tick" /\ tasks'[t].op = "none") =>
                   \A o \in listed : ~ Fillable(o, tasks[t].price)
    BY <2>1, TickEnds DEF SettledBy
  <2> QED BY <2>1
<1> QED BY <1>1, CallsInductive, PTL DEF Spec, TickSettlesTriggeredOrders

-------------------------------------------------------------------------------
(* The life of an order *)

\* A cancelled order stays cancelled: only _force_fill_market_order would fill it.
LEMMA CancelledStays ==
    ASSUME CallInv, CallbackOutcomes = {"return"}, [Next]_vars, NEW o \in OrderIds,
           orders[o].status = "cancelled"
    PROVE  orders'[o].status = "cancelled"
<1>0. orders \in [OrderIds -> Order] /\ TypeOK /\ OrderShape /\ TaskShape
  BY DEF CallInv, IInv, TypeOK
<1>1. ASSUME NEW t \in Tasks, PlaceOrder(t) \/ ClosePosition(t) \/ PriceTick(t)
      PROVE  orders' = orders
  BY <1>1 DEF PlaceOrder, ClosePosition, SubmitRequest, PriceTick, Tick
<1>2. ASSUME NEW t \in Tasks, Cancel(t) PROVE orders'[o].status = "cancelled"
  BY <1>0, <1>2 DEF Cancel, CancelOrder, Order
<1>3. ASSUME NEW t \in Tasks, Resume(t) PROVE orders'[o].status = "cancelled"
  <2>1. CASE \/ RejectOrder(t) \/ RestOrder(t) \/ LeaveMarketOrder(t)
             \/ BookBalance(t) \/ ReturnFromPlace(t)
             \/ SnapshotOpenOrders(t) \/ SkipOrder(t) \/ FinishTick(t) \/ ReleaseMargin(t)
    BY <2>1 DEF RejectOrder, RestOrder, LeaveMarketOrder, BookBalance, ReturnFromPlace, SnapshotOpenOrders,
                SkipOrder, FinishTick, ReleaseMargin
  <2>2. CASE MarketOrderAlreadyFilled(t) \/ ForceFillMarketOrder(t) \/ LoseTick(t) \/ CallbackRaises(t)
    BY <2>2, NeverHappens
  <2>3. CASE CreateOrder(t)
    BY <1>0, <2>3 DEF CreateOrder, IsNextId
  <2>4. CASE FillMarketOrder(t) \/ FillRestingOrder(t)
    <3>1. PICK u, ts : IsOpen(u) /\ ApplyFill(ts, t, u)
      BY <2>4 DEF FillMarketOrder, FillRestingOrder, Fillable
    <3>2. PICK f : f.order = u /\ RecordFill(f)
      BY <3>1 DEF ApplyFill, NewFill
    <3>3. u # o BY <3>1 DEF IsOpen
    <3> QED BY <1>0, <3>2, <3>3 DEF RecordFill
  <2> QED BY <1>3, <2>1, <2>2, <2>3, <2>4 DEF Resume
<1>4. ASSUME NEW a \in Accounts, CreateAccount(a) \/ ResetAccount(a) \/ DeleteAccount(a)
      PROVE  orders' = orders
  BY <1>4 DEF CreateAccount, ResetAccount, DeleteAccount
<1>5. CASE UNCHANGED vars BY <1>5 DEF vars
<1> QED BY <1>1, <1>2, <1>3, <1>4, <1>5 DEF Next

\* How far an order has come, and how often it was executed.
StageOf(ords) ==
    [o \in OrderIds |-> CASE ords[o].status = "none" -> "unplaced"
                          [] ords[o].status = "accepted" -> "open"
                          [] OTHER -> ords[o].status]
ExecutionsIn(fl) == [o \in OrderIds |-> Cardinality({i \in DOMAIN fl : fl[i].order = o})]

LEMMA LifecycleStarts == Init => Lifecycle!Init
<1> SUFFICES ASSUME Init PROVE Lifecycle!Init
  OBVIOUS
<1>1. \A o \in OrderIds : orders[o].status = "none" /\ FillsFor(o) = {}
  BY DEF Init, FillsFor
<1> QED BY <1>1, FS_EmptySet DEF Lifecycle!Init

LEMMA StageMoves ==
    ASSUME NEW ords \in [OrderIds -> Order], NEW rest \in [OrderIds -> Order], NEW o \in OrderIds,
           \A u \in OrderIds \ {o} : rest[u].status = ords[u].status
    PROVE  /\ StageOf(rest) = [StageOf(ords) EXCEPT ![o] = StageOf(rest)[o]]
           /\ ords[o].status = "none" => StageOf(ords)[o] = "unplaced"
           /\ ords[o].status = "accepted" => StageOf(ords)[o] = "open"
           /\ rest[o].status = "accepted" => StageOf(rest)[o] = "open"
           /\ rest[o].status = "filled" => StageOf(rest)[o] = "filled"
           /\ rest[o].status = "cancelled" => StageOf(rest)[o] = "cancelled"
<1>1. \A u \in OrderIds \ {o} : StageOf(rest)[u] = StageOf(ords)[u]
  BY DEF StageOf
<1>2. DOMAIN StageOf(rest) = OrderIds /\ DOMAIN StageOf(ords) = OrderIds
  BY DEF StageOf
<1>3. /\ StageOf(rest) = [u \in OrderIds |-> StageOf(rest)[u]]
      /\ [StageOf(ords) EXCEPT ![o] = StageOf(rest)[o]]
            = [u \in OrderIds |-> IF u = o THEN StageOf(rest)[o] ELSE StageOf(ords)[u]]
  BY <1>2 DEF StageOf
<1>4. StageOf(rest) = [StageOf(ords) EXCEPT ![o] = StageOf(rest)[o]]
  BY <1>1, <1>3
<1> QED BY <1>4 DEF StageOf

\* An execution counts one for its order.
LEMMA CountsOne ==
    ASSUME NEW fl \in Seq(Fill), NEW x \in Fill, \A i \in DOMAIN fl : fl[i].order # x.order
    PROVE  LET e == ExecutionsIn(fl)
               g == ExecutionsIn(Append(fl, x))
           IN  g = [e EXCEPT ![x.order] = @ + 1]
<1> DEFINE gl == Append(fl, x)
           k == Len(fl) + 1
           of(f, o) == {i \in DOMAIN f : f[i].order = o}
<1>1. /\ gl \in Seq(Fill) /\ Len(fl) \in Nat /\ DOMAIN fl = 1..Len(fl) /\ DOMAIN gl = 1..k
      /\ gl[k] = x /\ \A i \in 1..Len(fl) : gl[i] = fl[i]
  BY AppendProperties
<1>2. x.order \in OrderIds BY FillFields
<1> HIDE DEF gl
<1>3. of(fl, x.order) = {} /\ of(gl, x.order) = {k}
  BY <1>1
<1>4. \A o : o # x.order => of(gl, o) = of(fl, o)
  BY <1>1
<1>5. Cardinality(of(fl, x.order)) = 0 /\ Cardinality(of(gl, x.order)) = 1
  BY <1>3, FS_EmptySet, FS_Singleton
<1>6. /\ ExecutionsIn(fl) = [o \in OrderIds |-> Cardinality(of(fl, o))]
      /\ ExecutionsIn(gl) = [o \in OrderIds |-> Cardinality(of(gl, o))]
  BY DEF ExecutionsIn
<1> HIDE DEF of
<1>7. ExecutionsIn(gl) = [ExecutionsIn(fl) EXCEPT ![x.order] = @ + 1]
  BY <1>2, <1>4, <1>5, <1>6
<1> QED BY <1>7 DEF gl

Same == StageOf(orders') = StageOf(orders) /\ ExecutionsIn(fills') = ExecutionsIn(fills)
MovesTo(o, from, to, n) ==
    /\ StageOf(orders)[o] = from /\ StageOf(orders') = [StageOf(orders) EXCEPT ![o] = to]
    /\ ExecutionsIn(fills') = IF n = 0 THEN ExecutionsIn(fills) ELSE [ExecutionsIn(fills) EXCEPT ![o] = @ + 1]

LEMMA LifeMoves ==
    ASSUME CallInv, CallbackOutcomes = {"return"}, [Next]_vars
    PROVE  \/ Same
           \/ \E o \in OrderIds : \/ MovesTo(o, "unplaced", "open", 0)
                                  \/ MovesTo(o, "open", "filled", 1)
                                  \/ MovesTo(o, "open", "cancelled", 0)
<1>0. /\ orders \in [OrderIds -> Order] /\ fills \in Seq(Fill) /\ IInv
      /\ orders' \in [OrderIds -> Order]
  BY TypeStep DEF CallInv, IInv, TypeOK
<1>1. CASE Quiet
  BY <1>1 DEF Quiet, Same
<1>2. ASSUME NEW o \in OrderIds, Creates(o) PROVE MovesTo(o, "unplaced", "open", 0)
  <2>1. /\ orders[o].status = "none" /\ orders'[o].status = "accepted" /\ fills' = fills
        /\ \A u \in OrderIds \ {o} : orders'[u].status = orders[u].status
    BY <1>0, <1>2 DEF Creates
  <2> QED BY <1>0, <2>1, StageMoves DEF MovesTo
<1>3. ASSUME NEW o \in OrderIds, Cancels(o) PROVE MovesTo(o, "open", "cancelled", 0)
  <2>1. /\ orders[o].status = "accepted" /\ orders'[o].status = "cancelled" /\ fills' = fills
        /\ \A u \in OrderIds \ {o} : orders'[u].status = orders[u].status
    BY <1>0, <1>3 DEF Cancels, Order
  <2> QED BY <1>0, <2>1, StageMoves DEF MovesTo
<1>4. ASSUME NEW f \in Fill, Executes(f) PROVE f.order \in OrderIds /\ MovesTo(f.order, "open", "filled", 1)
  <2> DEFINE o == f.order
  <2>1. o \in OrderIds BY FillFields
  <2>2. /\ orders'[o].status = "filled" /\ fills' = Append(fills, f)
        /\ \A u \in OrderIds \ {o} : orders'[u].status = orders[u].status
        /\ orders[o].status \notin {"none", "filled"}
    BY <1>0, <1>4, <2>1 DEF Executes, RecordFill, Order
  <2>3. orders[o].status = "accepted"
    <3>1. orders[o].status # "cancelled" BY <2>1, <2>2, CancelledStays
    <3> QED BY <1>0, <2>1, <2>2, <3>1 DEF Order, OrderStatus
  <2>4. \A i \in DOMAIN fills : fills[i].order # o
    BY <1>0, <2>1, <2>3 DEF IInv, ExecutedExactlyOnce, FillsFor
  <2>5. ExecutionsIn(fills') = [ExecutionsIn(fills) EXCEPT ![o] = @ + 1]
    BY <1>0, <2>2, <2>4, CountsOne
  <2>6. StageOf(orders') = [StageOf(orders) EXCEPT ![o] = "filled"] /\ StageOf(orders)[o] = "open"
    BY <1>0, <2>1, <2>2, <2>3, StageMoves
  <2> QED BY <2>1, <2>5, <2>6 DEF MovesTo
<1>5. \/ Quiet
      \/ \E o \in OrderIds : Creates(o)
      \/ \E f \in Fill : Executes(f)
      \/ \E o \in OrderIds : Cancels(o)
  BY <1>0, OrderSteps
<1> QED BY <1>1, <1>2, <1>3, <1>4, <1>5

LEMMA LifecycleStep ==
    ASSUME CallInv, CallbackOutcomes = {"return"}, [Next]_vars
    PROVE  [Lifecycle!Next]_(Lifecycle!vars)
<1>1. CASE Same
  BY <1>1 DEF Same, StageOf, ExecutionsIn, Lifecycle!vars, FillsFor
<1>2. ASSUME NEW o \in OrderIds, MovesTo(o, "unplaced", "open", 0) PROVE Lifecycle!Open(o)
  BY <1>2 DEF MovesTo, StageOf, ExecutionsIn, Lifecycle!Open, FillsFor
<1>3. ASSUME NEW o \in OrderIds, MovesTo(o, "open", "filled", 1) PROVE Lifecycle!Execute(o)
  BY <1>3 DEF MovesTo, StageOf, ExecutionsIn, Lifecycle!Execute, FillsFor
<1>4. ASSUME NEW o \in OrderIds, MovesTo(o, "open", "cancelled", 0) PROVE Lifecycle!Cancel(o)
  BY <1>4 DEF MovesTo, StageOf, ExecutionsIn, Lifecycle!Cancel, FillsFor
<1> QED BY <1>1, <1>2, <1>3, <1>4, LifeMoves DEF Lifecycle!Next

\* With callbacks that return, each step of the engine is, for each order, its
\* opening, its one execution, its cancellation, or nothing: the engine
\* implements OrderLifecycle.
THEOREM ImplementsLifecycle == ASSUME CallbackOutcomes = {"return"} PROVE Spec => LifecycleSpec
<1>1. CallInv /\ [Next]_vars => [Lifecycle!Next]_(Lifecycle!vars)
  BY LifecycleStep
<1> QED BY <1>1, LifecycleStarts, CallsInductive, PTL DEF Spec, LifecycleSpec, Lifecycle!Spec

===============================================================================
