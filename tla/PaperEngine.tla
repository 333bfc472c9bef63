----------------------------- MODULE PaperEngine -----------------------------
(***************************************************************************)
(* The paper-trading execution engine (packages/paper-engine) as the REST  *)
(* endpoints of services/local-api drive it: accounts, orders, positions   *)
(* and fills kept in memory by one asyncio process.                        *)
(*                                                                         *)
(* A coroutine (a REST handler, a price tick) is a member of Tasks.  The   *)
(* event loop runs one task until it awaits something that really          *)
(* suspends, so a step of a task needs the loop to be free or already its  *)
(* own.  What a registered callback does is the constant                   *)
(* CallbackOutcomes: the wiring in main.py only ever "return"s; the engine *)
(* also accepts callbacks that "suspend" (awaitables) or "raise".          *)
(*                                                                         *)
(* Abstractions: one instrument; the average entry price is left out, so a *)
(* closing fill realises any member of Pnls; unrealised P&L, liquidation   *)
(* prices and fee-rate changes, which feed nothing back into the state     *)
(* modelled here, are left out.                                            *)
(***************************************************************************)
EXTENDS Integers, Sequences, FiniteSets, FiniteSetsExt

CONSTANTS
    Accounts,          \* account ids
    DefaultAccount,    \* "paper-default", created by start()
    MaxOrders,         \* bound: orders placed in a behaviour
    Tasks,             \* coroutines that may be in flight together
    NoTask,            \* stands for "no task"
    Requests,          \* order requests clients submit
    NoRequest,         \* stands for "no request"
    CloseQuantities,   \* explicit quantities of close-position requests
    Prices,            \* prices of ticks
    InitialBalance,    \* initial_balance of every account
    MakerRate,         \* fee per unit of a maker fill
    TakerRate,         \* fee per unit of a taker fill
    Pnls,              \* P&L a closing fill may realise
    CallbackOutcomes   \* what a registered callback may do

NoPrice == 0

Side == {"buy", "sell"}
PosSide == {"long", "short", "net"}
OrderType == {"market", "limit", "stop_market", "stop_limit"}
OrderIds == 1..MaxOrders

Request ==
    [acct: Accounts, side: Side, type: OrderType, qty: Nat \ {0},
     price: Prices \cup {NoPrice}, stop: Prices \cup {NoPrice},
     mark: Prices \cup {NoPrice}, lev: Nat \ {0}, posSide: PosSide,
     reduce: BOOLEAN]

ASSUME ConstantsAssumption ==
    /\ DefaultAccount \in Accounts
    /\ MaxOrders \in Nat
    /\ NoTask \notin Tasks
    /\ NoRequest \notin Request
    /\ Requests \subseteq Request
    /\ CloseQuantities \subseteq Nat \ {0}
    /\ Prices \subseteq Nat \ {0}
    /\ InitialBalance \in Nat
    /\ MakerRate \in Nat
    /\ TakerRate \in Nat
    /\ Pnls \subseteq Int
    /\ CallbackOutcomes \in SUBSET {"return", "suspend", "raise"}
    /\ CallbackOutcomes \cap {"return", "suspend"} # {}

VARIABLES
    accounts,   \* accounts[a]: the PaperAccount and whether the manager has it
    orders,     \* orders[o]: the Order object
    listed,     \* ids the PaperOrderManager still knows
    positions,  \* positions[a][p]: quantity 0 stands for no position
    fills,      \* the engine's _fills list
    lastPrice,  \* _last_prices of the instrument
    lock,       \* lock[a]: holder of the account's asyncio.Lock
    tasks,      \* tasks[t]: local state of a coroutine
    loop        \* the task that owns the event loop, or NoTask

vars == <<accounts, orders, listed, positions, fills, lastPrice, lock, tasks, loop>>

-------------------------------------------------------------------------------
(* Types *)

OrderStatus == {"none", "accepted", "filled", "cancelled"}

Account == [state: {"absent", "live", "deleted"}, balance: Int, realized: Int, fee: Int]

Order == [req: Request \cup {NoRequest}, status: OrderStatus, filled: Nat]

Position == [side: Side, qty: Nat, lev: Nat \ {0}, margin: Nat]

\* `acct` is the account_id the engine used for the fill; the code keeps it
\* in a local variable only.
Fill == [order: OrderIds, acct: Accounts, qty: Nat, lev: Nat \ {0},
         reduce: BOOLEAN, fee: Int, pnl: Int]

Pc == {"idle", "lock", "created", "booking", "booked", "ticked", "scan", "cancelled"}

Op == {"none", "place", "tick", "cancel"}

Task == [pc: Pc, op: Op,
         req: Request \cup {NoRequest}, order: OrderIds \cup {0},
         price: Prices \cup {NoPrice}, todo: SUBSET OrderIds,
         acct: Accounts, delta: Int]

TypeOK ==
    /\ accounts \in [Accounts -> Account]
    /\ orders \in [OrderIds -> Order]
    /\ listed \in SUBSET OrderIds
    /\ positions \in [Accounts -> [PosSide -> Position]]
    /\ fills \in Seq(Fill)
    /\ lastPrice \in Prices \cup {NoPrice}
    /\ lock \in [Accounts -> Tasks \cup {NoTask}]
    /\ tasks \in [Tasks -> Task]
    /\ loop \in Tasks \cup {NoTask}

-------------------------------------------------------------------------------
(* Initial state: start() has created the default account. *)

FreshAccount == [state |-> "live", balance |-> InitialBalance, realized |-> 0, fee |-> 0]
AbsentAccount == [FreshAccount EXCEPT !.state = "absent"]
Flat == [side |-> "buy", qty |-> 0, lev |-> 1, margin |-> 0]
IdleTask == [pc |-> "idle", op |-> "none", req |-> NoRequest, order |-> 0,
             price |-> NoPrice, todo |-> {}, acct |-> DefaultAccount, delta |-> 0]

Init ==
    /\ accounts = [a \in Accounts |-> IF a = DefaultAccount THEN FreshAccount
                                                            ELSE AbsentAccount]
    /\ orders = [o \in OrderIds |-> [req |-> NoRequest, status |-> "none", filled |-> 0]]
    /\ listed = {}
    /\ positions = [a \in Accounts |-> [p \in PosSide |-> Flat]]
    /\ fills = <<>>
    /\ lastPrice = NoPrice
    /\ lock = [a \in Accounts |-> NoTask]
    /\ tasks = [t \in Tasks |-> IdleTask]
    /\ loop = NoTask

(* Scheduling on the event loop *)

CanRun(t) == loop \in {NoTask, t}

\* A callback is awaited: the task keeps the loop unless the callback suspends.
Await(t) == \E outcome \in CallbackOutcomes \ {"raise"} :
                loop' = IF outcome = "suspend" THEN NoTask ELSE t

UnlockedNever(t) == lock

Unlocked(t) == [a \in Accounts |-> IF lock[a] = t THEN NoTask ELSE lock[a]]

\* The coroutine ends, by returning or by an exception: `async with` releases
\* the account lock.
End(t) ==
    /\ tasks' = [tasks EXCEPT ![t] = IdleTask]
    /\ lock' = Unlocked(t)
    /\ loop' = NoTask

-------------------------------------------------------------------------------
(* Orders and fills *)

IsOpenUnlessCancelled(o) == orders[o].status \notin {"none", "cancelled"}

IsOpen(o) == orders[o].status = "accepted"

Live(a) == accounts[a].state = "live"

\* _get_order_account scans the accounts the manager lists and falls back to
\* the default account.
AccountOf(o) ==
    LET a == orders[o].req.acct
    IN  IF o \in listed /\ Live(a) THEN a ELSE DefaultAccount

Triggered(r, cur) ==
    /\ r.stop # NoPrice
    /\ IF r.side = "buy" THEN cur >= r.stop ELSE cur <= r.stop

WithinLimit(r, cur) ==
    /\ r.price # NoPrice
    /\ IF r.side = "buy" THEN cur <= r.price ELSE cur >= r.price

\* _get_fill_price returns a price.
PriceConditionMet(r, cur) ==
    CASE r.type = "market"      -> TRUE
      [] r.type = "limit"       -> WithinLimit(r, cur)
      [] r.type = "stop_market" -> Triggered(r, cur)
      [] r.type = "stop_limit"  -> Triggered(r, cur) /\ WithinLimit(r, cur)

FillableUnchecked(o, cur) == PriceConditionMet(orders[o].req, cur)

\* try_fill returns a fill, always for the whole remaining quantity.
Fillable(o, cur) ==
    /\ IsOpen(o)
    /\ orders[o].filled < orders[o].req.qty
    /\ PriceConditionMet(orders[o].req, cur)

FeeOf(r, qty) == qty * (IF r.type \in {"market", "stop_market"} THEN TakerRate ELSE MakerRate)

Reverses(pos, side) == pos.qty > 0 /\ pos.side # side

\* A position; its margin is its quantity over a leverage (after a flip, over
\* the leverage of the order, while the position keeps its own).
Held(side, qty, lev, marginLev) ==
    [side |-> side, qty |-> qty, lev |-> lev, margin |-> qty \div marginLev]

PositionAfterFlipLost(pos, r, qty) ==
    IF pos.qty = 0            THEN Held(r.side, qty, r.lev, r.lev)
    ELSE IF pos.side = r.side THEN Held(pos.side, pos.qty + qty, pos.lev, pos.lev)
    ELSE IF qty <= pos.qty    THEN Held(pos.side, pos.qty - qty, pos.lev, pos.lev)
    ELSE                           Held(pos.side, 0, pos.lev, pos.lev)

\* apply_fill_with_symbol: open, add, reduce, or flip.
PositionAfter(pos, r, qty) ==
    IF pos.qty = 0            THEN Held(r.side, qty, r.lev, r.lev)
    ELSE IF pos.side = r.side THEN Held(pos.side, pos.qty + qty, pos.lev, pos.lev)
    ELSE IF qty <= pos.qty    THEN Held(pos.side, pos.qty - qty, pos.lev, pos.lev)
    ELSE                           Held(r.side, qty - pos.qty, pos.lev, r.lev)

BookedDeltaWithoutPnl(f) ==
    (IF f.reduce THEN f.qty \div f.lev ELSE -(f.qty \div f.lev)) - f.fee

\* What update_balance adds for a fill: margin debited or released, the fee
\* and the realised P&L.
BookedDelta(f) ==
    (IF f.reduce THEN f.qty \div f.lev ELSE -(f.qty \div f.lev)) - f.fee + f.pnl

Credit(accts, a, delta) ==
    IF accts[a].state = "live" THEN [accts EXCEPT ![a].balance = @ + delta] ELSE accts

AddTotals(accts, f) ==
    IF accts[f.acct].state = "live"
    THEN [accts EXCEPT ![f.acct].realized = @ + f.pnl, ![f.acct].fee = @ + f.fee]
    ELSE accts

\* The Fill for the whole remainder of order o, charged to account a.
NewFill(o, a, fee, pnl) ==
    [order |-> o, acct |-> a, qty |-> orders[o].req.qty - orders[o].filled,
     lev |-> orders[o].req.lev, reduce |-> orders[o].req.reduce, fee |-> fee, pnl |-> pnl]

PossiblePnls(o, a) ==
    IF Reverses(positions[a][orders[o].req.posSide], orders[o].req.side) THEN Pnls ELSE {0}

\* The order, position and fill-list part of executing fill f.
RecordFill(f) ==
    LET r == orders[f.order].req
    IN  /\ orders' = [orders EXCEPT ![f.order].status = "filled", ![f.order].filled = r.qty]
        /\ positions' = [positions EXCEPT ![f.acct][r.posSide] = PositionAfter(@, r, f.qty)]
        /\ fills' = Append(fills, f)

-------------------------------------------------------------------------------
(* _try_fill_order: record the fill, fire the callbacks, book the balance *)

\* Everything _try_fill_order does before its first await; ts is the task
\* table of the caller.
ApplyFill(ts, t, o) ==
    LET r == orders[o].req
        a == AccountOf(o)
    IN  \E pnl \in PossiblePnls(o, a) :
            LET f == NewFill(o, a, FeeOf(r, r.qty - orders[o].filled), pnl)
            IN  /\ RecordFill(f)
                /\ accounts' = AddTotals(accounts, f)
                /\ tasks' = [ts EXCEPT ![t].pc = "booking", ![t].acct = a,
                                        ![t].delta = BookedDelta(f)]
                /\ Await(t)
                /\ UNCHANGED <<listed, lock>>

\* The order, fill and position callbacks returned: update_balance, then the
\* balance callback.
BookBalance(t) ==
    /\ CanRun(t)
    /\ tasks[t].pc = "booking"
    /\ accounts' = Credit(accounts, tasks[t].acct, tasks[t].delta)
    /\ tasks' = [tasks EXCEPT ![t].pc = "booked", ![t].acct = DefaultAccount, ![t].delta = 0]
    /\ Await(t)
    /\ UNCHANGED <<orders, listed, positions, fills, lastPrice, lock>>

-------------------------------------------------------------------------------
(* place_order and close_position *)

\* Room for one more order under the MaxOrders bound.
RoomForOrder ==
    Cardinality({t \in Tasks : tasks[t].pc = "lock"})
        < Cardinality({o \in OrderIds : orders[o].status = "none"})

\* The endpoint has checked that the account exists and calls place_order,
\* which waits for the account's lock.
SubmitRequest(t, r) ==
    /\ loop = NoTask
    /\ tasks[t].pc = "idle"
    /\ Live(r.acct)
    /\ RoomForOrder
    /\ tasks' = [tasks EXCEPT ![t].pc = "lock", ![t].op = "place", ![t].req = r]
    /\ loop' = IF lock[r.acct] = NoTask THEN t ELSE NoTask
    /\ UNCHANGED <<accounts, orders, listed, positions, fills, lastPrice, lock>>

PlaceOrder(t) == \E r \in Requests : SubmitRequest(t, r)

\* POST /paper/close-position: the request is computed from the position
\* before place_order is awaited.
CloseRequest(a, p, qty, mark) ==
    [acct |-> a, side |-> IF p = "long" THEN "sell" ELSE "buy", type |-> "market",
     qty |-> qty, price |-> NoPrice, stop |-> NoPrice, mark |-> mark,
     lev |-> positions[a][p].lev, posSide |-> p, reduce |-> TRUE]

ClosePosition(t) ==
    \E a \in Accounts, p \in PosSide, mark \in Prices \cup {NoPrice} :
        /\ positions[a][p].qty > 0
        /\ \E qty \in CloseQuantities \cup {positions[a][p].qty} :
              SubmitRequest(t, CloseRequest(a, p, qty, mark))

MarginSuffices(r) == r.reduce \/ accounts[r.acct].balance >= r.qty \div r.lev

\* Inside the lock, margin insufficient: ValueError.
RejectOrder(t) ==
    /\ CanRun(t)
    /\ tasks[t].pc = "lock"
    /\ lock[tasks[t].req.acct] = NoTask
    /\ Live(tasks[t].req.acct)
    /\ ~ MarginSuffices(tasks[t].req)
    /\ End(t)
    /\ UNCHANGED <<accounts, orders, listed, positions, fills, lastPrice>>

\* Order ids are handed out in the order of placement.
IsNextId(o) == /\ orders[o].status = "none"
               /\ \A p \in 1..(o - 1) : orders[p].status # "none"

\* Inside the lock: the order is created, accepted and announced.
CreateOrder(t) ==
    LET r == tasks[t].req
    IN  /\ CanRun(t)
        /\ tasks[t].pc = "lock"
        /\ lock[r.acct] = NoTask
        /\ Live(r.acct) => MarginSuffices(r)
        /\ lock' = [lock EXCEPT ![r.acct] = t]
        /\ \E o \in OrderIds :
              /\ IsNextId(o)
              /\ orders' = [orders EXCEPT ![o] = [req |-> r, status |-> "accepted", filled |-> 0]]
              /\ listed' = listed \cup {o}
              /\ tasks' = [tasks EXCEPT ![t].pc = "created", ![t].req = NoRequest, ![t].order = o]
        /\ Await(t)
        /\ UNCHANGED <<accounts, positions, fills, lastPrice>>

\* Limit and stop orders rest in the book; place_order returns.
RestOrder(t) ==
    /\ CanRun(t)
    /\ tasks[t].pc = "created"
    /\ orders[tasks[t].order].req.type # "market"
    /\ End(t)
    /\ UNCHANGED <<accounts, orders, listed, positions, fills, lastPrice>>

\* _resolve_price, then the caller's mark price.
MarketPrice(r) ==
    IF lastPrice # NoPrice THEN lastPrice
    ELSE IF r.price # NoPrice THEN r.price ELSE r.mark

\* The mark price is cached when nothing else was known.
PriceCachedBy(r) ==
    IF lastPrice = NoPrice /\ r.price = NoPrice THEN r.mark ELSE lastPrice

\* A market order fills in the call that placed it.
FillMarketOrder(t) ==
    LET o == tasks[t].order
        r == orders[o].req
    IN  /\ CanRun(t)
        /\ tasks[t].pc = "created"
        /\ r.type = "market"
        /\ MarketPrice(r) # NoPrice
        /\ o \in listed
        /\ Fillable(o, MarketPrice(r))
        /\ lastPrice' = PriceCachedBy(r)
        /\ ApplyFill(tasks, t, o)

\* No price is known at all: the market order is left to the next tick.
LeaveMarketOrder(t) ==
    LET r == orders[tasks[t].order].req
    IN  /\ CanRun(t)
        /\ tasks[t].pc = "created"
        /\ r.type = "market"
        /\ MarketPrice(r) = NoPrice
        /\ End(t)
        /\ UNCHANGED <<accounts, orders, listed, positions, fills, lastPrice>>

\* _force_fill_market_order does nothing to an order that is filled (a tick
\* was faster).
MarketOrderAlreadyFilled(t) ==
    LET o == tasks[t].order
    IN  /\ CanRun(t)
        /\ tasks[t].pc = "created"
        /\ orders[o].req.type = "market"
        /\ MarketPrice(orders[o].req) # NoPrice
        /\ orders[o].status = "filled"
        /\ lastPrice' = PriceCachedBy(orders[o].req)
        /\ End(t)
        /\ UNCHANGED <<accounts, orders, listed, positions, fills>>

\* The normal path declined the order (cancelled while the callback ran) or
\* raised (cleared by a reset): _force_fill_market_order fills the object it
\* holds whatever its status, and books the balance at once.
ForceFillMarketOrder(t) ==
    LET o == tasks[t].order
        r == orders[o].req
        a == AccountOf(o)
    IN  /\ CanRun(t)
        /\ tasks[t].pc = "created"
        /\ r.type = "market"
        /\ MarketPrice(r) # NoPrice
        /\ orders[o].status # "filled"
        /\ o \notin listed \/ ~ Fillable(o, MarketPrice(r))
        /\ lastPrice' = PriceCachedBy(r)
        /\ \E pnl \in PossiblePnls(o, a) :
              LET f == NewFill(o, a, (r.qty - orders[o].filled) * TakerRate, pnl)
              IN  /\ RecordFill(f)
                  /\ accounts' = Credit(AddTotals(accounts, f), a, BookedDelta(f))
        /\ End(t)
        /\ UNCHANGED listed

\* The balance callback returned: place_order returns the order.
ReturnFromPlace(t) ==
    /\ CanRun(t)
    /\ tasks[t].pc = "booked"
    /\ tasks[t].op = "place"
    /\ End(t)
    /\ UNCHANGED <<accounts, orders, listed, positions, fills, lastPrice>>

-------------------------------------------------------------------------------
(* on_price_tick: no lock is taken *)

HasPositions == \E a \in Accounts, p \in PosSide : Live(a) /\ positions[a][p].qty > 0

OpenOrdersNotMarket == {o \in listed : IsOpen(o) /\ orders[o].req.type # "market"}

OpenOrders == {o \in listed : IsOpen(o)}

\* The price is cached and position callbacks are awaited for every account
\* that holds a position; without any, the scan starts in the same step.
Tick(t, cur) ==
    /\ loop = NoTask
    /\ tasks[t].pc = "idle"
    /\ lastPrice' = cur
    /\ IF HasPositions
       THEN /\ tasks' = [tasks EXCEPT ![t].pc = "ticked", ![t].op = "tick", ![t].price = cur]
            /\ Await(t)
       ELSE /\ tasks' = [tasks EXCEPT ![t].pc = "scan", ![t].op = "tick", ![t].price = cur,
                                      ![t].todo = OpenOrders]
            /\ loop' = t
    /\ UNCHANGED <<accounts, orders, listed, positions, fills, lock>>

PriceTick(t) == \E cur \in Prices : Tick(t, cur)

\* get_open_orders: the orders to look at are fixed here.
SnapshotOpenOrders(t) ==
    /\ CanRun(t)
    /\ tasks[t].pc = "ticked"
    /\ tasks' = [tasks EXCEPT ![t].pc = "scan", ![t].todo = OpenOrders]
    /\ loop' = t
    /\ UNCHANGED <<accounts, orders, listed, positions, fills, lastPrice, lock>>

Scanning(t) ==
    /\ CanRun(t)
    /\ tasks[t].op = "tick"
    /\ tasks[t].pc \in {"scan", "booked"}

\* The scan takes the orders of the snapshot in the order they were placed.
IsNextToScan(t, o) ==
    /\ o \in tasks[t].todo
    /\ \A p \in tasks[t].todo : o <= p

\* The next order of the snapshot does not fill (any more).
SkipOrder(t) ==
    \E o \in OrderIds :
        /\ Scanning(t)
        /\ IsNextToScan(t, o)
        /\ ~ Fillable(o, tasks[t].price)
        /\ tasks' = [tasks EXCEPT ![t].pc = "scan", ![t].todo = @ \ {o}]
        /\ loop' = t
        /\ UNCHANGED <<accounts, orders, listed, positions, fills, lastPrice, lock>>

\* The next order of the snapshot fills.
FillRestingOrder(t) ==
    \E o \in OrderIds :
        /\ Scanning(t)
        /\ IsNextToScan(t, o)
        /\ o \in listed
        /\ Fillable(o, tasks[t].price)
        /\ UNCHANGED lastPrice
        /\ ApplyFill([tasks EXCEPT ![t].todo = @ \ {o}], t, o)

\* update_fill raises KeyError for an order cleared since the snapshot: the
\* tick dies and the rest of the snapshot is skipped.
LoseTick(t) ==
    \E o \in OrderIds :
        /\ Scanning(t)
        /\ IsNextToScan(t, o)
        /\ o \notin listed
        /\ Fillable(o, tasks[t].price)
        /\ End(t)
        /\ UNCHANGED <<accounts, orders, listed, positions, fills, lastPrice>>

FinishTick(t) ==
    /\ Scanning(t)
    /\ tasks[t].todo = {}
    /\ End(t)
    /\ UNCHANGED <<accounts, orders, listed, positions, fills, lastPrice>>

-------------------------------------------------------------------------------
(* DELETE /paper/orders/{id}: no lock is taken *)

CancelOrder(t, o) ==
    /\ loop = NoTask
    /\ tasks[t].pc = "idle"
    /\ o \in listed
    /\ IsOpen(o)
    /\ orders' = [orders EXCEPT ![o].status = "cancelled"]
    /\ tasks' = [tasks EXCEPT ![t].pc = "cancelled", ![t].op = "cancel", ![t].order = o]
    /\ Await(t)
    /\ UNCHANGED <<accounts, listed, positions, fills, lastPrice, lock>>

Cancel(t) == \E o \in OrderIds : CancelOrder(t, o)

\* The endpoint credits the margin it believes the order had frozen.
ReleaseMargin(t) ==
    LET o == tasks[t].order
        r == orders[o].req
    IN  /\ CanRun(t)
        /\ tasks[t].pc = "cancelled"
        /\ accounts' = IF o \in listed
                       THEN Credit(accounts, r.acct, (r.qty - orders[o].filled) \div r.lev)
                       ELSE accounts
        /\ End(t)
        /\ UNCHANGED <<orders, listed, positions, fills, lastPrice>>

-------------------------------------------------------------------------------
(* A callback raises out of the coroutine.  place_order catches what its     *)
(* fill attempt raises, but by then the order is filled and                  *)
(* _force_fill_market_order returns at once, so the call ends there too.     *)

CallbackRaises(t) ==
    /\ "raise" \in CallbackOutcomes
    /\ CanRun(t)
    /\ tasks[t].pc \in {"created", "booking", "booked", "ticked", "cancelled"}
    /\ End(t)
    /\ UNCHANGED <<accounts, orders, listed, positions, fills, lastPrice>>

-------------------------------------------------------------------------------
(* Account endpoints: each runs to its end without suspending *)

CreateAccount(a) ==
    /\ loop = NoTask
    /\ accounts[a].state = "absent"
    /\ accounts' = [accounts EXCEPT ![a] = FreshAccount]
    /\ UNCHANGED <<orders, listed, positions, fills, lastPrice, lock, tasks, loop>>

OrdersOf(a) == {o \in listed : orders[o].req.acct = a}

\* _fill_belongs_to is asked after the orders are gone, so it keeps every fill.
ResetAccount(a) ==
    /\ loop = NoTask
    /\ Live(a)
    /\ accounts' = [accounts EXCEPT ![a] = FreshAccount]
    /\ listed' = listed \ OrdersOf(a)
    /\ positions' = [positions EXCEPT ![a] = [p \in PosSide |-> Flat]]
    /\ UNCHANGED <<orders, fills, lastPrice, lock, tasks, loop>>

\* The endpoint calls AccountManager.delete_account, not the engine's: orders
\* and positions of the account stay.
DeleteAccount(a) ==
    /\ loop = NoTask
    /\ Live(a)
    /\ accounts' = [accounts EXCEPT ![a].state = "deleted"]
    /\ UNCHANGED <<orders, listed, positions, fills, lastPrice, lock, tasks, loop>>

-------------------------------------------------------------------------------

Resume(t) ==
    \/ RejectOrder(t) \/ CreateOrder(t) \/ RestOrder(t)
    \/ FillMarketOrder(t) \/ LeaveMarketOrder(t) \/ MarketOrderAlreadyFilled(t)
    \/ ForceFillMarketOrder(t) \/ BookBalance(t) \/ ReturnFromPlace(t)
    \/ SnapshotOpenOrders(t) \/ SkipOrder(t) \/ FillRestingOrder(t)
    \/ LoseTick(t) \/ FinishTick(t) \/ ReleaseMargin(t) \/ CallbackRaises(t)

Next ==
    \/ \E t \in Tasks : PlaceOrder(t) \/ ClosePosition(t) \/ PriceTick(t) \/ Cancel(t) \/ Resume(t)
    \/ \E a \in Accounts : CreateAccount(a) \/ ResetAccount(a) \/ DeleteAccount(a)

Spec == Init /\ [][Next]_vars

-------------------------------------------------------------------------------
(* Fairness: the event loop keeps running every coroutine that is ready, and  *)
(* asyncio.Lock serves its waiters in order.  Clients need not do anything.   *)

Fairness == \A t \in Tasks : SF_vars(Resume(t))

FairSpec == Spec /\ Fairness

-------------------------------------------------------------------------------
(* Properties *)

FillsFor(o) == {i \in DOMAIN fills : fills[i].order = o}

\* No order is executed twice, whatever ticks, placements, cancellations and
\* resets interleave: an order is filled exactly when the engine's history
\* holds one fill for it, and that fill is for the whole quantity.
ExecutedExactlyOnce ==
    \A o \in OrderIds :
        /\ (orders[o].status = "filled") <=> (FillsFor(o) # {})
        /\ \A i \in FillsFor(o) : fills[i].qty = orders[o].req.qty
        /\ \A i, j \in FillsFor(o) : i = j

\* get_fills: the fills whose order the account still lists.
StatementOf(a) == {i \in DOMAIN fills : fills[i].order \in OrdersOf(a)}

CancelledOf(a) == {o \in OrdersOf(a) : orders[o].status = "cancelled"}

\* The sum of f over S.
Total(f, S) == MapThenSumSet(LAMBDA x : f[x], S)

NetCash(a) ==
    Total([i \in StatementOf(a) |->
              (IF fills[i].reduce THEN 1 ELSE -1) * (fills[i].qty \div fills[i].lev)
                  + fills[i].pnl - fills[i].fee], StatementOf(a))

Released(a) ==
    Total([o \in CancelledOf(a) |-> orders[o].req.qty \div orders[o].req.lev], CancelledOf(a))

\* Between two calls, what get_fills shows for an account (plus what the cancel
\* endpoint released) explains its balance, its realised P&L and its fees to the
\* cent.  The fallback account is excluded: it also pays for other accounts'
\* orphaned orders.
StatementReconciles ==
    loop = NoTask =>
        \A a \in Accounts \ {DefaultAccount} : Live(a) =>
            /\ accounts[a].balance = InitialBalance + NetCash(a) + Released(a)
            /\ accounts[a].realized = Total([i \in StatementOf(a) |-> fills[i].pnl], StatementOf(a))
            /\ accounts[a].fee = Total([i \in StatementOf(a) |-> fills[i].fee], StatementOf(a))

Signed(side, qty) == IF side = "buy" THEN qty ELSE -qty

\* A position is the net of the fills on its key, through any sequence of
\* opening, adding, reducing and flipping fills.
PositionNetsFills ==
    \A a \in Accounts \ {DefaultAccount}, p \in PosSide : Live(a) =>
        LET onKey == {i \in StatementOf(a) : orders[fills[i].order].req.posSide = p}
        IN  Signed(positions[a][p].side, positions[a][p].qty)
                = Total([i \in onKey |-> Signed(orders[fills[i].order].req.side, fills[i].qty)], onKey)

\* When a price tick is over, no listed order whose price condition the tick met
\* is still open: neither a limit or stop order nor a market order that was
\* placed before any price was known.
TickSettlesTriggeredOrders ==
    [][\A t \in Tasks :
          (tasks[t].op = "tick" /\ tasks'[t].op = "none") =>
              \A o \in listed : ~ Fillable(o, tasks[t].price)]_vars

\* Equity keeps the margin of open positions inside the wallet (compute_equity),
\* so between two calls an account's balance and position margins add up to its
\* wallet balance.
WalletIdentity ==
    loop = NoTask =>
        \A a \in Accounts : Live(a) =>
            accounts[a].balance + MapThenSumSet(LAMBDA p : positions[a][p].margin, PosSide)
                = InitialBalance + accounts[a].realized - accounts[a].fee

\* A fill is charged to the account its order was placed on.
FillsChargeOwnAccount ==
    \A i \in DOMAIN fills : fills[i].acct = orders[fills[i].order].req.acct

\* The per-account lock: a placement between its margin check and its return
\* holds the lock of its account, so no two placements of one account overlap.
LockHeldByPlacement ==
    \A a \in Accounts, t \in Tasks :
        lock[a] = t <=> /\ tasks[t].op = "place"
                       /\ tasks[t].pc \in {"created", "booking", "booked"}
                       /\ orders[tasks[t].order].req.acct = a

\* Whatever callbacks do and calls interleave, a filled order is never touched
\* again, and a cancelled one stays cancelled, with one exception: it is a market
\* order whose own placement was suspended in its first callback while it was
\* cancelled, and which that placement then fills by force.
FinalUnlessForced ==
    [][\A o \in OrderIds :
          /\ orders[o].status = "filled" => orders'[o] = orders[o]
          /\ orders[o].status = "cancelled" /\ orders'[o] # orders[o] =>
                \E t \in Tasks :
                    /\ tasks[t].pc = "created" /\ tasks[t].order = o
                    /\ orders[o].req.type = "market"
                    /\ orders'[o].status = "filled" /\ tasks'[t].pc = "idle"]_vars

\* No call hangs: every placement, cancellation and tick returns, even when
\* callbacks suspend or raise and calls queue for the account lock.
EveryCallReturns ==
    \A t \in Tasks : tasks[t].pc # "idle" ~> tasks[t].pc = "idle"

\* An order seen from outside: PaperEngine implements OrderLifecycle.
Lifecycle ==
    INSTANCE OrderLifecycle WITH
        stage <- [o \in OrderIds |-> CASE orders[o].status = "none" -> "unplaced"
                                       [] orders[o].status = "accepted" -> "open"
                                       [] OTHER -> orders[o].status],
        executions <- [o \in OrderIds |-> Cardinality(FillsFor(o))]

LifecycleSpec == Lifecycle!Spec

===============================================================================
