# A verification of PnLClaw's trading core

PnLClaw is a local-first trading assistant: a FastAPI process connects to
exchanges, keeps market data, runs strategies on closed klines, executes their
signals on paper accounts (and, optionally, on real ones), and offers all of it
to a desktop application and to an LLM agent.  This directory holds TLA+ models
of the parts whose correctness depends on the order in which things happen, the
TLC runs that check them, and TLAPS proofs of the facts that hold for every
instance.

Contents: 1 the system; 2 the models; 3 the runs; 4 bounds; 5 fairness;
6 deadlock; 7 the proofs; 8 disagreements found; 9 what is not modelled;
10 the plan.

## 1 The system

One asyncio process hosts nearly everything, so two pieces of Python code
interleave only where one of them awaits something that really suspends.  That
is what the models' actions are: the code between two suspension points.
Synchronous callbacks run inside the action that calls them.

### Inventory

| component | state | operations | talks to |
|---|---|---|---|
| **paper-engine: execution** (`paper_execution.py`, `orders.py`, `fills.py`, `accounts.py`, `positions.py`, endpoints in `api/v1/paper.py`) | accounts, orders, positions, fill list, last prices, one lock per account | place, cancel, close position, tick, create/reset/delete account | price ticks from the event bus (as tasks), REST, order/position/fill callbacks to the WebSocket fan-out |
| **paper-engine: persistence** (`state.py`) | four JSON files | save (every minute, at shutdown), load | the engine; beside it `deployments.json` of the runner |
| **exchange-sdk: link** (`base/reconnect.py`, `base/ws_client.py`, `base/stall_watchdog.py`, `binance/ws_client.py`) | socket, subscriptions, disconnect event, watchdog, restart timestamps | connect loop, receive loop, subscribe, unsubscribe, stall, close | the venue; market-data sources |
| **exchange-sdk: OKX and private clients** (`okx/ws_client.py`, `okx/private_client.py`, `binance/user_data_client.py`, `okx_source.py`) | two sockets and one disconnect event; a login | the same, and logging in | the venue; a source, or nobody yet |
| **exchange-sdk: Polymarket WebSocket** (`polymarket/ws_client.py`) | sockets, recorded tokens, reconnect loops | connect, subscribe, reconnect, close | the bridge in `api/v1/ws.py` |
| **exchange-sdk: Binance L2 manager** | one book per symbol, last update id, cooldown | initialise, delta, recover | REST snapshots, the link's messages |
| **exchange-sdk: live execution engine, reconciliation** | orders by internal id, id maps, fills, balances | place, cancel, order and balance event, reconciliation round | REST and the private stream |
| exchange-sdk: REST clients, rate limiter, normalisers | token bucket | requests, parsing | venues |
| **market-data: history** (`service.py`) | a cache of bars | fetch page by page | REST of the venues, backtests |
| market-data: event bus, state engine, stores, aggregators | handlers, caches | publish, subscribe, read | links below, paper engine and runner above |
| **strategy-engine: runtime**; compiler, indicators | bars, position of a strategy | `on_kline` | the runner and the backtester |
| **backtest-engine** | portfolio and trade records of one run | event loop over bars | the strategy runtime |
| **local-api: strategy runner** (`strategy_runner.py`) | deployment slots, `deployments.json` | start, stop, deploy, stop a strategy, on_kline, execute signal | market service (klines, REST history), paper engine |
| **local-api: strategies** (`api/v1/strategies.py`, callbacks in `main.py`) | cache of strategies, deployment records | create, edit, deploy, stop, delete, by users and by the agent | the runner, storage |
| **local-api: backtests** (`api/v1/backtests.py`) | task table, result store | start, run, finish, evict, delete | backtest engine in a thread, storage |
| **local-api: chat** (`api/v1/agent.py`) | active turns, producer tasks, queues | chat, resume, stream, cancel | the agent runtime |
| **local-api: WebSocket fan-out** (`api/v1/ws.py`, bridge in `main.py`) | clients, channels, counts per IP, waiting books | connect, subscribe, broadcast, flush | the event bus, browsers |
| **agent-runtime: ReAct loop** (`react.py`, `context/manager.py`) | conversation, remembered messages | question, model call, tool calls, compaction | the language model, tools |
| **storage** (`sqlite.py`, repositories) | SQLite tables, write lock, read connection | statements | strategies, backtests |
| paper-engine: decision pipeline, risk-engine | seen keys, last order time, kill switch | gate a signal | nobody in the services calls it |
| core (circuit breaker, retry, scheduler, keyed queue, file lock, hooks, plugins) | counters, locks, timers | utility calls | tests, several packages |
| agent tools, llm-adapter, security-gateway; shared-types, cli, openclaw-compat, desktop, extensions, skills, scripts | tool registry, filters, UI | calls, rendering | - |

Bold components have a model.  The stream manager (`stream_manager.py`), the
caches of `cache.py`, the circuit breaker and the retry helpers are constructed
by tests only, and are left alone for that reason.

### What is hard here, and what correct means

* **Paper engine.**  The engine awaits callbacks in the middle of a fill, ticks
  scan a snapshot of the open orders while orders are placed and cancelled, a
  failed fill of a market order is followed by a forced one, and endpoints
  change balances behind the engine's back.  Correct: an order is executed at
  most once and in full, the balance is explained by the fills, a position is
  the net of its fills, a tick settles what it triggers, every call returns and
  the account lock protects the margin check.
* **Restarts of paper trading.**  Four files are each replaced atomically but one
  after the other, deployments are in a fifth that is written at other moments,
  and the process may die anywhere.  Correct: a fill that is restored was
  charged, is in its position, and its order does not fill again.
* **Links.**  A reconnect loop, one or two receive loops, a watchdog, logins,
  callers that subscribe and a stop that cancels tasks share sockets and a few
  flags.  Correct: one connection at a time; what the client believes it is
  subscribed to is what the venue sends; an open link is watched; a lost link
  comes back; a stopped one is gone.
* **Polymarket bridge.**  One client is shared by all browsers and reconnects by
  itself, with loops that outlive the socket they were started for.  Correct:
  what was recorded is served by whatever socket is held.
* **Runner.**  A deployment suspends for its warm-up with its slot already
  visible; signals are executed by tasks that run later than the bar that
  produced them; a file carries deployments over restarts.  Correct: one
  deployment per strategy, what is stopped stays stopped, what is deployed
  survives a crash, every signal is accounted for, and a strategy trades in its
  declared direction.
* **Strategies and storage.**  Handlers work on a row they read before an await;
  some writes are awaited, others are tasks; reads pass the queue of writes; users
  and the agent deploy and stop the same strategy.  Correct: an edit that was
  answered is in the history, and what the endpoint deployed and runs is recorded
  as running.
* **L2 book.**  Snapshots are fetched by REST while deltas arrive by WebSocket;
  three coroutines (receive loop, subscribe, connect handler) may have a snapshot
  under way for the same symbol.  Correct: the book reflects every update up to
  the sequence id it is published with, and a gap leads to a recovery that
  closes it.
* **Live engine.**  The answer to a placement, the private stream and the
  reconciliation tell of one order in no order among them, and the stream loses
  events.  Correct: no execution is booked twice, and without losses the engine
  shows what the venue has.
* **Backtest and its jobs.**  Runtime and portfolio keep positions of their own
  and meet only in signals; results live in two bounded tables and the database,
  while writes queue and deletes overtake them; a history is fetched backwards
  page by page while it grows.  Correct: the cash is explained, the positions
  agree, a stop holds, no result is lost or, if the database deleted it, comes
  back, the pages join.
* **Agent.**  A turn is produced by one task, consumed by streams that are lost
  and resumed, and cancelled by the next question; its conversation is cut when
  it grows too long.  Correct: a client misses no event but what was on its way
  when it went, every stream ends, and what the model is sent can be answered.
* **Fan-out.**  Broadcasts are tasks that wait on slow clients and drop dead ones
  while clients come and go.  Correct: who stays subscribed gets everything, in
  order, and the counts are those of the connections.

## 2 The models

| module | models | kind |
|---|---|---|
| `OrderLifecycle` | what the paper engine promises about one order | abstract specification |
| `PaperEngine` | the execution engine and the paper endpoints | detailed specification, refines `OrderLifecycle` |
| `DeploymentRegister` | what users are promised about their deployments | abstract specification |
| `ReconnectLoop` | what a reconnect loop promises whoever stops it | abstract specification |
| `PaperRestart` | the files of paper trading, the end of the process and what is loaded | specification over a reduced engine |
| `WsLink` | the reconnect manager, Binance client, watchdog and source stop, composed | detailed specification, refines `ReconnectLoop` |
| `VenueLink` | the same manager with OKX's two sockets, or a client that logs in | detailed specification, refines `ReconnectLoop` |
| `PolyBridge` | Polymarket's client and the bridge to browsers | detailed specification |
| `L2Book` | the Binance L2 manager between depth stream and snapshots | detailed specification |
| `StrategyRunner` | runner, the runtime's position automaton, the deployments file | detailed specification, refines `DeploymentRegister` |
| `StrategyStore` | cache, tables and deployments of strategies | detailed specification |
| `LiveEngine` | the live execution engine and a venue | detailed specification |
| `Backtest` | the backtest loop, the runtime with its stops, broker and portfolio | detailed specification |
| `BacktestJobs` | the backtests of the API and where their results live | detailed specification |
| `KlinePager` | the download of a history and its cache | detailed specification |
| `AgentTurns` | turns of the chat, their producers and streams | detailed specification |
| `ReactLoop` | the conversation with the model, its tool calls and compaction | detailed specification |
| `Gateway` | WebSocket clients, broadcasts, the order-book throttle | detailed specification |
| `MCPaperEngine`, `MCWsLink`, `MCStrategyRunner`, `MCL2Book` | constants for TLC | instances |
| `MCLinks` | `WsLink` beside `VenueLink` | instance |
| `MCServices` | the ten components that share no state | instance |
| `SeqWithout` | lists rid of some members, for the jobs, the fan-out and the turns | helper |
| `PaperEngineProofs`, `ExchangeProofs`, `L2BookProofs`, `StrategyProofs`, `ServicesProofs`, `GatewayProofs`, `AgentProofs` | theorems of the models (section 7) | proofs |
| `DataFacts` | theorems about sums and lists | proofs |

An operator whose name extends that of its neighbour (`FillableUnchecked`
before `Fillable`, `RestartUnchecked` before `Restart`) is a faulty variant of
the definition after it.  Nothing uses the variants in the runs above; each
shows that some property would notice the fault (`PROJECT.json`, "mutants").

Definitions keep the names of the code where they can.  `PROJECT.json`, "map",
gives the file and the lines of each; the sections below say what is not obvious
from them.

### PaperEngine

A coroutine is a member of `Tasks`; `tasks[t]` holds its program counter and
locals, `loop` the task that owns the event loop.  A task may step when the loop
is free or its own (`CanRun`), and gives the loop up only at an await that
suspends.  Callbacks are the only such awaits besides the account lock, so
`CallbackOutcomes` decides how much interleaves: `{"return"}` is the wiring of
`main.py`, `{"suspend", "raise"}` is what the engine's interface admits.

| code | actions |
|---|---|
| `place_order`, `_place_order_inner` | `PlaceOrder`, `RejectOrder`, `CreateOrder`, `RestOrder`, `FillMarketOrder`, `LeaveMarketOrder`, `MarketOrderAlreadyFilled`, `BookBalance`, `ReturnFromPlace` |
| `_force_fill_market_order` | `ForceFillMarketOrder` |
| `on_price_tick`, `_try_fill_order` | `PriceTick`, `SnapshotOpenOrders`, `SkipOrder`, `FillRestingOrder`, `LoseTick`, `FinishTick` |
| `POST .../cancel` | `Cancel`, `ReleaseMargin` |
| `close-position` | `ClosePosition` (reads the position when called, then places) |
| create, reset, delete account | `CreateAccount`, `ResetAccount`, `DeleteAccount` |
| a callback that raises | `CallbackRaises` |

Left out: the average entry price (a closing fill realises any member of
`Pnls`), unrealised P&L, liquidation prices, rate changes.  They feed nothing
back into what is modelled.  Partial fills do not occur in the code: a fill is
always for the remaining quantity.

### PaperRestart

With the callbacks `main.py` wires an order is placed, filled or cancelled in one
step, so the engine shrinks to sets: a balance and a position are the fills that
went into them, and a wallet has lives, which a reset ends.  `SaveStep` writes
the next file of a save (accounts, orders, positions, fills, as `save_state`
does), `WriteFails` and `Kill` may come between any two, `LoadState` is the start
with its default wallet and the deployments that come back.  `OpenWallet` and
`DeploymentSaved` are the two halves of a deployment this is about: the wallet
created for it in memory, and its line in `deployments.json`.
`whole` and `split` are not in the code: they record whether the files are of one
save and whether a process has ever started from files that were not.

### WsLink

`manager` is where `ReconnectManager.run` stands: `connecting`, `announcing`
(inside `on_connect`, which fetches snapshots), `listening`, `backoff`, `done`.
`ws` is the client's connection: `open`, `lost` (the receive loop will see
`ConnectionClosed`) or `finished` (closed in order, the loop just ends).  The
difference matters: only the former is announced to the manager.  Time is
nondeterministic: backoff, idle timer and hour window pass at any moment.
`Loop` maps this onto `ReconnectLoop`, which has no connections, streams or
limits; `VenueLink` has a mapping of its own (`LinkLoop`).

### VenueLink

`client` is which client the behaviour is about: OKX's public one with two
sockets (market data and business), OKX's or Binance's private one.  `phase` is
where the manager stands, `authed` what the client believes of its login and
`session` what the venue knows of it, `feeds` what the venue sends, `recorded`
what the client would resubscribe.  A venue answers a login in order with the messages
after it, so `feeds` depends on which came first.  `halt` is the cancellation of
the manager's task and the closing of the sockets it finds.

### PolyBridge

`_ws_market` is `clients[c].current`.  A socket lives on when that attribute moves:
its receive loop, when it ends, clears whatever socket is current then, and starts
another reconnect loop; `loops` counts them.  `sharedClient` is what the bridge
believes; `bridgeLock` is held over the first connect only.

### StrategyRunner

`slots`, `disk` and `unread` are `_slots`, `deployments.json` and what a restore
has still to deploy.  `Deploy` inserts the slot and `FinishWarmup` is everything
after the suspension, including the save from the slots there are *then*.  `Bar`
is `_on_kline` for all slots at once, any of whose runtimes may raise: that is
caught and counted as an error of the slot (`WithRaised`), and there is no signal.
`raised` keeps these errors apart from those of orders, for the property.
`PlaceOrder` and `FailOrder` are the task a signal schedules.  Whether conditions hold on a bar is a nondeterministic choice
within what the runtime allows in a position and a direction.  The account a
deployment creates is in `PaperRestart`.

`Register` maps all this onto `DeploymentRegister`.  `Standing` are the
deployments that count as there: the slots while the process runs, and while it is
down or restoring also those that a restore has yet to read or would read from the
file.  A deployment of which there is no trace and that nobody stopped is `lost`.

### StrategyStore

A request is a handler: `BeginRead` up to its await, `ReadRow` the answer of the
read connection, and `Finish...` what follows, which uses the row read, then the
cache.  A write is in `tasks` if it was given to `create_task` and has not
started, and in `writes` when it holds or awaits the write lock; `Commit...`
applies the head.  `LoopHasTurned` says that created tasks start before anything
that needs the event loop to wait for the outside.  An edit is named by its
request, so `configs[s].edits` is what a version contains.  A restart drops
tasks, queue and handlers; a client keeps the answers it has (`StaysAnswered`),
so what was promised before a crash is still claimed after it.

The agent's deploy goes past the lock, and leaves a slot and nothing else:
`FinishAgentDeploy` changes only its request, because the record it should save
cannot be built, and the code goes on without it (section 8).

### L2Book

The venue numbers its updates; a book is the set of updates it reflects, so a
hole in the set is what prices would show wrongly.  A delta carries an interval
of updates, a snapshot everything up to some moment between its request and its
answer.  `calls`, `link` and `loop` are the three coroutines that may have a
request under way; the receive loop reads nothing while its own recovery waits,
and the deltas queue in `stream`.

| code | actions |
|---|---|
| `initialize` and the depth subscription after it (`BinanceSource.subscribe`) | `Subscribe`, `FinishSubscribe` |
| `reinitialize_all` in the connect handler | `Connect`, `FinishConnect` |
| `apply_delta` | `DropDelta`, `ApplyDelta`, `ApplyDeltaCrosses`, `DetectGap` |
| `_recover`, its cooldown | `Recover` (in the last two), `FinishRecovery`, `CooldownEnds` |
| venue and network | `Update`, `DeliverDelta`, `LoseDelta`, `LinkBreaks` |

`base`, `source` and `joint` are not in the code: they record which snapshot a
book rests on and where the deltas begin, for the properties.  A second
`subscribe` replaces the book by an empty one at once; deltas of the running
stream are applied to it, and published, until its snapshot arrives and
overwrites them.  The depth validation (best bid below best ask) is a choice
that is only there for a book that misses something.

### LiveEngine

Three channels: `placing[o].answer` (REST), `userEvents` (in order, emptied when
the stream is lost) and `fetchedOrders`/`fetchedBalance` (a round in progress).
An internal id says where its record came from (`live`, `ext`, `recon`), since
one order may get several; `internalOf` is both id maps.  The venue fills one
unit at a time, or everything at once with its acceptance.

### Backtest, BacktestJobs, KlinePager

`Backtest` is sequential: `ClosedBar` is one round of `BacktestEngine.run`, with
the runtime's stop and take-profit before its rules, the signal made an order at
the slipped close, and the trade record when a holding closes.  Money is in
integers, rounded where a unit is lost; products are the code's.

In `BacktestJobs` a run is in a thread, so it ends at any moment between other
requests; `dbWrites` are the saves and deletes at the write lock; `Evicted` is the
size limit of both tables, which takes the oldest whatever its state.  The head of
the writes is applied (`WriteRow`) or raises (`SaveRaises`, `DeleteRaises`); both
are swallowed, and the request is answered as if nothing had happened.  `unsaved`
and `undeleted` remember whose write that was.  A client who still finds a
backtest may delete it again (`MayDelete`).

`KlinePager` numbers the bars, so that joining pages is a statement about
consecutive numbers.  `BarOpens` may come between any two pages.

### AgentTurns, ReactLoop

An event is its position in its turn.  A turn has a producer task, the list
`collected`, a `cursor` and a queue, which a resumption replaces; a connection
replays, then waits on the queue it found.  The cursor moves before an event is
yielded, and a yield is no receipt: `yielded` is what a stream handed out, and
`Disconnect`, the moment at which the server notices that a client is gone, takes
any number of the last events out of it into `lost`.
`ProducerStarts`, `CancelLands` and `Finish` are the ends of the producer's life:
a task cancelled before its first step never runs its `finally`.

`ReactLoop` is the conversation as the list of roles and call ids it is made of.
`BeginRound` compacts when too long, `ModelOverflows` compacts more and asks
again, `ModelCalls` starts a round of tools that the loop detection may cut.

### Gateway

A broadcast is a coroutine that walks a copy of the clients (`casts`): `Visit` is
the walk up to the first client whose buffer is full, where it waits in that
client's queue; when the buffer has drained, or the client has died, it goes on.
`endpoint[b]` is the handler of the socket, `ipCount` the count of its address,
`FlusherBegins` and `Flush` the throttle of books.  `owed`, `disorder`, `jumped`,
`raced` and `leaked` are history for the properties.

## 3 The runs

| run | question | answer |
|---|---|---|
| `paper_wired` | Every order type, hedge and net mode, flips, resets, deletions and cancellations, callbacks as wired: do the books agree with the fills, does a tick settle what it triggers, does the engine implement `OrderLifecycle`? | yes |
| `paper_callbacks` | Two calls in flight with callbacks that suspend or raise: is an order ever executed twice, does every call return, is an order that is filled or cancelled final? | never, yes, unless the forced fill of its own placement finds it cancelled |
| `paper_cancel` | Is balance plus margin the wallet? | no: cancelling credits margin that was never debited |
| `paper_orphan` | Is a fill charged to its order's account? | no: orders of a deleted account fill on the default one |
| `ws_link` | All interleavings of the links: streams, watchdog, single link, stop, recovery of a lost link; OKX's two sockets and the private clients' logins; does an attempt to connect ever begin after a stop, or after giving up? | all hold, never |
| `ws_stall` | Does the stall handler force a reconnect? | no: an orderly close is never announced |
| `ws_storm` | Are restarts limited per hour? | no: only failed connects are counted |
| `runner` | Deployments, warm-ups, stops, klines, crashes, shutdowns, restores: does the runner implement `DeploymentRegister`, and is every signal accounted for, also when runtimes raise? | yes, yes |
| `runner_short` | Does a long_only strategy stay out of short positions? | no: its exit opens one |
| `l2_futures` | A futures book with lost deltas, failing snapshots, reconnects, two subscriptions: where are its holes? | only between a snapshot and the first delta after it; a recovery leaves none but what never arrived; the sequence id never covers too little |
| `l2_joint` | Does a book in use miss no update? | no: the snapshot is older than the start of the stream, and the first delta is accepted with a gap |
| `services` | The ten components that share no state, below | all hold |

`services` is one run for ten questions, because the components share no
variable: `focus` is chosen at the start and only that component moves, so the
run has the sum of their states (1.9 million), not the product.

| component | properties | what they say |
|---|---|---|
| `StrategyStore` | `AnsweredEditsAreInHistory`, `DeploymentsAreRecorded` | An edit that was answered is in the history whatever overwrote it in cache and table; what the endpoint deployed and runs is recorded as running, and no strategy has two running records; what the agent deploys is not recorded. |
| `LiveEngine` | `ExecutionsBookedOnce`, `AnsweredOrdersAgree` | Whatever the order of the three channels, no execution is booked twice; an order placed by the engine ends as at the venue unless events were lost. |
| `PolyBridge` | `RecordedTokensServed` | The socket a client holds serves what the client recorded. |
| `Backtest` | `TradesExplainCash`, `PortfolioFollowsRuntime`, `StopHonoured` | To the unit; with the exception of entries without cash; measured on closes. |
| `BacktestJobs` | `FinishedBacktestsFound`, `DeletedStaysDeleted` | Eviction from two tables loses no result whose save did not raise; a delete after the end wins over a save that still waits, unless the database refused it. |
| `KlinePager` | `PagesJoin` | Pages join without gap or overlap while bars open. |
| `AgentTurns` | `OnlyInFlightIsMissed`, `ListenersHearTheEnd` | However often a stream is lost, a client misses only what was yielded to it when it was gone; nobody waits for an end that was never marked. |
| `ReactLoop` | `RequestsAreAnswerable` | No tool call in a request to the model is left without its results. |
| `PaperRestart` | `RestoredFillsAreBooked` | What comes back in the history is charged, held, and its order does not fill again. |
| `Gateway` | `BroadcastsReachSubscribers`, `CountsMatchConnections` | Who stays subscribed gets everything in order; counts are those of the connections unless an accept was raced. |

Types are checked by `ws_link` and `services`; in the other components their
theorems stand alone.  The properties and the code each is about are described at
their definitions; where the code does not keep a fuller promise, the property
names the exception, and section 8 says what happens there.

## 4 Bounds

* `PaperEngine`: `MaxOrders` orders in a behaviour.  Three let one order rest, a
  second fill and a third flip the position; with callbacks that suspend, two
  orders and two tasks give every pair of calls (placement/placement,
  placement/tick, tick/cancel, ...).  Quantities 2 and 4 are divisible by the
  leverages used, so no rounding hides a discrepancy; prices 1 and 2 are below,
  at and above a limit; the initial balance 4 makes margin checks succeed and
  fail.
* `WsLink`: two streams (one recorded while the other is not), two restarts an
  hour (so the limit is reached, and the window can pass); the state space is
  complete beyond that.  `SessionLimit` saturates a history counter.
  `VenueLink` has no bound: for one symbol its state space is complete.
* `StrategyRunner`: three deployments, two of one strategy, `MaxBars` = 2 live
  bars (an entry and an exit; a warm-up may have opened the position before) and
  `MaxRestarts` = 2 with crashes at any point: a deployment that one restore passes
  over because its strategy does not compile is still in the file, and the second
  one may find it, beside another of the same strategy deployed meanwhile.  All
  strategies are long_only: directions touch only the positions of the runtime.
  The two deployments of one strategy are symmetric (`SameStrategy`): nothing tells
  them apart, and nothing `runner` checks is a liveness property.
* `L2Book`: four updates of the venue, one lost delta, two subscriptions, two
  connections.  Four updates allow a snapshot, a delta, a lost one and the delta
  that shows the gap, with the recovery's snapshot between any two.  `SmallGap`
  is 500 ids in the code and 1 here, so that spot streams have gaps on both sides
  of it.

In `services`:

* `StrategyStore`: one strategy (the operations of two do not meet), three
  requests and a crash: two edits at once and the read that puts an old row back,
  a deploy, a stop during its warm-up and another deploy.
* `LiveEngine`: an order of quantity 2, so that it can be partially filled, and
  one loss of the stream.  Orders meet only in the balance and the reconciliation
  round, of which nothing but the balance is common to them.
* `PolyBridge`: two browsers, two clients (the shared one and the one made
  beside it), three sockets (two reconnect loops of one client and one more).
* `Backtest`: six bars, after a warm-up of 2, with closes that hit the stop, hit
  the take-profit and do neither, and a price that doubles under a short, which leaves
  no cash: enough to enter, exit, enter again and be refused.
* `BacktestJobs`: three backtests over a table of 2 and a store of 1, so that
  both evict; two at once, one restart.  Any write may raise.
* `KlinePager`: pages of 2, histories of 3 and 5 (neither a multiple), a venue
  that had 0, 1, 4 or 7 bars at first, a cache of one entry, two callers.
* `AgentTurns`: one session with two turns (the second cancels the first), three
  connections (a stream and two resumptions, or a question between), three
  events.
* `ReactLoop`: two turns (the current question is the first user message only in
  the first), two calls a round, three rounds; compaction thresholds scaled down
  from 6, 12 and (aggressive) 6 messages so that every one of them is passed.
* `PaperRestart`: two wallets (the default one and that of a deployment), an
  order that may fill twice, a reset, two ends of the process (the second may hit
  a save that follows a torn restore).
* `Gateway`: two browsers, one of which may be slow or die, two tickers and a
  book, one flush task.  The limit per address (`MaxPerIp` = 2) is reached when a
  dead client has not been dropped.  Several flush tasks, and a third browser,
  have been explored apart from the run.

The theorems of section 7 need none of the bounds: they hold for all values the
named assumptions allow (finite sets of orders, browsers and the like, bounds that
are any natural number).  The last four of `PaperEngineProofs` are about callbacks
that return.

## 5 Fairness

Safety runs assume none.

* `PaperEngine`, `paper_callbacks`: strong fairness of `Resume(t)` for each
  task.  The event loop runs every coroutine that is ready, and `asyncio.Lock`
  serves its waiters in order, so one that waits for a lock released again and
  again gets it.  Clients and ticks are not forced to do anything.
* `WsLink`: weak fairness of the coroutines that are ready (receive loop,
  manager wake-ups, rest of connect, end of the close handshake, which has a
  timeout).  `OpenSocket` is strongly fair: a venue that is asked again and again
  is not unreachable for ever; and so is finishing a connect on a connection
  still open: not every connection dies in its first moments.  Both are
  assumptions about the venue, not about the code; without them the code does
  not recover and could not.  `ws_stall` uses the same assumptions.
* `VenueLink`: the same, for each of its sockets (`LinkFairness`); strongly fair
  are opening, opening the last socket while the others are still up, and
  subscribing after a login while they are.
* The other modules state no liveness.  That a stream of the agent ends is
  stated as safety (`ListenersHearTheEnd`: the end mark is ahead), since the
  code's part of it is to put the mark there.

## 6 Deadlock

Deadlock is not checked in any run, since all these systems may stop:
`PaperEngine` has no step left when all orders of the bound are used and every
account is deleted, the links may be stopped or have given up (both end the
reconnect task for good), `StrategyRunner` runs out of bars and restarts,
`L2Book` out of updates, and the components of `services` out of requests,
bars, turns and connections.  That no *call* is stuck is a property of its own
(`EveryCallReturns`), and so is that no link is (`LostLinkRecovers`,
`LostSocketRecovers`).

## 7 The proofs

Eight modules hold theorems, each for all values of the constants that the named
assumption of the module they speak of allows.

| module | speaks of |
|---|---|
| `PaperEngineProofs` | `PaperEngine`, and that it implements `OrderLifecycle` |
| `ExchangeProofs` | `WsLink`, `VenueLink`, `MCLinks`, and that both links implement `ReconnectLoop` |
| `L2BookProofs` | `L2Book` |
| `StrategyProofs` | `StrategyRunner`, and that it implements `DeploymentRegister` |
| `GatewayProofs` | `BacktestJobs`, `Gateway`, `StrategyStore` |
| `AgentProofs` | `AgentTurns`, `ReactLoop`, `LiveEngine` |
| `ServicesProofs` | `PaperRestart`, `PolyBridge`, `Backtest`, `KlinePager`; `MCServices`, with the two modules before |
| `DataFacts` | sums, sequences and `Without`, whatever the system |

Every type invariant and every safety invariant that a passing run checks is the
conclusion of a theorem, and so are the action properties and the refinements.
What tlapm takes for a step grows with all that the module extends, which is why the
ten components of `MCServices` are spread over three modules.  Each theorem has the same shape: an inductive
invariant, a lemma that the initial states have it, one lemma for each action or
group of actions that keeps it, and the property as a consequence.  What follows
is what each invariant adds and why it is needed.

### PaperEngine

For all accounts, tasks, requests and prices, and whatever callbacks do:

* `TypeCorrect`: the types, of which the substantial part is that no sequence of
  fills makes a position's quantity negative;
* `OrdersExecutedOnce`: `ExecutedExactlyOnce`;
* `PlacementsHoldLock`: `LockHeldByPlacement`;
* `FinalOrders`: `FinalUnlessForced`.

`ExecutedExactlyOnce` is not inductive: a task that is about to fill an order
must be known to hold an order that exists, and an order that is not filled must
be known to have nothing filled.  `OrderShape` says the latter, `TaskShape` what
each program counter says about a task's locals; together with the type
invariant and the lock they form `IInv`.  The same invariant carries
`FinalOrders`: of all the steps that write an order only `ForceFillMarketOrder` writes one that
may be cancelled, and what it writes is the order of its own placement.

For callbacks that return, `CallbackOutcomes = {"return"}`, which is the wiring of
`main.py`:

* `StatementsReconcile`: `StatementReconciles`;
* `PositionsNetFills`: `PositionNetsFills`;
* `TicksSettle`: `TickSettlesTriggeredOrders`;
* `ImplementsLifecycle`: `LifecycleSpec`, every step is a step of
  `OrderLifecycle` or a stutter.

The hypothesis is needed: a call that is suspended, or whose callback raises,
between recording a fill and booking it leaves a statement that does not
reconcile, and a market order whose placement is suspended may be cancelled and
then filled all the same.  What it buys is `Solo`: one call runs from its start to
its end before the next, so that what it took from the state is still so when it
goes on.
`ShapeOf` and `SettlesOf` say what that is (the second, that a tick has settled
every order it has not yet to scan); `DueOf` is the cash the call has yet to book,
and with it an account is explained in the middle of a call too: balance and what
is due equal the initial balance, the sum of what the fills booked, and the margins that
cancellations released.  Every step changes both sides by one term: a fill
appends one to the sums over the history (`FilledExplained`), a cancellation adds
one to the margins released (`CancelledExplained`), a reset empties both
(`FreshExplained`).  The refinement maps an order to its stage and the number of
its fills; only a fill changes the number, and only of an open order, hence the
step is `Execute`.

### Links and the live engine

For any streams, restart limit and ways a venue may close a connection, of
`WsLink`: `StreamsServed`, `LinkWatched`, `SingleLink`, `StopReleases`.  `WsInv`
adds `ConnectsFromRest` (which program counters of the manager go with an open
socket or a receive loop), `EventIsFresh` (a set disconnect event belongs to a
connection that is over), `StopProgress` (how far stop has come) and
`WatchdogStarted`.  Without `EventIsFresh` a stale event would wake the manager
while the connection it belongs to is not the current one.

`BinanceLoop` and `VenueLoops` show that both links implement `ReconnectLoop`.
A stop closes the socket, which wakes the manager like any other loss; what keeps it
from connecting again is that it looks at the shutdown event first, and
`StopProgress` says that this event is set as long as a stop goes on.  `LinksTypes`
and `LoopsAsPromised` are about both links side by side, as `MCLinks` gives them to
TLC.

For each of the three clients of `VenueLink`: `LinkTypes`, `VenueServes`,
`HaltReleases`.  A client that opens a socket has none of that name open, because
the public client clears its sockets first (`PublicLink`) and the private ones
open theirs only when the old one is down (`PrivateLink`); a stop that finds the
manager between two sockets has closed all but the one being opened
(`HaltProgress`).

For any finite set of orders, any executions, losses of the stream, rounds of the
reconciliation, cancellations and answers, of `LiveEngine`:

* `LiveTypes`, `Executions`, `AnsweredOrders`.

What the engine has booked of an order and what the queued events still report of
it add up to what the venue has executed, and to no more after a loss (`Books`).
As long as nothing was lost the last queued event of an order tells of its state
at the venue (`Tells`); taking that one off the queue is what makes the engine's
order agree.  `MapsLeadToRecords`, `VenueFollowsPlacing` and `CancelAccepted` say
what the id maps, a placement and a cancellation under way know.

### L2Book

For any number of updates, losses, subscriptions and connections, with or without
failing snapshot requests:

* `TypeCorrect`; `HonestSequenceId` (spot and futures); `HolesAtJoint` and
  `RecoveryCloses` (futures, where a delta names its predecessor).

`RecoveryClosesGap` speaks of the first delta after a recovery's snapshot and is
far from inductive.  Its argument: when the recovery asks, the stream is at most
where the venue is (`NotAhead`, `StreamOrdered`); whatever the stream gets to
later is lost or queued, because nobody reads while the recovery waits
(`RecoveryHeld`); a snapshot that is older than the moment it arrives is still no
older than the request; and the stream does not restart further on behind the
loop's back, since a connection with a waiting loop is streaming already or is
over (`RecoveryOnStream`).  `BookShape` says what a book reflects in terms of
`base` and `joint`; `CallShape` that nobody uses the book of a call not made.

### Strategies

For any deployments, strategies, bars and restarts, of `StrategyRunner`:

* `RunnerTypes`, `NeverDeployedTwice`, `StopsAreFinal`, `DeploymentsSurvive`,
  `NoSignalLost`.

The invariant adds what a restart may find: a slot that is not warming up is in
the file (`WarmOnDisk`, also while restoring, when the stated property is
silent), what is still to be restored has no slot, no signal and was not stopped
(`UnreadIsFresh`), a process that is down has nothing in memory (`DownIsEmpty`),
and an id that was never handed out is nowhere (`UsedOnly`).  A bar counts
a signal of a deployment or an error of its runtime, never both, which is all that
`NoSignalLost` needs of runtimes that raise.  `BarsBoundSignals`
is for the types: what an account holds is bounded by the bars there were.

`DeploymentsAsPromised` is the refinement, `RegisterSpec`.  `StagesRead` computes
the stage of a deployment from the concrete state once and for all, so that the
lemma of each action (`RequestMapped`, `SettleMapped`, `StopMapped`, `FallMapped`,
`RecoverMapped`) argues about stages only.  That no strategy is deployed twice
while the process is down or restoring needs more than the invariant above: the
file itself, and what a restore has yet to read together with the slots, hold one
deployment of a strategy each (`OneRecorded`).

For any strategies, any number of requests that overlap in any way, and any
number of restarts, of `StrategyStore`:

* `AnsweredEditsStay`, `RunningIsRecorded`, `StoreTypes`.

An answered edit could be missing from the history only if the foreign key had
refused its snapshot.  So the invariant follows the row: whatever a client knows,
or a handler has read, has a row or a save of one in the queue (`KnownIsSaved`,
for a strategy being created a task at least, `CreationsAreSaved`), hence a
snapshot of an edit joins the queue behind the save, and the order of the write
lock keeps it there (`SnapshotsComeAfter`).  Only a delete takes a row away, and
then the strategy is deleted for the client too (`WritesShape`).  For the
deployments, `OneUnderLock` says that the endpoint has one deploy between the
read and the end of the warm-up, and `WarmsAlone` that no deployment
of that strategy is recorded as running meanwhile: what the read found was stopped,
and the agent records nothing.  `HandlerKeeps` is the step of
any handler: it appends writes and tasks of its own and touches its own request.

### Services

For any wallets, orders, resets, failing writes and ends of the process, of
`PaperRestart`: `FillsComeBackBooked`, `RestartTypes`.  The argument is the order
in which `save_state` writes: at every moment the accounts file is no older than
the orders file, that one no older than the positions file, and that one no older
than the fills file.  `Consistent` says what parts of such ages have in common; it
holds of the files always, of the memory, and therefore of a memory loaded from
the files.  `Agreeing` is the stronger relation of files of one save.  That the
order matters shows in the mutant: a save that begins with the fills breaks the
property.

For any browsers, tokens, clients, sockets and reconnect loops, of `PolyBridge`:
`TokensServed`, `BridgeTypes`.  A client believes to hold a socket only after it
was opened (`HeldSocketsAreOpened`), and one that was not made yet has recorded
nothing (`NewClientsAreEmpty`); hence a socket that is opened is held by nobody
else, and serves what its client has recorded from the first moment.

For all prices, costs, stops and numbers of bars, of `Backtest`:
`CashIsExplained`, `PortfolioFollows`, `StopsHold`, `BacktestTypes`.  The three
properties are inductive together with the types and the runtime's first bars:
what an order does depends only on the signs of the holding and the cash, and the
sign of the holding is what `PortfolioFollowsRuntime` ties to the runtime.  The
rest is arithmetic on products, which the lemmas spell out.

For any number of calls, sizes of pages and of the cache, and bars that open
meanwhile, of `KlinePager`: `PagesAlwaysJoin`, `PagerTypes`.  The bars of a call
are the last ones of those its first page saw (`AsSeen`), its cursor is just
before them (`Paging`), and only a page that reached the first bar is
short; so what a call returns is as long as it asked for or there is no more
(`Returned`).

`MCServices` puts these components and those of the next sections side by side.
`ComponentsByThemselves` says that each of the ten behaves there as its own
specification says, so that every theorem about one is a theorem of the instance
that the run `services` checks; `ServicesTypes` is the first of them, its
type invariant.

### Backtest jobs and the fan-out

For any backtests, sizes of the tables and restarts, of `BacktestJobs`:
`FinishedFound`, `DeletedFinal`, `JobsTypes`.  A finished backtest is found because
its row is there or its save waits, whatever the tables evicted
(`FinishedInDatabase`).  A deleted one stays away because writes keep their order:
behind every row and every waiting save waits a delete (`DeleteBehind`), which no
later save can follow, since nothing that was deleted when finished finishes
again (`FinishedWhenDeleted`, `DeletesAreOfDeleted`).  A delete that raised is the
exception in both the property and the invariant (`undeleted`): it leaves the queue
and the row stays.

For any browsers, slow or mortal, any limit and any number of events, of
`Gateway`: `SubscribersReached`, `CountsMatch`, `GatewayTypes`.  The clients a
broadcast has yet to visit are in the order of the connections (`CastsOrdered`),
and whatever a subscriber is owed is in such a rest (`OwedComes`).  Of two
broadcasts of one kind the older is ahead: the client it waits on, and all that it
has yet to visit, are what the newer one has yet to visit, or the newer waits
behind it (`Follows`, in `InTurn`).  A broadcast never gets past a client on whom
another waits, so none overtakes, until such a client leaves, which is where the
property stops to promise an order (`jumped`).  `NumbersGrow` says that events are
numbered in the order they begin; `ClientsPlaced`, `CastsPlaced` and
`CountsBounded` what the endpoint of a client says about its entries.

### The agent

For any sessions, requests and turns of any length, of `AgentTurns`:
`OnlyTheInFlightMissed`, `EndHeard`, `TurnsTypes`.  `Tended` says of one turn, as long as
no two streams shared it, that its stream waits on its queue, that the end mark
comes when nobody feeds that queue any more, and where its events are: the
stream's slice begins at the cursor, and what was collected beyond the slice is
in the queue.  A client that goes moves events from what reached it to what was
lost, and nowhere else (`Given`, `BrokenOff`), so an event behind the cursor was
yielded to somebody.  No other turn and no stream of one touches its queue
(`QueuesPlaced`), and only a turn that is still fed is resumed (`SessionsPlaced`);
`StreamsPlaced` and `TurnsPlaced` say what the states of a stream and a turn go
with.

For any numbers of messages, calls, rounds and turns, any compactions and any
answers of the model, of `ReactLoop`: `RequestsAnswerable`, `ReactTypes`.  In a
conversation the messages of users come before all calls (`UsersFirst`), so the one
that a compaction takes out to put it in front never stood between a call and its
results.  From the first call on, what a compaction leaves therefore is the end of
what there was (`Aligned`), and results follow their call; while results are still
to come, `Acting` says which.  `CallsSoFar` bounds the numbers of the calls, for
the types.

### Data

The library defines a sum over a finite set, and `SeqWithout` what is left of a
list, as the value of a recursive equation.  Its theorem that recursion has a
solution is stated by an operator parameter, which no installed prover takes; so
`DataFacts` proves existence and uniqueness for these two from
well-foundedness: among the places where two solutions would differ, or where there
is none, take a least one, by strict inclusion of subsets or by `<`.  What the
sum does when a term changes, a member is added or members are renamed
(`SumExcept`, `SumAdd`, `SumRename`), and what `Without` leaves
(`WithoutProperties`), follow, and carry the sums of `PaperEngine` and
`LiveEngine` and the lists of `BacktestJobs`, `Gateway` and `AgentTurns`.

### Model-checked only

* `LostLinkRecovers`, `LostSocketRecovers` and `EveryCallReturns`: liveness under
  fairness is out of the prover's reach.
* The properties that a run shows violated: they do not hold.
* What the paper engine keeps when callbacks suspend or raise, beyond the four
  theorems for any callbacks.

## 8 Disagreements found

Those with a run that expects a violation, quoted in `PROJECT.json`: margin
released that was never frozen (`paper_cancel`), orphaned orders
(`paper_orphan`), the silent end of a stalled connection (`ws_stall`), reconnects
without limit (`ws_storm`), exits booked on the opposite side (`runner_short`),
books joined to their stream with a hole (`l2_joint`).

The passing properties step around others in the open; `PROJECT.json`
("findings") quotes code and comment for each:

* `AnsweredEditsAreInHistory`: the snapshot of version 1 of a new strategy is
  refused by the foreign key and the refusal swallowed; cache and table are not
  "synced on each mutation".
* `AnsweredOrdersAgree`: reconciliation is no fallback for orders it knows.
* `RecordedTokensServed`: the "shared" Polymarket connection is forgotten without
  being closed, and then there are two.
* `DeploymentsAreRecorded`: the agent's deploy builds its record without the
  required `created_at`; the error is swallowed, and the strategy trades without
  being recorded or shown as running, though the agent says it is deployed.
* `DeletedStaysDeleted`: a delete that raises in the database is logged and
  answered "deleted", while the row is still found; a backtest deleted while it
  runs comes back.
* `OnlyInFlightIsMissed`: the cursor moves before an event is sent, so what was on
  its way to a client that was gone is in no later replay; a client that returns
  before the server has noticed shares the turn with its own dead stream; a turn
  that ends during its replay loses the events of the meantime; leftovers of a
  queue are replayed twice.
* `RequestsAreAnswerable`: a compaction may cut the question that is being
  answered, and leave tool messages whose call is gone.
* `RestoredFillsAreBooked`: a save cut short charges an order twice; a restored
  deployment may trade for an account that no longer exists.
* `CountsMatchConnections`: a count read before an awaited accept is written after
  it; a refusal that raises leaks its entry.
* `BroadcastsReachSubscribers`: several flush tasks run where one was meant, so
  the throttle is a multiple of "4 broadcasts/s".
* `VenueServesRecorded`, `HaltReleasesSockets`, `LostSocketRecovers`: Binance's
  private client does not log in again after a loss; a terminated user stream
  does not reconnect; closing OKX's client while its second socket opens forgets
  that socket; liquidations are logged as subscribed when they are not.

`StatementReconciles` counts what cancellations released and leaves the default
account out, `LostLinkRecovers` excludes a connection closed in order.

Noted while reading, and visible in the models without a property of their own:

* A deploy saves the configuration it read before its warm-up over edits made
  meanwhile (`strategies.py:741`).
* An order the live engine heard of first from an event keeps a second record for
  ever; cancelling that record cancels in the engine only (`live_engine.py:166`);
  a balance fetched by a round overwrites a newer one.
* `main.py:454` passes `client=` to the live engine, whose parameter is
  `trading_client`.
* Unsubscribing one browser ends the polling of a token for all (`ws.py`,
  `_poll_subscribed_tokens`); an orderly close ends Polymarket's receive loop
  without a word; a reconnect loop that sleeps opens a socket for a closed client.
* A backtest entry without cash leaves the runtime long beside an empty
  portfolio; stops are measured on the close, not the fill.
* Evicting a running backtest takes it out of the limit on concurrent ones; the
  agent's results are not limited at all.
* A producer cancelled before its first step puts no end mark, and two streams of
  one turn share one.
* `OKXSource.unsubscribe` leaves the trades channel subscribed; OKX's private
  client keeps `_authenticated` after an orderly close.
* One slow client of a broadcast delays all later ones of the same broadcast.

## 9 Not modelled

The models are about a tenth of the implementation's lines.  The rest is, by
size: request handlers that validate and format; data classes; clients that sign
and parse; prompts, tools and adapters of the language model; indicators and
metrics; infrastructure nobody constructs; the command line.  In particular:

* Numeric code: indicators, metrics, curves, fees in floating point.  Sequential
  and deterministic; unit tests reach it.
* Parsing, signing, formatting, SQL beyond the statements named, UI, the content
  of what a language model says.
* Time as a quantity: rate limits, time-to-live, backoff lengths.  The models let
  any amount pass.
* `deployments.json` is written in one step; the code's `write_text` is not
  atomic.
* In `StrategyRunner` all orders have one size and bars are not ordered: the
  historical bars arriving after live ones, whose signals are dropped
  (`strategy_runner.py:281`).  A runtime raises before its position moves; one that
  raised half-way through its bookkeeping would leave a position without a signal.
* Hazards of `PROJECT.json` that a model contains and no property covers: callers
  that see a fill between its execution and its booking
  (`paper_execution.py:495`); a position closed twice, which flips it, and no
  document says what a second click should do (`api/v1/paper.py:655`); the count
  of an address that an awaited accept overtakes, which `CountsMatchConnections`
  excepts (`ws.py:99`).
* Hazards seen beyond those: margin is checked at placement only, so
  two resting orders may pass the check of one balance
  (`paper_execution.py:184`); a callback that raises after `update_fill` leaves
  the position open and the balance unbooked (`paper_execution.py:493`); each
  deployment of a restore rewrites `deployments.json` with the slots restored so
  far (`strategy_runner.py:537`); handlers of the event bus that are coroutines
  overtake each other (`event_bus.py:82`); a Retry-After that arrives while the
  rate limiter sleeps for an earlier one is cleared with it (`rate_limiter.py`);
  the file lock tests, removes a stale file and writes its own in three steps.
* Users: every model has one, since ids are unique over all users.

## 10 The plan

Done: the paper engine with its abstract specification and its restarts, the
links, the Polymarket bridge, the runner, the strategies' storage, the L2 book,
the live engine, backtests and their jobs, the history, the agent's turns and
conversation, the fan-out; proofs for all of them (section 7).

Next, most important first:

1. Market-data sources above the links: adding and removing symbols while a start
   or a stop is under way (`service.py`, `binance_source.py`).
2. The streaming adapters of the language model: tool calls assembled from
   deltas, retries in the middle of a stream.
3. The trading endpoints of Polymarket and the settings service.
4. The risk rules and the kill switch, once a service path uses them.
5. `L2Book` on a spot stream against an abstract book that equals the venue's.

Theorems worth proving next: that `PaperEngine` with callbacks that suspend still
refines `OrderLifecycle` but for the case `FinalUnlessForced` names; that `VenueLink`
never has more than one reader of a socket; abstract specifications of `L2Book`
(the venue's book, delayed) and of a `Gateway` subscription (a queue that loses
only its end), and that the models implement them.
