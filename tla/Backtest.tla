------------------------------ MODULE Backtest ------------------------------
(***************************************************************************)
(* A backtest: BacktestEngine.run pushes bars to a StrategyRuntime, turns  *)
(* its signals into market orders, and books their fills in a Portfolio.   *)
(*                                                                         *)
(* The runtime and the engine each keep a position of their own.  They     *)
(* only meet in the signals: the runtime never learns whether a signal     *)
(* became an order.                                                        *)
(*                                                                         *)
(* Abstractions: one symbol; money and quantities are integers, so that a  *)
(* slipped price and a fee are rounded down to the unit and a quantity up; *)
(* whether the conditions of a rule are met on a bar is left open (before  *)
(* Warmup bars they are not); metrics, curves and times are left out.      *)
(***************************************************************************)
EXTENDS Integers

CONSTANTS
    ClosingPrices,  \* closing prices of bars
    InitialCash,    \* BacktestConfig.initial_cash
    SlippageBps,    \* FixedSlippage
    FeeBps,         \* PercentageCommission
    StopLosses,     \* stop_loss_pct of strategies, in percent, or NoLimit
    TakeProfits,    \* take_profit_pct of strategies, in percent, or NoLimit
    Warmup,         \* bars after which every indicator has a value
    KeptBars,       \* max_bars of the runtime
    NoLimit,        \* no stop-loss, no take-profit
    Length          \* bound: bars of a backtest

ASSUME BacktestAssumption ==
    /\ ClosingPrices \subseteq Nat \ {0}
    /\ InitialCash \in Nat \ {0}
    /\ SlippageBps \in Nat /\ FeeBps \in Nat
    /\ NoLimit \notin Int
    /\ StopLosses \subseteq Nat \cup {NoLimit}
    /\ TakeProfits \subseteq Nat \cup {NoLimit}
    /\ Warmup \in Nat /\ KeptBars \in Nat \ {0} /\ Length \in Nat

VARIABLES
    strategy,      \* direction and risk parameters, fixed for the backtest
    bars,          \* how many bars the runtime keeps
    runtime,       \* _position and _entry_price of the runtime
    cash, holding, \* the portfolio's cash, and its quantity: negative when short
    entry,         \* price and fee of the fill that opened the holding
    realised,      \* total pnl of the trade records
    lastClose,     \* price of the last closed bar
    seen           \* bars pushed so far

portfolioVars == <<cash, holding, entry, realised>>
backtestVars == <<strategy, bars, runtime, portfolioVars, lastClose, seen>>

Positions == {"flat", "long", "short"}
Signals == {"BUY", "SELL", "none"}

BacktestTypeOK ==
    /\ strategy \in [direction: {"long_only", "short_only", "neutral"},
                     stopLoss: StopLosses, takeProfit: TakeProfits]
    /\ bars \in 0..KeptBars
    /\ runtime \in [position: Positions, entry: Nat]
    /\ cash \in Int /\ holding \in Int /\ realised \in Int
    /\ entry \in [price: Int, fee: Int]
    /\ lastClose \in Nat
    /\ seen \in 0..Length

\* strategy.reset() and a new portfolio.
BacktestInit ==
    /\ strategy \in [direction: {"long_only", "short_only", "neutral"},
                     stopLoss: StopLosses, takeProfit: TakeProfits]
    /\ bars = 0
    /\ runtime = [position |-> "flat", entry |-> 0]
    /\ cash = InitialCash /\ holding = 0 /\ realised = 0
    /\ entry = [price |-> 0, fee |-> 0]
    /\ lastClose = 0
    /\ seen = 0

-------------------------------------------------------------------------------
(* StrategyRuntime.on_kline *)

AllowLong == strategy.direction \in {"long_only", "neutral"}
AllowShort == strategy.direction \in {"short_only", "neutral"}

\* Gain of the runtime's position at close, in percent times its entry price.
Gain(close) == IF runtime.position = "short" THEN 100 * (runtime.entry - close)
                                             ELSE 100 * (close - runtime.entry)

RiskClosesUnsigned(close) ==
    /\ runtime.position # "flat"
    /\ LET gain == 100 * (close - runtime.entry)
       IN  \/ strategy.stopLoss # NoLimit /\ gain <= -(strategy.stopLoss * runtime.entry)
           \/ strategy.takeProfit # NoLimit /\ gain >= strategy.takeProfit * runtime.entry

\* _check_risk.
RiskCloses(close) ==
    /\ runtime.position # "flat"
    /\ \/ strategy.stopLoss # NoLimit /\ Gain(close) <= -(strategy.stopLoss * runtime.entry)
       \/ strategy.takeProfit # NoLimit /\ Gain(close) >= strategy.takeProfit * runtime.entry

ExitAsEntry(p) == IF p = "long" THEN "BUY" ELSE "SELL"
Exit(p) == IF p = "long" THEN "SELL" ELSE "BUY"
Enters(p, close) == runtime' = [position |-> p, entry |-> close]

\* The signal of a bar, and what it makes of the runtime's position.  The entry
\* price outlives the position it belongs to.
OnKline(close, signal) ==
    IF bars' < 2 THEN signal = "none" /\ UNCHANGED runtime
    ELSE IF RiskCloses(close)
    THEN signal = Exit(runtime.position) /\ runtime' = [runtime EXCEPT !.position = "flat"]
    ELSE \/ signal = "none" /\ UNCHANGED runtime
         \/ /\ bars' >= Warmup
            /\ \/ /\ runtime.position = "flat" /\ AllowLong
                  /\ signal = "BUY" /\ Enters("long", close)
               \/ /\ runtime.position = "flat" /\ AllowShort
                  /\ signal = "SELL" /\ Enters("short", close)
               \/ /\ runtime.position # "flat"
                  /\ signal = Exit(runtime.position)
                  /\ runtime' = [runtime EXCEPT !.position = "flat"]

-------------------------------------------------------------------------------
(* The broker and the portfolio *)

Slipped(close, side) == IF side = "BUY" THEN (close * (10000 + SlippageBps)) \div 10000
                                        ELSE (close * (10000 - SlippageBps)) \div 10000
Fee(price, quantity) == (price * quantity * FeeBps) \div 10000

\* What 95 % of the cash buys at the close: positive exactly when the cash is.
Affordable(close) == IF cash > 0 THEN (cash * 95) \div (close * 100) + 1 ELSE 0

OpenFeeless(side, price, fee, quantity) ==
    /\ cash' = IF side = "BUY" THEN cash - (price * quantity + fee) ELSE cash + (price * quantity)
    /\ holding' = IF side = "BUY" THEN quantity ELSE -quantity
    /\ entry' = [price |-> price, fee |-> fee]
    /\ UNCHANGED realised

\* apply_fill of an opening order, and what the engine keeps for the trade record.
Open(side, price, fee, quantity) ==
    /\ cash' = IF side = "BUY" THEN cash - (price * quantity + fee) ELSE cash + (price * quantity - fee)
    /\ holding' = IF side = "BUY" THEN quantity ELSE -quantity
    /\ entry' = [price |-> price, fee |-> fee]
    /\ UNCHANGED realised

\* apply_fill of the order that closes the whole holding, and its trade record.
CloseLong(price, fee) ==
    /\ cash' = cash + (price * holding - fee)
    /\ holding' = 0
    /\ realised' = realised + ((price - entry.price) * holding - entry.fee - fee)
    /\ UNCHANGED entry

CloseShort(price, fee) ==
    /\ cash' = cash - (price * (-holding) + fee)
    /\ holding' = 0
    /\ realised' = realised + ((entry.price - price) * (-holding) - entry.fee - fee)
    /\ UNCHANGED entry

Ignore == UNCHANGED portfolioVars

\* A signal meets the portfolio, whatever the runtime meant by it.
Execute(signal, close) ==
    LET price == Slipped(close, signal)
    IN  CASE signal = "none" -> Ignore
          [] signal = "SELL" /\ holding > 0 -> CloseLong(price, Fee(price, holding))
          [] signal = "BUY" /\ holding < 0 -> CloseShort(price, Fee(price, -holding))
          [] signal # "none" /\ holding = 0 /\ Affordable(close) > 0 ->
                Open(signal, price, Fee(price, Affordable(close)), Affordable(close))
          [] OTHER -> Ignore

-------------------------------------------------------------------------------
(* The event loop of run *)

ClosedBar(close) ==
    /\ seen < Length
    /\ seen' = seen + 1
    /\ bars' = IF bars = KeptBars THEN bars ELSE bars + 1
    /\ lastClose' = close
    /\ \E signal \in Signals : OnKline(close, signal) /\ Execute(signal, close)
    /\ UNCHANGED strategy

\* A bar that is still forming gives no signal.
FormingBar ==
    /\ seen < Length
    /\ seen' = seen + 1
    /\ UNCHANGED <<strategy, bars, runtime, portfolioVars, lastClose>>

BacktestNext == FormingBar \/ \E close \in ClosingPrices : ClosedBar(close)

BacktestSpec == BacktestInit /\ [][BacktestNext]_backtestVars

-------------------------------------------------------------------------------
(* Properties *)

\* The trade records and the open fill explain the cash to the unit: the fees
\* and the entry price the engine remembers are those the portfolio booked.
TradesExplainCash ==
    cash = InitialCash + realised
             - IF holding = 0 THEN 0 ELSE holding * entry.price + entry.fee

\* The portfolio holds what the runtime believes it holds, except that nothing is
\* entered without cash, and the exit that follows then opens nothing either.
PortfolioFollowsRuntime ==
    /\ holding > 0 => runtime.position = "long"
    /\ holding < 0 => runtime.position = "short"
    /\ holding = 0 /\ runtime.position # "flat" => cash <= 0

\* After a closed bar no holding is beyond its stop, measured as the runtime
\* does: from the close it entered at, not from the fill.
StopHonoured ==
    holding # 0 /\ strategy.stopLoss \in Nat \ {0}
        => Gain(lastClose) > -(strategy.stopLoss * runtime.entry)

=============================================================================
