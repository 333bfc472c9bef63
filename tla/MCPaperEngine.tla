---------------------------- MODULE MCPaperEngine ----------------------------
(***************************************************************************)
(* TLC instances of PaperEngine.                                           *)
(***************************************************************************)
EXTENDS PaperEngine

CONSTANTS dflt, other

GainOrLoss == {-1, 3}
GainOnly == {1}

Req(acct, side, type, qty, price, stop, mark, lev, posSide, reduce) ==
    [acct |-> acct, side |-> side, type |-> type, qty |-> qty, price |-> price,
     stop |-> stop, mark |-> mark, lev |-> lev, posSide |-> posSide, reduce |-> reduce]

\* One account trades every order type in hedge mode and in net mode, with an
\* over-sized opposite order that flips; the default account trades at market.
AllKindsOfRequests == {
    Req(other, "buy",  "market",      2, NoPrice, NoPrice, 1, 1, "long",  FALSE),
    Req(other, "sell", "stop_market", 2, NoPrice, 1, NoPrice, 1, "long",  TRUE),
    Req(other, "buy",  "limit",       2, 1, NoPrice, NoPrice, 1, "net",   FALSE),
    Req(other, "sell", "market",      4, NoPrice, NoPrice, NoPrice, 2, "net",  FALSE),
    Req(other, "sell", "stop_limit",  4, 1, 2, NoPrice, 2, "short", FALSE),
    Req(dflt, "buy",  "market",      2, 2, NoPrice, NoPrice, 1, "net",   FALSE)}

\* Two placements and a resting order that contend for one account.
ContendingRequests == {
    Req(other, "buy",  "market", 2, NoPrice, NoPrice, 1, 1, "long", FALSE),
    Req(other, "buy",  "limit",  2, 1, NoPrice, NoPrice, 1, "long", FALSE)}

\* One hedge-mode limit order.
LimitRequests == {Req(other, "buy", "limit", 2, 1, NoPrice, NoPrice, 1, "long", FALSE)}

===============================================================================
