---------------------------- MODULE PaperRestart ----------------------------
(***************************************************************************)
(* What of paper trading survives the process: four files, each replaced   *)
(* atomically but one after the other, by an autosave every minute and at  *)
(* shutdown, and deployments.json, which the strategy runner rewrites with *)
(* each deployment and whose entries name wallets of accounts.json.        *)
(*                                                                         *)
(* PaperEngine has the engine itself; here an order is placed, fills,      *)
(* resting or at once, or is cancelled, in one step, as it does with the   *)
(* callbacks main.py wires.  A balance and a position are the sets of the  *)
(* fills that went into them.  A save runs without suspending: only the    *)
(* end of the process or a failing write comes between two files.  A       *)
(* shutdown is a save and the end of the process.                          *)
(*                                                                         *)
(* Abstractions: deletion of wallets, margins, what a cancellation         *)
(* releases, stopping a deployment (see PaperEngine, StrategyRunner).      *)
(***************************************************************************)
EXTENDS Integers

CONSTANTS
    Wallets,         \* account ids
    DefaultWallet,   \* the account that start() creates when there is none
    PaperOrders,     \* order ids, each used once
    MaxFills,        \* bound: fills of one order, over all restarts
    MaxResets,       \* bound: resets of one wallet
    MaxKills         \* bound: ends of the process

ASSUME PaperRestartAssumption ==
    /\ DefaultWallet \in Wallets
    /\ {MaxFills, MaxResets, MaxKills} \subseteq Nat

VARIABLES
    up,            \* the process runs
    ledger,        \* the account manager: wallets, how often reset, fills charged
    book,          \* the order manager; "none" stands for no order
    holdings,      \* the position manager: the fills a wallet's positions net
    history,       \* the engine's _fills
    deployments,   \* wallets of the runner's slots
    files,         \* accounts.json, orders.json, positions.json, fills.json, deployments.json
    saving,        \* files written by the save under way
    whole,         \* history: the four files come from one save
    split,         \* history: a start has read files of two saves
    opened,        \* history: wallet ids handed out
    lostWallets,   \* history: wallets of restored deployments that were not saved
    minted,        \* history: fills of each order
    kills

restartVars == <<up, ledger, book, holdings, history, deployments, files, saving, whole, split,
                 opened, lostWallets, minted, kills>>

FillRecords == [order: PaperOrders, nth: 1..MaxFills, wallet: Wallets, life: 0..MaxResets]
WalletRecords == [exists: BOOLEAN, life: 0..MaxResets, charged: SUBSET FillRecords]
OrderRecords == [wallet: Wallets, status: {"none", "open", "filled", "cancelled"}]

NoWallet == [exists |-> FALSE, life |-> 0, charged |-> {}]
NoOrder == [wallet |-> DefaultWallet, status |-> "none"]
NoAccounts == [w \in Wallets |-> NoWallet]
NoOrders == [o \in PaperOrders |-> NoOrder]
NoHoldings == [w \in Wallets |-> {}]

RestartTypeOK ==
    /\ up \in BOOLEAN /\ whole \in BOOLEAN /\ split \in BOOLEAN
    /\ ledger \in [Wallets -> WalletRecords]
    /\ book \in [PaperOrders -> OrderRecords]
    /\ holdings \in [Wallets -> SUBSET FillRecords]
    /\ history \subseteq FillRecords
    /\ deployments \subseteq Wallets /\ opened \subseteq Wallets /\ lostWallets \subseteq Wallets
    /\ files \in [accounts: [Wallets -> WalletRecords], orders: [PaperOrders -> OrderRecords],
                  positions: [Wallets -> SUBSET FillRecords], fills: SUBSET FillRecords,
                  deployments: SUBSET Wallets]
    /\ saving \in 0..3
    /\ minted \in [PaperOrders -> 0..MaxFills]
    /\ kills \in 0..MaxKills

WithDefault(accounts) ==
    IF accounts[DefaultWallet].exists THEN accounts
    ELSE [accounts EXCEPT ![DefaultWallet] = [exists |-> TRUE, life |-> 0, charged |-> {}]]

RestartInit ==
    /\ up = TRUE
    /\ ledger = WithDefault(NoAccounts)
    /\ book = NoOrders /\ holdings = NoHoldings /\ history = {}
    /\ deployments = {}
    /\ files = [accounts |-> NoAccounts, orders |-> NoOrders, positions |-> NoHoldings,
                fills |-> {}, deployments |-> {}]
    /\ saving = 0 /\ whole = TRUE /\ split = FALSE
    /\ opened = {DefaultWallet} /\ lostWallets = {}
    /\ minted = [o \in PaperOrders |-> 0]
    /\ kills = 0

\* The event loop is free: no save is under way.
Free == up /\ saving = 0

-------------------------------------------------------------------------------
(* Trading *)

\* A deployment, like POST /paper/accounts, makes a wallet in memory.
OpenWallet(w) ==
    /\ Free /\ w \notin opened
    /\ opened' = opened \cup {w}
    /\ ledger' = [ledger EXCEPT ![w].exists = TRUE]
    /\ UNCHANGED <<up, book, holdings, history, deployments, files, saving, whole, split,
                   lostWallets, minted, kills>>

\* After its warm-up the deployment is in deployments.json, at once.
DeploymentSaved(w) ==
    /\ Free /\ ledger[w].exists /\ w # DefaultWallet
    /\ deployments' = deployments \cup {w}
    /\ files' = [files EXCEPT !.deployments = deployments']
    /\ UNCHANGED <<up, ledger, book, holdings, history, saving, whole, split, opened, lostWallets,
                   minted, kills>>

\* The endpoint checks that the wallet exists; the runner takes its slot's word.
PlacePaperOrder(o, w) ==
    /\ Free
    /\ ledger[w].exists \/ w \in deployments
    /\ minted[o] = 0 /\ book[o].status = "none" /\ files.orders[o].status = "none"
    /\ book' = [book EXCEPT ![o] = [wallet |-> w, status |-> "open"]]
    /\ UNCHANGED <<up, ledger, holdings, history, deployments, files, saving, whole, split, opened,
                   lostWallets, minted, kills>>

ChargedWallet(o) == IF ledger[book[o].wallet].exists THEN book[o].wallet ELSE DefaultWallet

FillPaperOrder(o) ==
    /\ Free
    /\ book[o].status = "open"
    /\ minted[o] < MaxFills
    /\ LET w == ChargedWallet(o)
           f == [order |-> o, nth |-> minted[o] + 1, wallet |-> w, life |-> ledger[w].life]
       IN  /\ book' = [book EXCEPT ![o].status = "filled"]
           /\ holdings' = [holdings EXCEPT ![w] = @ \cup {f}]
           /\ ledger' = [ledger EXCEPT ![w].charged = @ \cup {f}]
           /\ history' = history \cup {f}
    /\ minted' = [minted EXCEPT ![o] = @ + 1]
    /\ UNCHANGED <<up, deployments, files, saving, whole, split, opened, lostWallets, kills>>

CancelPaperOrder(o) ==
    /\ Free
    /\ book[o].status = "open"
    /\ book' = [book EXCEPT ![o].status = "cancelled"]
    /\ UNCHANGED <<up, ledger, holdings, history, deployments, files, saving, whole, split, opened,
                   lostWallets, minted, kills>>

\* reset_account clears the orders first, and so finds no fill of the wallet.
ResetWallet(w) ==
    /\ Free
    /\ ledger[w].exists /\ ledger[w].life < MaxResets
    /\ ledger' = [ledger EXCEPT ![w].life = @ + 1, ![w].charged = {}]
    /\ book' = [o \in PaperOrders |-> IF book[o].wallet = w THEN NoOrder ELSE book[o]]
    /\ holdings' = [holdings EXCEPT ![w] = {}]
    /\ UNCHANGED <<up, history, deployments, files, saving, whole, split, opened, lostWallets,
                   minted, kills>>

-------------------------------------------------------------------------------
(* save_state: one file after the other *)

SaveFileLastFirst(n) ==
    files' = CASE n = 0 -> [files EXCEPT !.fills = history]
               [] n = 1 -> [files EXCEPT !.orders = book]
               [] n = 2 -> [files EXCEPT !.positions = holdings]
               [] n = 3 -> [files EXCEPT !.accounts = ledger]

SaveFile(n) ==
    files' = CASE n = 0 -> [files EXCEPT !.accounts = ledger]
               [] n = 1 -> [files EXCEPT !.orders = book]
               [] n = 2 -> [files EXCEPT !.positions = holdings]
               [] n = 3 -> [files EXCEPT !.fills = history]

SaveStep ==
    /\ up
    /\ SaveFile(saving)
    /\ saving' = (saving + 1) % 4
    /\ whole' = (saving = 3)
    /\ UNCHANGED <<up, ledger, book, holdings, history, deployments, split, opened, lostWallets,
                   minted, kills>>

\* The exception is logged; the next autosave starts over.
WriteFails ==
    /\ up /\ saving > 0
    /\ saving' = 0
    /\ UNCHANGED <<up, ledger, book, holdings, history, deployments, files, whole, split, opened,
                   lostWallets, minted, kills>>

-------------------------------------------------------------------------------
(* The process *)

Kill ==
    /\ up
    /\ kills < MaxKills
    /\ kills' = kills + 1
    /\ up' = FALSE
    /\ saving' = 0
    /\ ledger' = NoAccounts /\ book' = NoOrders /\ holdings' = NoHoldings /\ history' = {}
    /\ deployments' = {}
    /\ UNCHANGED <<files, whole, split, opened, lostWallets, minted>>

\* load_state, start, and the runner's restore, which keeps the recorded wallet.
LoadState ==
    /\ ~ up
    /\ up' = TRUE
    /\ ledger' = WithDefault(files.accounts)
    /\ book' = files.orders
    /\ holdings' = files.positions
    /\ history' = files.fills
    /\ deployments' = files.deployments
    /\ split' = (split \/ ~ whole)
    /\ lostWallets' = lostWallets \cup {w \in files.deployments : ~ files.accounts[w].exists}
    /\ UNCHANGED <<files, saving, whole, opened, minted, kills>>

RestartNext ==
    \/ \E w \in Wallets : OpenWallet(w) \/ DeploymentSaved(w) \/ ResetWallet(w)
    \/ \E o \in PaperOrders :
          \/ FillPaperOrder(o) \/ CancelPaperOrder(o)
          \/ \E w \in Wallets : PlacePaperOrder(o, w)
    \/ SaveStep \/ WriteFails \/ Kill \/ LoadState

RestartSpec == RestartInit /\ [][RestartNext]_restartVars

-------------------------------------------------------------------------------
(* Properties *)

\* A fill of the wallet's present life.
Current(f) == ledger[f.wallet].exists /\ f.life = ledger[f.wallet].life

CurrentFills(w) == {f \in history : f.wallet = w /\ Current(f)}

\* Whatever file the process dies at, and however often, every fill that comes
\* back in the history was charged to its wallet and is in its position, and
\* its order does not rest to be filled again: the files are written in the
\* order in which a fill is allowed to be missing from them.  Files of one save
\* agree to the last fill, and no order is charged twice; a save that was cut
\* short does charge an order twice, when its fill was lost and it rests again.
\* Only the orders of a deployment whose wallet was never saved are charged to
\* another wallet.
RestoredFillsAreBooked ==
    up =>
        /\ \A f \in history :
              Current(f) => /\ f \in ledger[f.wallet].charged
                            /\ f \in holdings[f.wallet]
                            /\ book[f.order].status \in {"none", "filled"}
        /\ ~ split =>
              /\ \A w \in Wallets :
                    ledger[w].exists => CurrentFills(w) = ledger[w].charged /\ CurrentFills(w) = holdings[w]
              /\ \A f, g \in history : f.order = g.order => f = g
        /\ \A f \in history :
              book[f.order].status = "filled" /\ book[f.order].wallet # f.wallet
                 => book[f.order].wallet \in lostWallets

=============================================================================
