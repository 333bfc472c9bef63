--------------------------- MODULE ServicesProofs ---------------------------
(***************************************************************************)
(* Theorems of the components that share no state, each for all values of  *)
(* its constants: what comes back of paper trading after restarts, the     *)
(* sockets of the bridge to Polymarket, what a backtest books and holds    *)
(* and the bars it is given; and, with the components of the modules this  *)
(* one extends, of all ten side by side.  Each section begins with the     *)
(* argument.                                                               *)
(***************************************************************************)
EXTENDS MCServices, GatewayProofs, AgentProofs

-------------------------------------------------------------------------------
(***************************************************************************)
(* Paper trading after any number of restarts, for any wallets, orders,    *)
(* resets and files at which the process may die.                          *)
(*                                                                         *)
(* The accounts file is never older than the orders file, that one never   *)
(* older than the positions, and those never older than the fills.         *)
(* `Consistent` says what four parts of such ages have in common; it holds *)
(* of the files at every moment, of the memory, and so of a memory loaded  *)
(* from the files. `Agreeing` is the stronger relation of parts of one     *)
(* age.                                                                    *)
(***************************************************************************)

\* Relations of accounts A, orders B, positions P and fills H.

\* A fill has a wallet, and not one of a later life.
FillsHaveWallets(A, H) == \A f \in H : A[f.wallet].exists /\ f.life <= A[f.wallet].life

\* A fill of the present life of its wallet is charged and held.
FillsCharged(A, H) == \A f \in H : f.life = A[f.wallet].life => f \in A[f.wallet].charged
FillsHeld(A, P, H) == \A f \in H : f.life = A[f.wallet].life => f \in P[f.wallet]

\* The order of a fill is over, or was cleared by a reset.
OrdersOver(B, H) == \A f \in H : B[f.order].status \in {"none", "filled"}

\* Who is charged for another's order, and whose orders have no wallet.
OrphansLost(B, H) ==
    \A f \in H : B[f.order].status = "filled" /\ B[f.order].wallet # f.wallet
                    => B[f.order].wallet \in lostWallets
RestingHaveWallets(A, B) ==
    \A o \in PaperOrders : B[o].status = "open" /\ ~ A[B[o].wallet].exists => B[o].wallet \in lostWallets

\* Fills are numbered.
FillsMinted(H) == \A f \in H : f.nth <= minted[f.order]
OneFillPerOrder(H) == \A f, g \in H : f.order = g.order => f = g

Consistent(A, B, P, H) ==
    /\ FillsHaveWallets(A, H) /\ FillsCharged(A, H) /\ FillsHeld(A, P, H)
    /\ OrdersOver(B, H) /\ OrphansLost(B, H) /\ RestingHaveWallets(A, B)
    /\ FillsMinted(H) /\ OneFillPerOrder(H)

FillsIn(A, H, w) == {f \in H : f.wallet = w /\ A[w].exists /\ f.life = A[w].life}
Agreeing(A, P, H) == \A w \in Wallets : FillsIn(A, H, w) = A[w].charged /\ FillsIn(A, H, w) = P[w]

\* Accounts A are not newer than accounts L.
NotNewer(A, L) == \A w \in Wallets : A[w].exists => L[w].exists /\ A[w].life <= L[w].life

MemoryConsistent == Consistent(ledger, book, holdings, history)
FilesConsistent == Consistent(files.accounts, files.orders, files.positions, files.fills)

\* A process that runs has gone on from its files.
FilesAreOlder ==
    up => /\ files.fills \subseteq history
          /\ NotNewer(files.accounts, ledger)
          /\ ledger[DefaultWallet].exists

\* What a save under way has written is what is in memory.
SaveProgress ==
    /\ saving > 0 => up
    /\ saving \in 1..3 => files.accounts = ledger
    /\ saving \in 2..3 => files.orders = book
    /\ saving = 3 => files.positions = holdings

SlotsHaveWallets == up => \A w \in deployments : ledger[w].exists \/ w \in lostWallets

WholeAgrees ==
    ~ split => /\ up => Agreeing(ledger, holdings, history)
               /\ whole => Agreeing(files.accounts, files.positions, files.fills)

RestartInv ==
    /\ RestartTypeOK
    /\ MemoryConsistent /\ FilesConsistent
    /\ FilesAreOlder /\ SaveProgress /\ SlotsHaveWallets /\ WholeAgrees

-------------------------------------------------------------------------------
(* The relations *)

\* A newer accounts part keeps what fills and resting orders need, if the fills
\* are those of the older part or more.
LEMMA NewerAccounts ==
    ASSUME NEW A \in [Wallets -> WalletRecords], NEW L \in [Wallets -> WalletRecords],
           NEW B \in [PaperOrders -> OrderRecords], NEW P, NEW H \in SUBSET FillRecords,
           NEW N \in SUBSET FillRecords,
           PaperRestartAssumption, Consistent(A, B, P, H), NotNewer(A, L), H \subseteq N,
           FillsHaveWallets(L, N), FillsCharged(L, N)
    PROVE  Consistent(L, B, P, H)
<1>1. FillsHaveWallets(L, H) /\ FillsCharged(L, H)
      BY DEF FillsHaveWallets, FillsCharged
<1>2. FillsHeld(L, P, H)
  <2> SUFFICES ASSUME NEW f \in H, f.life = L[f.wallet].life
               PROVE  f \in P[f.wallet]
      BY DEF FillsHeld
  <2>1. f.wallet \in Wallets /\ f.life \in Nat
        BY PaperRestartAssumption DEF FillRecords, PaperRestartAssumption
  <2>2. A[f.wallet].exists /\ f.life <= A[f.wallet].life /\ A[f.wallet].life <= L[f.wallet].life
        BY <2>1 DEF Consistent, FillsHaveWallets, NotNewer
  <2>3. A[f.wallet].life \in Nat
        BY <2>1, PaperRestartAssumption DEF WalletRecords, PaperRestartAssumption
  <2>4. f.life = A[f.wallet].life
        BY <2>1, <2>2, <2>3
  <2> QED
      BY <2>4 DEF Consistent, FillsHeld
<1>3. RestingHaveWallets(L, B)
  <2> SUFFICES ASSUME NEW o \in PaperOrders, B[o].status = "open", ~ L[B[o].wallet].exists
               PROVE  B[o].wallet \in lostWallets
      BY DEF RestingHaveWallets
  <2>1. B[o].wallet \in Wallets
        BY DEF OrderRecords
  <2>2. ~ A[B[o].wallet].exists
        BY <2>1 DEF NotNewer
  <2> QED
      BY <2>2 DEF Consistent, RestingHaveWallets
<1> QED
    BY <1>1, <1>2, <1>3 DEF Consistent

\* A part with the default wallet serves as well as the one without.
LEMMA DefaultAdded ==
    ASSUME NEW A \in [Wallets -> WalletRecords], PaperRestartAssumption
    PROVE  /\ WithDefault(A) \in [Wallets -> WalletRecords]
           /\ WithDefault(A)[DefaultWallet].exists
           /\ \A w \in Wallets : A[w].exists => WithDefault(A)[w] = A[w]
           /\ \A w \in Wallets \ {DefaultWallet} : WithDefault(A)[w] = A[w]
           /\ ~ A[DefaultWallet].exists =>
                 WithDefault(A)[DefaultWallet] = [exists |-> TRUE, life |-> 0, charged |-> {}]
<1>1. DefaultWallet \in Wallets /\ 0 \in 0..MaxResets
      BY DEF PaperRestartAssumption
<1>2. CASE A[DefaultWallet].exists
      BY <1>1, <1>2 DEF WithDefault
<1>3. CASE ~ A[DefaultWallet].exists
  <2>1. WithDefault(A) = [A EXCEPT ![DefaultWallet] = [exists |-> TRUE, life |-> 0, charged |-> {}]]
        BY <1>3 DEF WithDefault
  <2>2. [exists |-> TRUE, life |-> 0, charged |-> {}] \in WalletRecords
        BY <1>1 DEF WalletRecords
  <2> QED
      BY <1>1, <1>3, <2>1, <2>2
<1> QED
    BY <1>2, <1>3

-------------------------------------------------------------------------------
(* Every step *)

LEMMA RestartInitInv == RestartInit => RestartInv
<1> SUFFICES ASSUME RestartInit PROVE RestartInv
    OBVIOUS
<1>1. DefaultWallet \in Wallets /\ MaxResets \in Nat /\ MaxFills \in Nat /\ MaxKills \in Nat
      BY PaperRestartAssumption DEF PaperRestartAssumption
<1>2. NoAccounts \in [Wallets -> WalletRecords] /\ NoOrders \in [PaperOrders -> OrderRecords]
      /\ NoHoldings \in [Wallets -> SUBSET FillRecords]
      BY <1>1 DEF NoAccounts, NoOrders, NoHoldings, NoWallet, NoOrder, WalletRecords, OrderRecords
<1>3. /\ ledger \in [Wallets -> WalletRecords] /\ ledger[DefaultWallet].exists
      /\ \A w \in Wallets : ledger[w].charged = {}
  <2>1. /\ ~ NoAccounts[DefaultWallet].exists
        /\ \A w \in Wallets : NoAccounts[w].charged = {}
        BY <1>1 DEF NoAccounts, NoWallet
  <2>2. ledger = WithDefault(NoAccounts)
        BY DEF RestartInit
  <2> QED
      BY <1>1, <1>2, <2>1, <2>2, DefaultAdded, PaperRestartAssumption
<1>4. RestartTypeOK
  <2>1. files \in [accounts: [Wallets -> WalletRecords], orders: [PaperOrders -> OrderRecords],
                    positions: [Wallets -> SUBSET FillRecords], fills: SUBSET FillRecords,
                    deployments: SUBSET Wallets]
        BY <1>2 DEF RestartInit
  <2>0. up \in BOOLEAN /\ whole \in BOOLEAN /\ split \in BOOLEAN
        BY DEF RestartInit
  <2>2. saving \in 0..3 /\ kills \in 0..MaxKills /\ minted \in [PaperOrders -> 0..MaxFills]
        BY <1>1 DEF RestartInit
  <2>3. /\ book \in [PaperOrders -> OrderRecords] /\ holdings \in [Wallets -> SUBSET FillRecords]
        /\ history \subseteq FillRecords /\ deployments \subseteq Wallets /\ opened \subseteq Wallets
        /\ lostWallets \subseteq Wallets
        BY <1>1, <1>2 DEF RestartInit
  <2> QED
      BY <1>3, <2>0, <2>1, <2>2, <2>3 DEF RestartTypeOK
<1>5. MemoryConsistent /\ FilesConsistent
      BY <1>1 DEF RestartInit, MemoryConsistent, FilesConsistent, Consistent, FillsHaveWallets, FillsCharged, FillsHeld,
                  OrdersOver, OrphansLost, RestingHaveWallets, FillsMinted, OneFillPerOrder, NoOrders, NoOrder
<1>6. FilesAreOlder /\ SaveProgress /\ SlotsHaveWallets
      BY <1>3 DEF RestartInit, FilesAreOlder, SaveProgress, SlotsHaveWallets, NotNewer, NoAccounts, NoWallet
<1>7. WholeAgrees
      BY <1>3 DEF RestartInit, WholeAgrees, Agreeing, FillsIn, NoAccounts, NoWallet, NoHoldings
<1> QED
    BY <1>4, <1>5, <1>6, <1>7 DEF RestartInv

\* Trading leaves the files alone.
LEMMA FilesKept ==
    ASSUME RestartInv, lostWallets \subseteq lostWallets',
           files'.accounts = files.accounts, files'.orders = files.orders,
           files'.positions = files.positions, files'.fills = files.fills,
           \A o \in PaperOrders : minted'[o] \in Nat /\ minted[o] <= minted'[o]
    PROVE  FilesConsistent'
<1>1. Consistent(files.accounts, files.orders, files.positions, files.fills)
      BY DEF RestartInv, FilesConsistent
<1>2. \A f \in files.fills : f.order \in PaperOrders /\ f.nth \in Nat
      BY PaperRestartAssumption DEF RestartInv, RestartTypeOK, FillRecords, PaperRestartAssumption
<1>3. \A o \in PaperOrders : minted[o] \in Nat
      BY PaperRestartAssumption DEF RestartInv, RestartTypeOK, PaperRestartAssumption
<1>4. FillsMinted(files.fills)'
      BY <1>1, <1>2, <1>3 DEF Consistent, FillsMinted
<1>5. OrphansLost(files.orders, files.fills)' /\ RestingHaveWallets(files.accounts, files.orders)'
      BY <1>1 DEF Consistent, OrphansLost, RestingHaveWallets
<1>6. /\ FillsHaveWallets(files.accounts, files.fills)' /\ FillsCharged(files.accounts, files.fills)'
      /\ FillsHeld(files.accounts, files.positions, files.fills)'
      /\ OrdersOver(files.orders, files.fills)' /\ OneFillPerOrder(files.fills)'
      BY <1>1 DEF Consistent, FillsHaveWallets, FillsCharged, FillsHeld, OrdersOver, OneFillPerOrder
<1> QED
    BY <1>4, <1>5, <1>6 DEF FilesConsistent, Consistent

\* What the types say of fills, wallets and orders.
LEMMA Typed ==
    ASSUME RestartInv
    PROVE  /\ \A f \in history : /\ f.order \in PaperOrders /\ f.nth \in Nat \ {0}
                                 /\ f.wallet \in Wallets /\ f.life \in Nat
           /\ \A w \in Wallets : ledger[w].life \in Nat
           /\ \A o \in PaperOrders : book[o].wallet \in Wallets /\ minted[o] \in Nat
           /\ DefaultWallet \in Wallets
<1>1. MaxFills \in Nat /\ MaxResets \in Nat /\ DefaultWallet \in Wallets
      BY PaperRestartAssumption DEF PaperRestartAssumption
<1> QED
    BY <1>1 DEF RestartInv, RestartTypeOK, FillRecords, WalletRecords, OrderRecords

LEMMA OpenWalletKeeps ==
    ASSUME RestartInv, NEW w \in Wallets, OpenWallet(w)
    PROVE  RestartInv'
<1>1. /\ ledger' = [ledger EXCEPT ![w].exists = TRUE] /\ saving = 0 /\ up
      /\ UNCHANGED <<up, book, holdings, history, deployments, files, saving, whole, split,
                   lostWallets, minted, kills>>
      BY DEF OpenWallet, Free
<1>2. /\ ledger' \in [Wallets -> WalletRecords]
      /\ \A v \in Wallets : /\ ledger'[v].life = ledger[v].life /\ ledger'[v].charged = ledger[v].charged
                            /\ ledger[v].exists => ledger'[v].exists
                            /\ v # w => ledger'[v] = ledger[v]
      BY ZenonT(30), <1>1 DEF RestartInv, RestartTypeOK, WalletRecords
<1>3. RestartTypeOK'
      BY <1>1, <1>2 DEF RestartInv, RestartTypeOK, OpenWallet
<1>4. MemoryConsistent'
  <2>1. FillsHaveWallets(ledger, history)' /\ FillsCharged(ledger, history)'
        BY <1>1, <1>2, Typed DEF RestartInv, MemoryConsistent, Consistent, FillsHaveWallets, FillsCharged
  <2>2. FillsHeld(ledger, holdings, history)' /\ RestingHaveWallets(ledger, book)'
        BY <1>1, <1>2, Typed DEF RestartInv, MemoryConsistent, Consistent, FillsHeld, RestingHaveWallets
  <2>3. /\ OrdersOver(book, history)' /\ OrphansLost(book, history)'
        /\ FillsMinted(history)' /\ OneFillPerOrder(history)'
        BY <1>1 DEF RestartInv, MemoryConsistent, Consistent, OrdersOver, OrphansLost, FillsMinted, OneFillPerOrder
  <2> QED
      BY <2>1, <2>2, <2>3 DEF MemoryConsistent, Consistent
<1>5. FilesConsistent'
      BY <1>1, FilesKept, Typed
<1>6. FilesAreOlder' /\ SaveProgress' /\ SlotsHaveWallets'
      BY <1>1, <1>2, Typed DEF RestartInv, RestartTypeOK, FilesAreOlder, SaveProgress, SlotsHaveWallets, NotNewer
<1>7. WholeAgrees'
  <2> SUFFICES ASSUME ~ split PROVE Agreeing(ledger, holdings, history)'
      BY <1>1 DEF RestartInv, WholeAgrees
  <2>1. Agreeing(ledger, holdings, history) /\ FillsHaveWallets(ledger, history)
        BY <1>1 DEF RestartInv, WholeAgrees, MemoryConsistent, Consistent
  <2>2. \A v \in Wallets : FillsIn(ledger', history, v) = FillsIn(ledger, history, v)
        BY <1>2, <2>1, Typed DEF FillsIn, FillsHaveWallets
  <2> QED
      BY <1>1, <1>2, <2>1, <2>2 DEF Agreeing, FillsIn
<1> QED
    BY <1>3, <1>4, <1>5, <1>6, <1>7 DEF RestartInv

LEMMA DeploymentSavedKeeps ==
    ASSUME RestartInv, NEW w \in Wallets, DeploymentSaved(w)
    PROVE  RestartInv'
<1>1. /\ ledger[w].exists /\ saving = 0 /\ up
      /\ deployments' = deployments \cup {w}
      /\ files' = [files EXCEPT !.deployments = deployments']
      /\ UNCHANGED <<up, ledger, book, holdings, history, saving, whole, split, opened, lostWallets,
                   minted, kills>>
      BY DEF DeploymentSaved, Free
<1>2. /\ files'.accounts = files.accounts /\ files'.orders = files.orders
      /\ files'.positions = files.positions /\ files'.fills = files.fills
      /\ files'.deployments = deployments' /\ deployments' \subseteq Wallets
      /\ files' \in [accounts: [Wallets -> WalletRecords], orders: [PaperOrders -> OrderRecords],
                    positions: [Wallets -> SUBSET FillRecords], fills: SUBSET FillRecords,
                    deployments: SUBSET Wallets]
      BY <1>1 DEF RestartInv, RestartTypeOK
<1>3. RestartTypeOK'
      BY <1>1, <1>2 DEF RestartInv, RestartTypeOK
<1>4. MemoryConsistent'
      BY <1>1 DEF RestartInv, MemoryConsistent, Consistent, FillsHaveWallets, FillsCharged, FillsHeld,
                  OrdersOver, OrphansLost, RestingHaveWallets, FillsMinted, OneFillPerOrder
<1>5. FilesConsistent'
      BY <1>1, <1>2, FilesKept, Typed
<1>6. FilesAreOlder' /\ SaveProgress' /\ SlotsHaveWallets'
      BY <1>1, <1>2 DEF RestartInv, FilesAreOlder, SaveProgress, SlotsHaveWallets, NotNewer
<1>7. WholeAgrees'
      BY <1>1, <1>2 DEF RestartInv, WholeAgrees, Agreeing, FillsIn
<1> QED
    BY <1>3, <1>4, <1>5, <1>6, <1>7 DEF RestartInv

LEMMA PlaceKeeps ==
    ASSUME RestartInv, NEW o \in PaperOrders, NEW w \in Wallets, PlacePaperOrder(o, w)
    PROVE  RestartInv'
<1>1. /\ ledger[w].exists \/ w \in lostWallets
      /\ minted[o] = 0 /\ saving = 0 /\ up
      /\ book' = [book EXCEPT ![o] = [wallet |-> w, status |-> "open"]]
      /\ UNCHANGED <<up, ledger, holdings, history, deployments, files, saving, whole, split, opened,
                   lostWallets, minted, kills>>
      BY DEF PlacePaperOrder, Free, RestartInv, SlotsHaveWallets
<1>2. /\ book' \in [PaperOrders -> OrderRecords]
      /\ book'[o].wallet = w /\ book'[o].status = "open"
      /\ \A q \in PaperOrders \ {o} : book'[q] = book[q]
      BY <1>1 DEF RestartInv, RestartTypeOK, OrderRecords
<1>3. RestartTypeOK'
      BY <1>1, <1>2 DEF RestartInv, RestartTypeOK
<1>4. MemoryConsistent'
  <2>1. \A f \in history : f.order # o
        BY <1>1, Typed DEF RestartInv, MemoryConsistent, Consistent, FillsMinted
  <2>2. OrdersOver(book, history)' /\ OrphansLost(book, history)'
        BY <1>1, <1>2, <2>1, Typed DEF RestartInv, MemoryConsistent, Consistent, OrdersOver, OrphansLost
  <2>3. RestingHaveWallets(ledger, book)'
        BY <1>1, <1>2 DEF RestartInv, MemoryConsistent, Consistent, RestingHaveWallets
  <2>4. /\ FillsHaveWallets(ledger, history)' /\ FillsCharged(ledger, history)'
        /\ FillsHeld(ledger, holdings, history)'
        /\ FillsMinted(history)' /\ OneFillPerOrder(history)'
        BY <1>1 DEF RestartInv, MemoryConsistent, Consistent, FillsHaveWallets, FillsCharged, FillsHeld,
                    FillsMinted, OneFillPerOrder
  <2> QED
      BY <2>2, <2>3, <2>4 DEF MemoryConsistent, Consistent
<1>5. FilesConsistent'
      BY <1>1, FilesKept, Typed
<1>6. FilesAreOlder' /\ SaveProgress' /\ SlotsHaveWallets'
      BY <1>1 DEF RestartInv, FilesAreOlder, SaveProgress, SlotsHaveWallets, NotNewer
<1>7. WholeAgrees'
      BY <1>1 DEF RestartInv, WholeAgrees, Agreeing, FillsIn
<1> QED
    BY <1>3, <1>4, <1>5, <1>6, <1>7 DEF RestartInv

LEMMA CancelKeeps ==
    ASSUME RestartInv, NEW o \in PaperOrders, CancelPaperOrder(o)
    PROVE  RestartInv'
<1>1. /\ book[o].status = "open" /\ saving = 0 /\ up
      /\ book' = [book EXCEPT ![o].status = "cancelled"]
      /\ UNCHANGED <<up, ledger, holdings, history, deployments, files, saving, whole, split, opened,
                   lostWallets, minted, kills>>
      BY DEF CancelPaperOrder, Free
<1>2. /\ book' \in [PaperOrders -> OrderRecords]
      /\ book'[o].status = "cancelled"
      /\ \A q \in PaperOrders \ {o} : book'[q] = book[q]
      BY <1>1 DEF RestartInv, RestartTypeOK, OrderRecords
<1>3. RestartTypeOK'
      BY <1>1, <1>2 DEF RestartInv, RestartTypeOK
<1>4. MemoryConsistent'
  <2>1. \A f \in history : f.order # o
        BY <1>1 DEF RestartInv, MemoryConsistent, Consistent, OrdersOver
  <2>2. OrdersOver(book, history)' /\ OrphansLost(book, history)'
        BY <1>1, <1>2, <2>1, Typed DEF RestartInv, MemoryConsistent, Consistent, OrdersOver, OrphansLost
  <2>3. RestingHaveWallets(ledger, book)'
        BY <1>1, <1>2 DEF RestartInv, MemoryConsistent, Consistent, RestingHaveWallets
  <2>4. /\ FillsHaveWallets(ledger, history)' /\ FillsCharged(ledger, history)'
        /\ FillsHeld(ledger, holdings, history)'
        /\ FillsMinted(history)' /\ OneFillPerOrder(history)'
        BY <1>1 DEF RestartInv, MemoryConsistent, Consistent, FillsHaveWallets, FillsCharged, FillsHeld,
                    FillsMinted, OneFillPerOrder
  <2> QED
      BY <2>2, <2>3, <2>4 DEF MemoryConsistent, Consistent
<1>5. FilesConsistent'
      BY <1>1, FilesKept, Typed
<1>6. FilesAreOlder' /\ SaveProgress' /\ SlotsHaveWallets'
      BY <1>1 DEF RestartInv, FilesAreOlder, SaveProgress, SlotsHaveWallets, NotNewer
<1>7. WholeAgrees'
      BY <1>1 DEF RestartInv, WholeAgrees, Agreeing, FillsIn
<1> QED
    BY <1>3, <1>4, <1>5, <1>6, <1>7 DEF RestartInv

LEMMA FillKeeps ==
    ASSUME RestartInv, NEW o \in PaperOrders, FillPaperOrder(o)
    PROVE  RestartInv'
<1> DEFINE w == ChargedWallet(o)
           f == [order |-> o, nth |-> minted[o] + 1, wallet |-> w, life |-> ledger[w].life]
<1>1. /\ book[o].status = "open" /\ minted[o] < MaxFills /\ saving = 0 /\ up
      /\ book' = [book EXCEPT ![o].status = "filled"]
      /\ holdings' = [holdings EXCEPT ![w] = @ \cup {f}]
      /\ ledger' = [ledger EXCEPT ![w].charged = @ \cup {f}]
      /\ history' = history \cup {f}
      /\ minted' = [minted EXCEPT ![o] = @ + 1]
      /\ UNCHANGED <<up, deployments, files, saving, whole, split, opened, lostWallets, kills>>
      BY DEF FillPaperOrder, Free
<1>2. /\ w \in Wallets /\ ledger[w].exists
      /\ book[o].wallet # w => book[o].wallet \in lostWallets
      BY <1>1, Typed DEF ChargedWallet, RestartInv, FilesAreOlder, MemoryConsistent, Consistent, RestingHaveWallets
<1>3. f \in FillRecords
  <2>1. minted[o] + 1 \in 1..MaxFills /\ ledger[w].life \in 0..MaxResets
        BY <1>1, <1>2, PaperRestartAssumption DEF RestartInv, RestartTypeOK, WalletRecords, PaperRestartAssumption
  <2> QED
      BY <1>2, <2>1 DEF FillRecords
<1>4. PICK g \in FillRecords : g = f /\ g.order = o /\ g.nth = minted[o] + 1 /\ g.wallet = w /\ g.life = ledger[w].life
      BY <1>3
<1> HIDE DEF w, f
<1>5. /\ ledger' \in [Wallets -> WalletRecords]
      /\ \A v \in Wallets : /\ ledger'[v].life = ledger[v].life /\ ledger'[v].exists = ledger[v].exists
                            /\ v # w => ledger'[v] = ledger[v]
      /\ ledger'[w].charged = ledger[w].charged \cup {g}
      BY <1>1, <1>2, <1>4 DEF RestartInv, RestartTypeOK, WalletRecords
<1>6. /\ holdings' \in [Wallets -> SUBSET FillRecords]
      /\ \A v \in Wallets \ {w} : holdings'[v] = holdings[v]
      /\ holdings'[w] = holdings[w] \cup {g}
      BY <1>1, <1>2, <1>4 DEF RestartInv, RestartTypeOK
<1>7. /\ book' \in [PaperOrders -> OrderRecords]
      /\ book'[o].status = "filled" /\ book'[o].wallet = book[o].wallet
      /\ \A q \in PaperOrders \ {o} : book'[q] = book[q]
      BY <1>1 DEF RestartInv, RestartTypeOK, OrderRecords
<1>8. /\ minted' \in [PaperOrders -> 0..MaxFills] /\ minted'[o] = minted[o] + 1
      /\ \A q \in PaperOrders \ {o} : minted'[q] = minted[q]
      BY <1>1, PaperRestartAssumption DEF RestartInv, RestartTypeOK, PaperRestartAssumption
<1>9. /\ history' = history \cup {g} /\ history' \subseteq FillRecords
      /\ \A h \in history : h.order # o
      BY <1>1, <1>4 DEF RestartInv, RestartTypeOK, MemoryConsistent, Consistent, OrdersOver
<1>10. RestartTypeOK'
      BY <1>1, <1>5, <1>6, <1>7, <1>8, <1>9 DEF RestartInv, RestartTypeOK
<1>11. MemoryConsistent'
  <2>1. FillsHaveWallets(ledger, history)'
        BY <1>2, <1>4, <1>5, <1>9, Typed DEF RestartInv, MemoryConsistent, Consistent, FillsHaveWallets
  <2>2. FillsCharged(ledger, history)'
        BY <1>2, <1>4, <1>5, <1>9, Typed DEF RestartInv, MemoryConsistent, Consistent, FillsCharged
  <2>3. FillsHeld(ledger, holdings, history)'
        BY <1>2, <1>4, <1>5, <1>6, <1>9, Typed DEF RestartInv, MemoryConsistent, Consistent, FillsHeld
  <2>4. OrdersOver(book, history)'
        BY <1>4, <1>7, <1>9, Typed DEF RestartInv, MemoryConsistent, Consistent, OrdersOver
  <2>5. OrphansLost(book, history)'
        BY <1>1, <1>2, <1>4, <1>7, <1>9, Typed DEF RestartInv, MemoryConsistent, Consistent, OrphansLost
  <2>6. RestingHaveWallets(ledger, book)'
        BY <1>1, <1>5, <1>7, Typed DEF RestartInv, MemoryConsistent, Consistent, RestingHaveWallets
  <2>7. FillsMinted(history)' /\ OneFillPerOrder(history)'
        BY <1>4, <1>8, <1>9, Typed DEF RestartInv, MemoryConsistent, Consistent, FillsMinted, OneFillPerOrder
  <2> QED
      BY <2>1, <2>2, <2>3, <2>4, <2>5, <2>6, <2>7 DEF MemoryConsistent, Consistent
<1>12. FilesConsistent'
      BY <1>1, <1>8, FilesKept, Typed
<1>13. FilesAreOlder' /\ SaveProgress' /\ SlotsHaveWallets'
      BY <1>1, <1>5, <1>9, Typed DEF RestartInv, RestartTypeOK, FilesAreOlder, SaveProgress, SlotsHaveWallets, NotNewer
<1>14. WholeAgrees'
  <2> SUFFICES ASSUME ~ split PROVE Agreeing(ledger, holdings, history)'
      BY <1>1 DEF RestartInv, WholeAgrees
  <2>1. Agreeing(ledger, holdings, history)
        BY <1>1 DEF RestartInv, WholeAgrees
  <2> SUFFICES ASSUME NEW v \in Wallets
               PROVE  /\ FillsIn(ledger', history', v) = ledger'[v].charged
                      /\ FillsIn(ledger', history', v) = holdings'[v]
      BY DEF Agreeing, FillsIn
  <2>2. FillsIn(ledger', history', v) = FillsIn(ledger, history, v) \cup (IF v = w THEN {g} ELSE {})
        BY <1>2, <1>4, <1>5, <1>9 DEF FillsIn
  <2> QED
      BY <1>5, <1>6, <2>1, <2>2 DEF Agreeing
<1> QED
    BY <1>10, <1>11, <1>12, <1>13, <1>14 DEF RestartInv

LEMMA ResetKeeps ==
    ASSUME RestartInv, NEW w \in Wallets, ResetWallet(w)
    PROVE  RestartInv'
<1>1. /\ ledger[w].exists /\ ledger[w].life < MaxResets /\ saving = 0 /\ up
      /\ ledger' = [ledger EXCEPT ![w].life = @ + 1, ![w].charged = {}]
      /\ book' = [o \in PaperOrders |-> IF book[o].wallet = w THEN NoOrder ELSE book[o]]
      /\ holdings' = [holdings EXCEPT ![w] = {}]
      /\ UNCHANGED <<up, history, deployments, files, saving, whole, split, opened, lostWallets,
                   minted, kills>>
      BY DEF ResetWallet, Free
<1>2. ledger[w].life \in Nat /\ ledger[w].life + 1 \in 0..MaxResets
      BY <1>1, Typed, PaperRestartAssumption DEF PaperRestartAssumption
<1>3. /\ ledger' \in [Wallets -> WalletRecords]
      /\ \A v \in Wallets : /\ ledger'[v].exists = ledger[v].exists
                            /\ v # w => ledger'[v] = ledger[v]
      /\ ledger'[w].charged = {} /\ ledger'[w].life = ledger[w].life + 1
      BY <1>1, <1>2 DEF RestartInv, RestartTypeOK, WalletRecords
<1>4. /\ holdings' \in [Wallets -> SUBSET FillRecords] /\ holdings'[w] = {}
      /\ \A v \in Wallets \ {w} : holdings'[v] = holdings[v]
      BY <1>1 DEF RestartInv, RestartTypeOK
<1>5. /\ book' \in [PaperOrders -> OrderRecords]
      /\ \A o \in PaperOrders : book'[o].status = "none" \/ book'[o] = book[o]
  <2>1. NoOrder \in OrderRecords /\ NoOrder.status = "none"
        BY Typed DEF NoOrder, OrderRecords
  <2> QED
      BY <1>1, <2>1 DEF RestartInv, RestartTypeOK
<1>6. RestartTypeOK'
      BY <1>1, <1>3, <1>4, <1>5 DEF RestartInv, RestartTypeOK
<1>7. \A h \in history : h.wallet = w => h.life # ledger'[w].life
      BY <1>2, <1>3, Typed DEF RestartInv, MemoryConsistent, Consistent, FillsHaveWallets
<1>8. MemoryConsistent'
  <2>1. FillsHaveWallets(ledger, history)'
        BY <1>1, <1>2, <1>3, Typed DEF RestartInv, MemoryConsistent, Consistent, FillsHaveWallets
  <2>2. FillsCharged(ledger, history)' /\ FillsHeld(ledger, holdings, history)'
        BY <1>1, <1>3, <1>4, <1>7, Typed DEF RestartInv, MemoryConsistent, Consistent, FillsCharged, FillsHeld
  <2>3. OrdersOver(book, history)' /\ OrphansLost(book, history)'
        BY <1>1, <1>5, Typed DEF RestartInv, MemoryConsistent, Consistent, OrdersOver, OrphansLost
  <2>4. RestingHaveWallets(ledger, book)'
        BY <1>1, <1>3, <1>5, Typed DEF RestartInv, MemoryConsistent, Consistent, RestingHaveWallets
  <2>5. FillsMinted(history)' /\ OneFillPerOrder(history)'
        BY <1>1 DEF RestartInv, MemoryConsistent, Consistent, FillsMinted, OneFillPerOrder
  <2> QED
      BY <2>1, <2>2, <2>3, <2>4, <2>5 DEF MemoryConsistent, Consistent
<1>9. FilesConsistent'
      BY <1>1, FilesKept, Typed
<1>10. FilesAreOlder' /\ SaveProgress' /\ SlotsHaveWallets'
  <2>1. NotNewer(files.accounts, ledger)'
    <3>1. \A v \in Wallets : files.accounts[v].life \in Nat
          BY PaperRestartAssumption DEF RestartInv, RestartTypeOK, WalletRecords, PaperRestartAssumption
    <3>2. NotNewer(files.accounts, ledger)
          BY <1>1 DEF RestartInv, FilesAreOlder
    <3> QED
        BY <1>1, <1>2, <1>3, <3>1, <3>2 DEF NotNewer
  <2> QED
      BY <1>1, <1>3, <2>1, Typed DEF RestartInv, RestartTypeOK, FilesAreOlder, SaveProgress, SlotsHaveWallets
<1>11. WholeAgrees'
  <2> SUFFICES ASSUME ~ split PROVE Agreeing(ledger, holdings, history)'
      BY <1>1 DEF RestartInv, WholeAgrees
  <2>1. Agreeing(ledger, holdings, history)
        BY <1>1 DEF RestartInv, WholeAgrees
  <2> SUFFICES ASSUME NEW v \in Wallets
               PROVE  /\ FillsIn(ledger', history', v) = ledger'[v].charged
                      /\ FillsIn(ledger', history', v) = holdings'[v]
      BY DEF Agreeing, FillsIn
  <2>2. CASE v = w
        BY <1>1, <1>3, <1>4, <1>7, <2>2 DEF FillsIn
  <2>3. CASE v # w
        BY <1>1, <1>3, <1>4, <2>1, <2>3 DEF FillsIn, Agreeing
  <2> QED
      BY <2>2, <2>3
<1> QED
    BY <1>6, <1>8, <1>9, <1>10, <1>11 DEF RestartInv

-------------------------------------------------------------------------------

\* The save goes on to the next file.
LEMMA SaveStepKeeps ==
    ASSUME RestartInv, SaveStep
    PROVE  RestartInv'
<1>1. /\ up /\ SaveFile(saving) /\ saving' = (saving + 1) % 4 /\ whole' = (saving = 3)
      /\ UNCHANGED <<up, ledger, book, holdings, history, deployments, split, opened, lostWallets,
                   minted, kills>>
      /\ saving \in 0..3
      BY DEF SaveStep, RestartInv, RestartTypeOK
<1>2. /\ ledger \in [Wallets -> WalletRecords] /\ book \in [PaperOrders -> OrderRecords]
      /\ holdings \in [Wallets -> SUBSET FillRecords] /\ history \in SUBSET FillRecords
      /\ files \in [accounts: [Wallets -> WalletRecords], orders: [PaperOrders -> OrderRecords],
                    positions: [Wallets -> SUBSET FillRecords], fills: SUBSET FillRecords,
                    deployments: SUBSET Wallets]
      BY DEF RestartInv, RestartTypeOK
<1>3. /\ Consistent(ledger, book, holdings, history)
      /\ Consistent(files.accounts, files.orders, files.positions, files.fills)
      /\ files.fills \subseteq history /\ NotNewer(files.accounts, ledger) /\ ledger[DefaultWallet].exists
      BY <1>1 DEF RestartInv, MemoryConsistent, FilesConsistent, FilesAreOlder
<1>4. NotNewer(ledger, ledger)
      BY <1>2, Typed DEF NotNewer
<1>5. MemoryConsistent' /\ SlotsHaveWallets'
      BY <1>1, <1>3 DEF RestartInv, SlotsHaveWallets, MemoryConsistent, Consistent, FillsHaveWallets, FillsCharged, FillsHeld,
                  OrdersOver, OrphansLost, RestingHaveWallets, FillsMinted, OneFillPerOrder
<1>6. whole' \in BOOLEAN
      BY <1>1
<1>7. ASSUME saving' \in 0..3,
             files' \in [accounts: [Wallets -> WalletRecords], orders: [PaperOrders -> OrderRecords],
                    positions: [Wallets -> SUBSET FillRecords], fills: SUBSET FillRecords,
                    deployments: SUBSET Wallets]
      PROVE  RestartTypeOK'
      BY <1>1, <1>6, <1>7 DEF RestartInv, RestartTypeOK
<1>8. ASSUME Consistent(files'.accounts, files'.orders, files'.positions, files'.fills)
      PROVE  FilesConsistent'
      BY <1>1, <1>8 DEF FilesConsistent, Consistent, FillsHaveWallets, FillsCharged, FillsHeld,
                  OrdersOver, OrphansLost, RestingHaveWallets, FillsMinted, OneFillPerOrder
<1>9. CASE saving = 0
  <2>1. files' = [files EXCEPT !.accounts = ledger] /\ saving' = 1 /\ ~ whole'
    <3>1. SaveFile(0) /\ saving' = 1 /\ ~ whole'
      <4>1. SaveFile(0)
            BY <1>1, <1>9
      <4>2. ~ whole'
        <5>1. saving # 3
              BY <1>9
        <5> QED
            BY <1>1, <5>1, Zenon
      <4>3. saving' = 1
            BY <1>1, <1>9
      <4> QED
          BY <4>1, <4>2, <4>3
    <3>2. files' = [files EXCEPT !.accounts = ledger]
          BY <3>1 DEF SaveFile
    <3> QED
        BY <3>1, <3>2
  <2>2. /\ files'.accounts = ledger /\ files'.orders = files.orders
        /\ files'.positions = files.positions /\ files'.fills = files.fills
        /\ files' \in [accounts: [Wallets -> WalletRecords], orders: [PaperOrders -> OrderRecords],
                      positions: [Wallets -> SUBSET FillRecords], fills: SUBSET FillRecords,
                      deployments: SUBSET Wallets]
        BY <1>2, <2>1
  <2>3. Consistent(ledger, files.orders, files.positions, files.fills)
    <3>1. FillsHaveWallets(ledger, history) /\ FillsCharged(ledger, history)
          BY <1>3 DEF Consistent
    <3>2. /\ files.accounts \in [Wallets -> WalletRecords] /\ files.orders \in [PaperOrders -> OrderRecords]
          /\ files.fills \in SUBSET FillRecords
          BY <1>2
    <3> QED
        BY <1>2, <1>3, <3>1, <3>2, NewerAccounts, PaperRestartAssumption
  <2>4. FilesAreOlder' /\ SaveProgress' /\ WholeAgrees'
        BY <1>1, <1>3, <1>4, <2>1, <2>2 DEF RestartInv, FilesAreOlder, SaveProgress, WholeAgrees, Agreeing, FillsIn, NotNewer
  <2> QED
      BY <1>5, <1>7, <1>8, <2>1, <2>2, <2>3, <2>4 DEF RestartInv
<1>10. CASE saving = 1
  <2>1. files' = [files EXCEPT !.orders = book] /\ saving' = 2 /\ ~ whole'
    <3>1. SaveFile(1) /\ saving' = 2 /\ ~ whole'
      <4>1. SaveFile(1)
            BY <1>1, <1>10
      <4>2. ~ whole'
        <5>1. saving # 3
              BY <1>10
        <5> QED
            BY <1>1, <5>1, Zenon
      <4>3. saving' = 2
            BY <1>1, <1>10
      <4> QED
          BY <4>1, <4>2, <4>3
    <3>2. files' = [files EXCEPT !.orders = book]
          BY <3>1 DEF SaveFile
    <3> QED
        BY <3>1, <3>2
  <2>2. /\ files'.accounts = ledger /\ files'.orders = book
        /\ files'.positions = files.positions /\ files'.fills = files.fills
        /\ files' \in [accounts: [Wallets -> WalletRecords], orders: [PaperOrders -> OrderRecords],
                      positions: [Wallets -> SUBSET FillRecords], fills: SUBSET FillRecords,
                      deployments: SUBSET Wallets]
        BY <1>2, <1>10, <2>1 DEF RestartInv, SaveProgress
  <2>3. Consistent(ledger, book, files.positions, files.fills)
        BY <1>3, <1>10 DEF RestartInv, SaveProgress, Consistent, OrdersOver, OrphansLost
  <2>4. FilesAreOlder' /\ SaveProgress' /\ WholeAgrees'
        BY <1>1, <1>3, <1>4, <2>1, <2>2 DEF RestartInv, FilesAreOlder, SaveProgress, WholeAgrees, Agreeing, FillsIn, NotNewer
  <2> QED
      BY <1>5, <1>7, <1>8, <2>1, <2>2, <2>3, <2>4 DEF RestartInv
<1>11. CASE saving = 2
  <2>1. files' = [files EXCEPT !.positions = holdings] /\ saving' = 3 /\ ~ whole'
    <3>1. SaveFile(2) /\ saving' = 3 /\ ~ whole'
      <4>1. SaveFile(2)
            BY <1>1, <1>11
      <4>2. ~ whole'
        <5>1. saving # 3
              BY <1>11
        <5> QED
            BY <1>1, <5>1, Zenon
      <4>3. saving' = 3
            BY <1>1, <1>11
      <4> QED
          BY <4>1, <4>2, <4>3
    <3>2. files' = [files EXCEPT !.positions = holdings]
          BY <3>1 DEF SaveFile
    <3> QED
        BY <3>1, <3>2
  <2>2. /\ files'.accounts = ledger /\ files'.orders = book
        /\ files'.positions = holdings /\ files'.fills = files.fills
        /\ files' \in [accounts: [Wallets -> WalletRecords], orders: [PaperOrders -> OrderRecords],
                      positions: [Wallets -> SUBSET FillRecords], fills: SUBSET FillRecords,
                      deployments: SUBSET Wallets]
        BY <1>2, <1>11, <2>1 DEF RestartInv, SaveProgress
  <2>3. Consistent(ledger, book, holdings, files.fills)
        BY <1>3, <1>11 DEF RestartInv, SaveProgress, Consistent, FillsHeld
  <2>4. FilesAreOlder' /\ SaveProgress' /\ WholeAgrees'
        BY <1>1, <1>3, <1>4, <2>1, <2>2 DEF RestartInv, FilesAreOlder, SaveProgress, WholeAgrees, Agreeing, FillsIn, NotNewer
  <2> QED
      BY <1>5, <1>7, <1>8, <2>1, <2>2, <2>3, <2>4 DEF RestartInv
<1>12. CASE saving = 3
  <2>1. files' = [files EXCEPT !.fills = history] /\ saving' = 0
    <3>1. SaveFile(3) /\ saving' = 0
      <4>1. SaveFile(3)
            BY <1>1, <1>12
      <4>3. saving' = 0
            BY <1>1, <1>12
      <4> QED
          BY <4>1, <4>3
    <3>2. files' = [files EXCEPT !.fills = history]
          BY <3>1 DEF SaveFile
    <3> QED
        BY <3>1, <3>2
  <2>2. /\ files'.accounts = ledger /\ files'.orders = book
        /\ files'.positions = holdings /\ files'.fills = history
        /\ files' \in [accounts: [Wallets -> WalletRecords], orders: [PaperOrders -> OrderRecords],
                      positions: [Wallets -> SUBSET FillRecords], fills: SUBSET FillRecords,
                      deployments: SUBSET Wallets]
        BY <1>2, <1>12, <2>1 DEF RestartInv, SaveProgress
  <2>3. FilesAreOlder' /\ SaveProgress'
        BY <1>1, <1>3, <1>4, <2>1, <2>2 DEF RestartInv, FilesAreOlder, SaveProgress, NotNewer
  <2>4. WholeAgrees'
        BY <1>1, <2>2 DEF RestartInv, WholeAgrees, Agreeing, FillsIn
  <2> QED
      BY <1>3, <1>5, <1>7, <1>8, <2>1, <2>2, <2>3, <2>4 DEF RestartInv
<1> QED
    BY <1>1, <1>9, <1>10, <1>11, <1>12

LEMMA WriteFailsKeeps ==
    ASSUME RestartInv, WriteFails
    PROVE  RestartInv'
<1>1. /\ saving' = 0
      /\ UNCHANGED <<up, ledger, book, holdings, history, deployments, files, whole, split, opened,
                   lostWallets, minted, kills>>
      BY DEF WriteFails
<1>2. RestartTypeOK'
      BY <1>1 DEF RestartInv, RestartTypeOK
<1>3. MemoryConsistent' /\ SlotsHaveWallets'
      BY <1>1 DEF RestartInv, SlotsHaveWallets, MemoryConsistent, Consistent, FillsHaveWallets, FillsCharged, FillsHeld,
                  OrdersOver, OrphansLost, RestingHaveWallets, FillsMinted, OneFillPerOrder
<1>4. FilesConsistent'
      BY <1>1, FilesKept, Typed
<1>5. FilesAreOlder' /\ SaveProgress' /\ WholeAgrees'
      BY <1>1 DEF RestartInv, FilesAreOlder, SaveProgress, WholeAgrees, Agreeing, FillsIn, NotNewer
<1> QED
    BY <1>2, <1>3, <1>4, <1>5 DEF RestartInv

-------------------------------------------------------------------------------

LEMMA KillKeeps ==
    ASSUME RestartInv, Kill
    PROVE  RestartInv'
<1>1. /\ up' = FALSE /\ saving' = 0 /\ kills < MaxKills /\ kills' = kills + 1
      /\ ledger' = NoAccounts /\ book' = NoOrders /\ holdings' = NoHoldings /\ history' = {}
      /\ deployments' = {}
      /\ UNCHANGED <<files, whole, split, opened, lostWallets, minted>>
      BY DEF Kill
<1>2. /\ NoAccounts \in [Wallets -> WalletRecords] /\ NoOrders \in [PaperOrders -> OrderRecords]
      /\ NoHoldings \in [Wallets -> SUBSET FillRecords] /\ kills + 1 \in 0..MaxKills
      BY <1>1, PaperRestartAssumption
      DEF RestartInv, RestartTypeOK, PaperRestartAssumption, NoAccounts, NoOrders, NoHoldings, NoWallet, NoOrder,
          WalletRecords, OrderRecords
<1>3. RestartTypeOK'
  <2>1. up' \in BOOLEAN /\ whole' \in BOOLEAN /\ split' \in BOOLEAN
        BY <1>1 DEF RestartInv, RestartTypeOK
  <2> QED
      BY <1>1, <1>2, <2>1 DEF RestartInv, RestartTypeOK
<1>4. MemoryConsistent'
      BY <1>1 DEF MemoryConsistent, Consistent, FillsHaveWallets, FillsCharged, FillsHeld,
                  OrdersOver, OrphansLost, RestingHaveWallets, FillsMinted, OneFillPerOrder, NoOrders, NoOrder
<1>5. FilesConsistent'
      BY <1>1, FilesKept, Typed
<1>6. FilesAreOlder' /\ SaveProgress' /\ SlotsHaveWallets'
      BY <1>1 DEF FilesAreOlder, SaveProgress, SlotsHaveWallets
<1>7. WholeAgrees'
      BY <1>1 DEF RestartInv, WholeAgrees, Agreeing, FillsIn
<1> QED
    BY <1>3, <1>4, <1>5, <1>6, <1>7 DEF RestartInv

\* What the files have in common the memory has.
LEMMA LoadStateKeeps ==
    ASSUME RestartInv, LoadState
    PROVE  RestartInv'
<1> DEFINE A == files.accounts
<1>1. /\ ~ up /\ up' = TRUE /\ saving = 0 /\ saving' = 0
      /\ ledger' = WithDefault(A)
      /\ book' = files.orders /\ holdings' = files.positions /\ history' = files.fills
      /\ deployments' = files.deployments
      /\ split' = (split \/ ~ whole)
      /\ lostWallets' = lostWallets \cup {w \in files.deployments : ~ A[w].exists}
      /\ UNCHANGED <<files, whole, opened, minted, kills>>
  <2>1. saving = 0
        BY DEF LoadState, RestartInv, RestartTypeOK, SaveProgress
  <2> QED
      BY <2>1 DEF LoadState
<1>2. /\ A \in [Wallets -> WalletRecords] /\ files.orders \in [PaperOrders -> OrderRecords]
      /\ files.positions \in [Wallets -> SUBSET FillRecords] /\ files.fills \in SUBSET FillRecords
      /\ files.deployments \in SUBSET Wallets
      BY DEF RestartInv, RestartTypeOK
<1>3. /\ ledger' \in [Wallets -> WalletRecords] /\ ledger'[DefaultWallet].exists
      /\ \A w \in Wallets : A[w].exists => ledger'[w] = A[w]
      /\ \A w \in Wallets \ {DefaultWallet} : ledger'[w] = A[w]
      /\ ~ A[DefaultWallet].exists => ledger'[DefaultWallet] = [exists |-> TRUE, life |-> 0, charged |-> {}]
      BY <1>1, <1>2, DefaultAdded, PaperRestartAssumption
<1> HIDE DEF A
<1>4. RestartTypeOK'
  <2>1. up' \in BOOLEAN /\ whole' \in BOOLEAN /\ split' \in BOOLEAN
        BY <1>1 DEF RestartInv, RestartTypeOK
  <2>2. lostWallets' \subseteq Wallets
        BY <1>1, <1>2 DEF RestartInv, RestartTypeOK
  <2> QED
      BY <1>1, <1>2, <1>3, <2>1, <2>2 DEF RestartInv, RestartTypeOK
<1>5. FilesConsistent'
      BY <1>1, FilesKept, Typed
<1>6. Consistent(A, files.orders, files.positions, files.fills)'
      BY <1>5 DEF FilesConsistent, A
<1>7. A' = A /\ NotNewer(A, ledger')
  <2>1. \A w \in Wallets : A[w].life \in Nat
        BY <1>2, PaperRestartAssumption DEF WalletRecords, PaperRestartAssumption
  <2> QED
      BY <1>1, <1>3, <2>1 DEF NotNewer, A
<1>8. \A f \in files.fills : f.wallet \in Wallets /\ A[f.wallet].exists
      BY <1>1, <1>2, <1>6, <1>7 DEF Consistent, FillsHaveWallets, FillRecords
<1>9. MemoryConsistent'
  <2>1. FillsHaveWallets(ledger', files.fills) /\ FillsCharged(ledger', files.fills)
        /\ FillsHeld(ledger', files.positions, files.fills)
        BY <1>1, <1>3, <1>6, <1>7, <1>8 DEF Consistent, FillsHaveWallets, FillsCharged, FillsHeld
  <2>2. RestingHaveWallets(ledger, book)'
        BY <1>1, <1>2, <1>3, <1>6, <1>7 DEF Consistent, RestingHaveWallets, OrderRecords
  <2>3. /\ OrdersOver(book, history)' /\ OrphansLost(book, history)'
        /\ FillsMinted(history)' /\ OneFillPerOrder(history)'
        BY <1>1, <1>6 DEF Consistent, OrdersOver, OrphansLost, FillsMinted, OneFillPerOrder
  <2>4. FillsHaveWallets(ledger, history)' /\ FillsCharged(ledger, history)' /\ FillsHeld(ledger, holdings, history)'
        BY <1>1, <2>1 DEF FillsHaveWallets, FillsCharged, FillsHeld
  <2> QED
      BY <2>2, <2>3, <2>4 DEF MemoryConsistent, Consistent
<1>10. FilesAreOlder' /\ SaveProgress' /\ SlotsHaveWallets'
      BY <1>1, <1>2, <1>3, <1>7 DEF A, FilesAreOlder, SaveProgress, SlotsHaveWallets, NotNewer
<1>11. WholeAgrees'
  <2> SUFFICES ASSUME ~ split, whole
               PROVE  Agreeing(ledger, holdings, history)' /\ Agreeing(files.accounts, files.positions, files.fills)'
      BY <1>1 DEF WholeAgrees
  <2>1. Agreeing(A, files.positions, files.fills)
        BY DEF RestartInv, WholeAgrees, A
  <2>2. Agreeing(files.accounts, files.positions, files.fills)'
        BY <1>1, <2>1 DEF Agreeing, FillsIn, A
  <2>3. ASSUME NEW w \in Wallets
        PROVE  FillsIn(ledger', files.fills, w) = ledger'[w].charged /\ FillsIn(ledger', files.fills, w) = files.positions[w]
    <3>1. CASE A[w].exists
          BY <1>3, <2>1, <3>1 DEF Agreeing, FillsIn
    <3>2. CASE ~ A[w].exists
      <4>1. FillsIn(A, files.fills, w) = {} /\ FillsIn(ledger', files.fills, w) = {}
            BY <1>8, <3>2 DEF FillsIn
      <4>2. ledger'[w].charged = {}
            BY <1>3, <2>1, <3>2, <4>1 DEF Agreeing
      <4> QED
          BY <2>1, <4>1, <4>2 DEF Agreeing
    <3> QED
        BY <3>1, <3>2
  <2> QED
      BY <1>1, <2>2, <2>3 DEF Agreeing, FillsIn
<1> QED
    BY <1>4, <1>5, <1>9, <1>10, <1>11 DEF RestartInv

-------------------------------------------------------------------------------

LEMMA RestartNextInv == RestartInv /\ [RestartNext]_restartVars => RestartInv'
<1> SUFFICES ASSUME RestartInv, [RestartNext]_restartVars PROVE RestartInv'
    OBVIOUS
<1>1. CASE \E w \in Wallets : OpenWallet(w) \/ DeploymentSaved(w) \/ ResetWallet(w)
      BY <1>1, OpenWalletKeeps, DeploymentSavedKeeps, ResetKeeps
<1>2. CASE \E o \in PaperOrders : FillPaperOrder(o) \/ CancelPaperOrder(o)
      BY <1>2, FillKeeps, CancelKeeps
<1>3. CASE \E o \in PaperOrders, w \in Wallets : PlacePaperOrder(o, w)
      BY <1>3, PlaceKeeps
<1>4. CASE SaveStep \/ WriteFails
      BY <1>4, SaveStepKeeps, WriteFailsKeeps
<1>5. CASE Kill \/ LoadState
      BY <1>5, KillKeeps, LoadStateKeeps
<1>6. CASE UNCHANGED restartVars
  <2>1. RestartTypeOK'
        BY <1>6 DEF restartVars, RestartInv, RestartTypeOK
  <2>2. MemoryConsistent' /\ FilesConsistent'
        BY <1>6 DEF restartVars, RestartInv, MemoryConsistent, FilesConsistent, Consistent, FillsHaveWallets,
                    FillsCharged, FillsHeld, OrdersOver, OrphansLost, RestingHaveWallets, FillsMinted, OneFillPerOrder
  <2>3. FilesAreOlder' /\ SaveProgress' /\ SlotsHaveWallets' /\ WholeAgrees'
        BY <1>6 DEF restartVars, RestartInv, FilesAreOlder, SaveProgress, SlotsHaveWallets, WholeAgrees, Agreeing, FillsIn, NotNewer
  <2> QED
      BY <2>1, <2>2, <2>3 DEF RestartInv
<1> QED
    BY <1>1, <1>2, <1>3, <1>4, <1>5, <1>6 DEF RestartNext

LEMMA RestartInvariance == RestartSpec => []RestartInv
<1> QED
    BY RestartInitInv, RestartNextInv, PTL DEF RestartSpec

-------------------------------------------------------------------------------

\* The types of the memory and the files.
THEOREM RestartTypes == RestartSpec => []RestartTypeOK
<1>1. RestartInv => RestartTypeOK
      BY DEF RestartInv
<1> QED
    BY <1>1, RestartInvariance, PTL

\* Whatever file the process dies at, and however often: a fill that comes back
\* is charged and held, files of one save agree, and only the orders of a
\* deployment whose wallet was never saved are charged to another wallet.
THEOREM FillsComeBackBooked == RestartSpec => []RestoredFillsAreBooked
<1>1. RestartInv => RestoredFillsAreBooked
  <2> SUFFICES ASSUME RestartInv PROVE RestoredFillsAreBooked
      OBVIOUS
  <2>1. \A f \in history :
           Current(f) => /\ f \in ledger[f.wallet].charged
                         /\ f \in holdings[f.wallet]
                         /\ book[f.order].status \in {"none", "filled"}
        BY DEF RestartInv, MemoryConsistent, Consistent, FillsCharged, FillsHeld, OrdersOver, Current
  <2>2. ASSUME up, ~ split, NEW w \in Wallets, ledger[w].exists
        PROVE  CurrentFills(w) = ledger[w].charged /\ CurrentFills(w) = holdings[w]
    <3>1. CurrentFills(w) = FillsIn(ledger, history, w)
          BY <2>2 DEF CurrentFills, Current, FillsIn
    <3> QED
        BY <2>2, <3>1 DEF RestartInv, WholeAgrees, Agreeing
  <2>3. \A f, g \in history : f.order = g.order => f = g
        BY DEF RestartInv, MemoryConsistent, Consistent, OneFillPerOrder
  <2>4. \A f \in history : book[f.order].status = "filled" /\ book[f.order].wallet # f.wallet
                              => book[f.order].wallet \in lostWallets
        BY DEF RestartInv, MemoryConsistent, Consistent, OrphansLost
  <2> QED
      BY <2>1, <2>2, <2>3, <2>4 DEF RestoredFillsAreBooked
<1> QED
    BY <1>1, RestartInvariance, PTL

-------------------------------------------------------------------------------
(***************************************************************************)
(* The sockets of Polymarket's clients, for any browsers and tokens and    *)
(* any number of clients, sockets and reconnect loops.                     *)
(*                                                                         *)
(* That a client's open socket serves what the client recorded rests on    *)
(* one more fact: a socket is new when it is opened, so that no client     *)
(* believes to hold it, and a client that is new has recorded nothing.     *)
(***************************************************************************)

\* No client holds a socket that was never opened.
HeldSocketsAreOpened ==
    \A c \in Clients : clients[c].current # NoSocket => sockets[clients[c].current].state # "unused"

\* A client not made yet is as at first.
NewClientsAreEmpty ==
    \A c \in Clients : c > made => clients[c].recorded = {} /\ clients[c].loops = 0

\* Sockets in use, and clients shared or given, have been made.
OnlyMadeAreUsed ==
    /\ sharedClient # Nobody => sharedClient <= made
    /\ \A f \in Frontends : frontends[f].given # Nobody => frontends[f].given <= made
    /\ \A k \in Sockets : sockets[k].state # "unused" => sockets[k].client \in Clients /\ sockets[k].client <= made

PolyInv ==
    /\ PolyTypeOK
    /\ HeldSocketsAreOpened /\ NewClientsAreEmpty /\ OnlyMadeAreUsed
    /\ RecordedTokensServed

-------------------------------------------------------------------------------

\* Numbers, and what is none of them.
LEMMA Numbers ==
    /\ MaxClients \in Nat /\ MaxSockets \in Nat
    /\ Nobody \notin Clients /\ NoSocket \notin Sockets
    /\ Nobody \notin Frontends
    /\ Clients \subseteq Nat /\ Sockets \subseteq Nat
BY PolyAssumption DEF PolyAssumption, Clients, Sockets, NoSocket

LEMMA PolyInitInv == PolyInit => PolyInv
<1> SUFFICES ASSUME PolyInit PROVE PolyInv
    OBVIOUS
<1>1. clients \in [Clients -> [closing: BOOLEAN, current: Sockets \cup {NoSocket},
                               recorded: SUBSET Tokens, loops: Nat]]
      BY Numbers DEF PolyInit
<1>2. sockets \in [Sockets -> [client: Clients \cup {Nobody}, state: SocketStates, tokens: SUBSET Tokens]]
      BY DEF PolyInit, SocketStates
<1>3. frontends \in [Frontends -> [pc: {"away", "arrived", "connecting", "in", "gone"},
                                   given: Clients \cup {Nobody}, wants: SUBSET Tokens]]
      BY DEF PolyInit
<1>4. polling \in BOOLEAN
      BY DEF PolyInit
<1>5. PolyTypeOK
      BY <1>1, <1>2, <1>3, <1>4, Numbers DEF PolyInit, PolyTypeOK
<1>6. HeldSocketsAreOpened /\ NewClientsAreEmpty /\ RecordedTokensServed
      BY Numbers DEF PolyInit, HeldSocketsAreOpened, NewClientsAreEmpty, RecordedTokensServed, SocketIn
<1>7. OnlyMadeAreUsed
      BY DEF PolyInit, OnlyMadeAreUsed
<1> QED
    BY <1>5, <1>6, <1>7 DEF PolyInv

\* A step that leaves clients and sockets alone.
LEMMA LinksUntouched ==
    ASSUME PolyInv, PolyTypeOK', UNCHANGED <<clients, made, sockets>>,
           sharedClient' # Nobody => sharedClient' <= made,
           \A f \in Frontends : frontends'[f].given # Nobody => frontends'[f].given <= made
    PROVE  PolyInv'
BY DEF PolyInv, HeldSocketsAreOpened, NewClientsAreEmpty, OnlyMadeAreUsed, RecordedTokensServed, SocketIn

LEMMA ArriveKeeps ==
    ASSUME PolyInv, NEW f \in Frontends, Arrive(f) \/ TakeShared(f) \/ ClientFails(f) \/ Leave(f)
    PROVE  PolyInv'
<1>1. /\ UNCHANGED <<sharedClient, clients, made, sockets, pollTokens, polling>>
      /\ bridgeLock' \in Frontends \cup {Nobody}
      BY DEF PolyInv, PolyTypeOK, Arrive, TakeShared, ClientFails, Leave
<1>2. /\ frontends' \in [Frontends -> [pc: {"away", "arrived", "connecting", "in", "gone"},
                                       given: Clients \cup {Nobody}, wants: SUBSET Tokens]]
      /\ \A g \in Frontends : frontends'[g].given \in {frontends[g].given, sharedClient, Nobody}
  <2>1. /\ sharedClient \in Clients \cup {Nobody}
        /\ frontends \in [Frontends -> [pc: {"away", "arrived", "connecting", "in", "gone"},
                                        given: Clients \cup {Nobody}, wants: SUBSET Tokens]]
        BY DEF PolyInv, PolyTypeOK
  <2>2. CASE Arrive(f)
        BY <2>1, <2>2 DEF Arrive
  <2>3. CASE TakeShared(f) \/ ClientFails(f)
    <3>1. frontends' = [frontends EXCEPT ![f].pc = "in", ![f].given = sharedClient]
          BY <2>3 DEF TakeShared, ClientFails
    <3> QED
        BY <2>1, <3>1
  <2>4. CASE Leave(f)
        BY <2>1, <2>4 DEF Leave
  <2> QED
      BY <2>2, <2>3, <2>4
<1>3. PolyTypeOK'
      BY <1>1, <1>2 DEF PolyInv, PolyTypeOK
<1>4. \A g \in Frontends : frontends'[g].given # Nobody => frontends'[g].given <= made
      BY <1>2 DEF PolyInv, OnlyMadeAreUsed
<1> QED
    BY <1>1, <1>3, <1>4, LinksUntouched DEF PolyInv, OnlyMadeAreUsed

LEMMA StopPollingKeeps ==
    ASSUME PolyInv, StopPolling
    PROVE  PolyInv'
<1>1. UNCHANGED <<sharedClient, bridgeLock, clients, made, sockets, frontends, pollTokens>> /\ polling' = FALSE
      BY DEF StopPolling
<1>2. PolyTypeOK'
      BY <1>1 DEF PolyInv, PolyTypeOK
<1> QED
    BY <1>1, <1>2, LinksUntouched DEF PolyInv, OnlyMadeAreUsed

LEMMA UnsubscribeKeeps ==
    ASSUME PolyInv, NEW f \in Frontends, NEW t \in Tokens, UnsubscribeToken(f, t)
    PROVE  PolyInv'
<1>1. /\ frontends' = [frontends EXCEPT ![f].wants = @ \ {t}]
      /\ pollTokens' = pollTokens \ {t}
      /\ UNCHANGED <<sharedClient, bridgeLock, clients, made, sockets, polling>>
      BY DEF UnsubscribeToken
<1>2. /\ frontends' \in [Frontends -> [pc: {"away", "arrived", "connecting", "in", "gone"},
                                       given: Clients \cup {Nobody}, wants: SUBSET Tokens]]
      /\ \A g \in Frontends : frontends'[g].given = frontends[g].given
      BY <1>1 DEF PolyInv, PolyTypeOK
<1>3. PolyTypeOK'
      BY <1>1, <1>2 DEF PolyInv, PolyTypeOK
<1> QED
    BY <1>1, <1>2, <1>3, LinksUntouched DEF PolyInv, OnlyMadeAreUsed

\* The lock is taken, and a client that is not connected is closed.
LEMMA MakeClientKeeps ==
    ASSUME PolyInv, NEW f \in Frontends, MakeClient(f)
    PROVE  PolyInv'
<1>1. /\ bridgeLock' = f /\ sharedClient' = Nobody
      /\ clients' = IF sharedClient = Nobody THEN clients
                    ELSE [clients EXCEPT ![sharedClient].closing = TRUE]
      /\ frontends' = [frontends EXCEPT ![f].pc = "connecting"]
      /\ UNCHANGED <<made, sockets, pollTokens, polling>>
      BY DEF MakeClient
<1>2. /\ clients' \in [Clients -> [closing: BOOLEAN, current: Sockets \cup {NoSocket},
                                   recorded: SUBSET Tokens, loops: Nat]]
      /\ \A c \in Clients : /\ clients'[c].current = clients[c].current
                            /\ clients'[c].recorded = clients[c].recorded
                            /\ clients'[c].loops = clients[c].loops
      BY <1>1 DEF PolyInv, PolyTypeOK
<1>3. /\ frontends' \in [Frontends -> [pc: {"away", "arrived", "connecting", "in", "gone"},
                                       given: Clients \cup {Nobody}, wants: SUBSET Tokens]]
      /\ \A g \in Frontends : frontends'[g].given = frontends[g].given
      BY <1>1 DEF PolyInv, PolyTypeOK
<1>4. PolyTypeOK'
      BY <1>1, <1>2, <1>3 DEF PolyInv, PolyTypeOK
<1>5. HeldSocketsAreOpened' /\ NewClientsAreEmpty' /\ RecordedTokensServed'
      BY <1>1, <1>2 DEF PolyInv, HeldSocketsAreOpened, NewClientsAreEmpty, RecordedTokensServed, SocketIn
<1>6. OnlyMadeAreUsed'
      BY <1>1, <1>3 DEF PolyInv, OnlyMadeAreUsed
<1> QED
    BY <1>4, <1>5, <1>6 DEF PolyInv

LEMMA SubscribeKeeps ==
    ASSUME PolyInv, NEW f \in Frontends, NEW t \in Tokens, SubscribeToken(f, t)
    PROVE  PolyInv'
<1> DEFINE c == frontends[f].given
<1>1. /\ frontends' = [frontends EXCEPT ![f].wants = @ \cup {t}]
      /\ pollTokens' = pollTokens \cup {t}
      /\ UNCHANGED <<sharedClient, bridgeLock, made>>
      BY DEF SubscribeToken
<1>2. /\ frontends' \in [Frontends -> [pc: {"away", "arrived", "connecting", "in", "gone"},
                                       given: Clients \cup {Nobody}, wants: SUBSET Tokens]]
      /\ \A g \in Frontends : frontends'[g].given = frontends[g].given
      BY <1>1 DEF PolyInv, PolyTypeOK
<1>3. polling' \in BOOLEAN
      BY Zenon DEF SubscribeToken, PolyInv, PolyTypeOK
<1>4. CASE UNCHANGED <<clients, sockets>>
  <2>1. PolyTypeOK'
        BY <1>1, <1>2, <1>3, <1>4 DEF PolyInv, PolyTypeOK
  <2> QED
      BY <1>1, <1>2, <1>4, <2>1, LinksUntouched DEF PolyInv, OnlyMadeAreUsed
<1>5. CASE c # Nobody /\ Connected(c)
  <2> DEFINE k == clients[c].current
  <2>1. c \in Clients /\ c <= made /\ k \in Sockets
        BY <1>5 DEF PolyInv, PolyTypeOK, OnlyMadeAreUsed, Connected
  <2>2. /\ clients' = [clients EXCEPT ![c].recorded = @ \cup {t}]
        /\ sockets' = IF SocketIn(k, "open") THEN [sockets EXCEPT ![k].tokens = @ \cup {t}] ELSE sockets
        BY <1>5 DEF SubscribeToken
  <2> HIDE DEF c, k
  <2>3. /\ clients' \in [Clients -> [closing: BOOLEAN, current: Sockets \cup {NoSocket},
                                     recorded: SUBSET Tokens, loops: Nat]]
        /\ \A d \in Clients : /\ clients'[d].current = clients[d].current
                              /\ clients'[d].loops = clients[d].loops
                              /\ d # c => clients'[d].recorded = clients[d].recorded
        /\ clients'[c].recorded = clients[c].recorded \cup {t}
        BY <2>1, <2>2 DEF PolyInv, PolyTypeOK
  <2>4. /\ sockets' \in [Sockets -> [client: Clients \cup {Nobody}, state: SocketStates, tokens: SUBSET Tokens]]
        /\ \A j \in Sockets : /\ sockets'[j].state = sockets[j].state
                              /\ sockets'[j].client = sockets[j].client
                              /\ sockets[j].tokens \subseteq sockets'[j].tokens
        /\ SocketIn(k, "open") => t \in sockets'[k].tokens
        BY <2>1, <2>2 DEF PolyInv, PolyTypeOK
  <2>5. PolyTypeOK'
        BY <1>1, <1>2, <1>3, <2>3, <2>4 DEF PolyInv, PolyTypeOK
  <2>6. HeldSocketsAreOpened'
        BY <2>3, <2>4 DEF PolyInv, PolyTypeOK, HeldSocketsAreOpened
  <2>7. NewClientsAreEmpty'
        BY <1>1, <2>1, <2>3, Numbers DEF PolyInv, PolyTypeOK, NewClientsAreEmpty
  <2>8. OnlyMadeAreUsed'
        BY <1>1, <1>2, <2>4 DEF PolyInv, OnlyMadeAreUsed
  <2>9. RecordedTokensServed'
    <3> SUFFICES ASSUME NEW d \in Clients, clients'[d].current \in Sockets,
                        sockets'[clients'[d].current].state = "open"
                 PROVE  clients'[d].recorded \subseteq sockets'[clients'[d].current].tokens
        BY DEF RecordedTokensServed, SocketIn
    <3>1. SocketIn(clients[d].current, "open") /\ clients'[d].current = clients[d].current
          BY <2>3, <2>4 DEF SocketIn
    <3>2. clients[d].recorded \subseteq sockets'[clients[d].current].tokens
          BY <2>4, <3>1 DEF PolyInv, RecordedTokensServed, SocketIn
    <3> QED
        BY <2>3, <2>4, <3>1, <3>2 DEF k
  <2> QED
      BY <2>5, <2>6, <2>7, <2>8, <2>9 DEF PolyInv
<1> QED
    BY <1>4, <1>5 DEF SubscribeToken

-------------------------------------------------------------------------------

\* A socket ends, and with it what its client holds, or nothing of it.
LEMMA ClosingKeeps ==
    ASSUME PolyInv, NEW k \in Sockets, NEW state \in {"lost", "silent"}, SocketCloses(k, state)
    PROVE  PolyInv'
<1>1. /\ sockets[k].state = "open" /\ sockets' = [sockets EXCEPT ![k].state = state]
      /\ UNCHANGED <<sharedClient, bridgeLock, clients, made, frontends, pollTokens, polling>>
      BY DEF SocketCloses
<1>2. /\ sockets' \in [Sockets -> [client: Clients \cup {Nobody}, state: SocketStates, tokens: SUBSET Tokens]]
      /\ \A j \in Sockets : /\ sockets'[j].client = sockets[j].client /\ sockets'[j].tokens = sockets[j].tokens
                            /\ j # k => sockets'[j].state = sockets[j].state
      /\ sockets'[k].state = state
      BY <1>1 DEF PolyInv, PolyTypeOK, SocketStates
<1>3. PolyTypeOK'
      BY <1>1, <1>2 DEF PolyInv, PolyTypeOK
<1>4. HeldSocketsAreOpened' /\ NewClientsAreEmpty' /\ RecordedTokensServed'
      BY <1>1, <1>2 DEF PolyInv, PolyTypeOK, HeldSocketsAreOpened, NewClientsAreEmpty, RecordedTokensServed, SocketIn
<1>5. OnlyMadeAreUsed'
      BY <1>1, <1>2 DEF PolyInv, OnlyMadeAreUsed
<1> QED
    BY <1>3, <1>4, <1>5 DEF PolyInv

\* A receive loop gives up the socket its client holds.
LEMMA GivingUpKeeps ==
    ASSUME PolyInv, NEW k \in Sockets, NoticeLost(k) \/ ReceiveLoopFails(k)
    PROVE  PolyInv'
<1> DEFINE c == sockets[k].client
<1>1. /\ sockets[k].state # "unused"
      /\ clients' = [clients EXCEPT ![c].current = NoSocket,
                                    ![c].loops = IF clients[c].closing THEN @ ELSE @ + 1]
      /\ sockets' = [sockets EXCEPT ![k].state = "ended"]
      /\ sharedClient' \in {sharedClient, Nobody}
      /\ UNCHANGED <<bridgeLock, made, frontends, pollTokens, polling>>
      BY DEF NoticeLost, ReceiveLoopFails, ReceiveLoopGivesUp
<1>2. c \in Clients /\ c <= made
      BY <1>1 DEF PolyInv, OnlyMadeAreUsed
<1>3. /\ sockets' \in [Sockets -> [client: Clients \cup {Nobody}, state: SocketStates, tokens: SUBSET Tokens]]
      /\ \A j \in Sockets : /\ sockets'[j].client = sockets[j].client /\ sockets'[j].tokens = sockets[j].tokens
                            /\ j # k => sockets'[j].state = sockets[j].state
      /\ sockets'[k].state = "ended"
      BY <1>1 DEF PolyInv, PolyTypeOK, SocketStates
<1> HIDE DEF c
<1>4. /\ clients' \in [Clients -> [closing: BOOLEAN, current: Sockets \cup {NoSocket},
                                   recorded: SUBSET Tokens, loops: Nat]]
      /\ \A d \in Clients : /\ clients'[d].recorded = clients[d].recorded
                            /\ d # c => clients'[d] = clients[d]
      /\ clients'[c].current = NoSocket
  <2>1. clients[c].loops \in Nat /\ clients \in [Clients -> [closing: BOOLEAN, current: Sockets \cup {NoSocket},
                                   recorded: SUBSET Tokens, loops: Nat]]
        BY <1>2 DEF PolyInv, PolyTypeOK
  <2>2. PICK n \in Nat : clients' = [clients EXCEPT ![c].current = NoSocket, ![c].loops = n]
    <3>1. CASE clients[c].closing
      <4>1. clients' = [clients EXCEPT ![c].current = NoSocket, ![c].loops = clients[c].loops]
            BY <1>1, <1>2, <2>1, <3>1 DEF c
      <4> QED
          BY <1>2, <2>1, <4>1
    <3>2. CASE ~ clients[c].closing
      <4>1. clients' = [clients EXCEPT ![c].current = NoSocket, ![c].loops = clients[c].loops + 1]
            BY <1>1, <1>2, <2>1, <3>2 DEF c
      <4>2. clients[c].loops + 1 \in Nat
            BY <1>2, <2>1
      <4> QED
          BY <4>1, <4>2
    <3> QED
        BY <3>1, <3>2
  <2> QED
      BY <1>2, <2>1, <2>2
<1>5. PolyTypeOK'
      BY <1>1, <1>3, <1>4 DEF PolyInv, PolyTypeOK
<1>6. HeldSocketsAreOpened' /\ NewClientsAreEmpty'
      BY <1>1, <1>2, <1>3, <1>4, Numbers DEF PolyInv, PolyTypeOK, HeldSocketsAreOpened, NewClientsAreEmpty
<1>7. OnlyMadeAreUsed'
      BY <1>1, <1>3 DEF PolyInv, OnlyMadeAreUsed
<1>8. RecordedTokensServed'
  <2> SUFFICES ASSUME NEW d \in Clients, clients'[d].current \in Sockets,
                      sockets'[clients'[d].current].state = "open"
               PROVE  clients'[d].recorded \subseteq sockets'[clients'[d].current].tokens
      BY DEF RecordedTokensServed, SocketIn
  <2>1. d # c /\ clients'[d] = clients[d]
        BY <1>4, Numbers
  <2>2. /\ sockets[clients[d].current].state = "open"
        /\ sockets'[clients[d].current].tokens = sockets[clients[d].current].tokens
        BY <1>3, <2>1
  <2> QED
      BY <2>1, <2>2 DEF PolyInv, RecordedTokensServed, SocketIn
<1> QED
    BY <1>5, <1>6, <1>7, <1>8 DEF PolyInv

-------------------------------------------------------------------------------

\* Client c opens socket k, which is new, in a state in which it serves the
\* tokens recorded if it is open at all.
LEMMA OpeningKeeps ==
    ASSUME PolyInv, NEW c \in Clients, NEW k \in Sockets, Fresh(k),
           NEW state \in SocketStates \ {"unused"}, NEW tokens \in SUBSET Tokens,
           Opened(k, c, state, tokens),
           state = "open" => clients[c].recorded \subseteq tokens,
           NEW loops \in Nat,
           clients' = [clients EXCEPT ![c].current = k, ![c].loops = loops],
           made' \in 0..MaxClients, made <= made', c <= made',
           sharedClient' \in Clients \cup {Nobody}, sharedClient' # Nobody => sharedClient' <= made',
           frontends' \in [Frontends -> [pc: {"away", "arrived", "connecting", "in", "gone"},
                                         given: Clients \cup {Nobody}, wants: SUBSET Tokens]],
           \A f \in Frontends : frontends'[f].given # Nobody => frontends'[f].given <= made',
           bridgeLock' \in Frontends \cup {Nobody},
           UNCHANGED <<pollTokens, polling>>
    PROVE  PolyInv'
<1>1. /\ sockets[k].state = "unused"
      /\ sockets' = [sockets EXCEPT ![k] = [client |-> c, state |-> state, tokens |-> tokens]]
      BY DEF Fresh, SocketIn, Opened
<1>2. /\ sockets' \in [Sockets -> [client: Clients \cup {Nobody}, state: SocketStates, tokens: SUBSET Tokens]]
      /\ \A j \in Sockets \ {k} : sockets'[j] = sockets[j]
      /\ sockets'[k].client = c /\ sockets'[k].state = state /\ sockets'[k].tokens = tokens
      BY <1>1 DEF PolyInv, PolyTypeOK
<1>3. /\ clients' \in [Clients -> [closing: BOOLEAN, current: Sockets \cup {NoSocket},
                                   recorded: SUBSET Tokens, loops: Nat]]
      /\ \A d \in Clients \ {c} : clients'[d] = clients[d]
      /\ clients'[c].current = k /\ clients'[c].recorded = clients[c].recorded
  <2>1. clients \in [Clients -> [closing: BOOLEAN, current: Sockets \cup {NoSocket},
                                 recorded: SUBSET Tokens, loops: Nat]]
        BY DEF PolyInv, PolyTypeOK
  <2>2. clients' = [clients EXCEPT ![c] = [clients[c] EXCEPT !.current = k, !.loops = loops]]
        BY <2>1
  <2>3. [clients[c] EXCEPT !.current = k, !.loops = loops]
           \in [closing: BOOLEAN, current: Sockets \cup {NoSocket}, recorded: SUBSET Tokens, loops: Nat]
        BY <2>1
  <2> QED
      BY <2>1, <2>2, <2>3
<1>4. made \in Nat /\ made' \in Nat /\ Clients \subseteq Nat
      BY Numbers DEF PolyInv, PolyTypeOK
<1>5. PolyTypeOK'
      BY <1>2, <1>3 DEF PolyInv, PolyTypeOK
<1>6. HeldSocketsAreOpened'
      BY <1>1, <1>2, <1>3 DEF PolyInv, PolyTypeOK, HeldSocketsAreOpened
<1>7. NewClientsAreEmpty'
      BY <1>3, <1>4 DEF PolyInv, NewClientsAreEmpty
<1>8. OnlyMadeAreUsed'
      BY <1>2, <1>4 DEF PolyInv, OnlyMadeAreUsed
<1>9. RecordedTokensServed'
  <2> SUFFICES ASSUME NEW d \in Clients, clients'[d].current \in Sockets,
                      sockets'[clients'[d].current].state = "open"
               PROVE  clients'[d].recorded \subseteq sockets'[clients'[d].current].tokens
      BY DEF RecordedTokensServed, SocketIn
  <2>1. CASE d = c
        BY <1>2, <1>3, <2>1
  <2>2. CASE d # c
    <3>1. clients'[d] = clients[d] /\ clients[d].current # k
          BY <1>1, <1>3, <2>2, Numbers DEF PolyInv, HeldSocketsAreOpened
    <3>2. sockets'[clients[d].current] = sockets[clients[d].current]
          BY <1>2, <3>1
    <3> QED
        BY <3>1, <3>2 DEF PolyInv, RecordedTokensServed, SocketIn
  <2> QED
      BY <2>1, <2>2
<1> QED
    BY <1>5, <1>6, <1>7, <1>8, <1>9 DEF PolyInv

LEMMA ClientConnectsKeeps ==
    ASSUME PolyInv, NEW f \in Frontends, NEW k \in Sockets, ClientConnects(f, k)
    PROVE  PolyInv'
<1> DEFINE c == made + 1
<1>1. /\ made < MaxClients /\ Fresh(k) /\ made' = c
      /\ clients' = [clients EXCEPT ![c].current = k]
      /\ Opened(k, c, "open", {})
      /\ sharedClient' = c /\ bridgeLock' = Nobody
      /\ frontends' = [frontends EXCEPT ![f].pc = "in", ![f].given = c]
      /\ UNCHANGED <<pollTokens, polling>>
      BY DEF ClientConnects
<1>2. made \in Nat /\ c \in Clients /\ made' \in 0..MaxClients /\ made <= made' /\ c <= made' /\ c > made
      BY <1>1, Numbers DEF PolyInv, PolyTypeOK, Clients
<1>3. c # Nobody
      BY <1>2, Numbers
<1> HIDE DEF c
<1>4. clients[c].recorded = {} /\ clients[c].loops = 0
      BY <1>2 DEF PolyInv, NewClientsAreEmpty
<1>5. clients' = [clients EXCEPT ![c].current = k, ![c].loops = 0]
      BY <1>1, <1>2, <1>4 DEF PolyInv, PolyTypeOK
<1>6. /\ frontends' \in [Frontends -> [pc: {"away", "arrived", "connecting", "in", "gone"},
                                       given: Clients \cup {Nobody}, wants: SUBSET Tokens]]
      /\ \A g \in Frontends : frontends'[g].given \in {frontends[g].given, c}
      BY ZenonT(30), <1>1, <1>2 DEF PolyInv, PolyTypeOK
<1>7. \A g \in Frontends : frontends'[g].given # Nobody => frontends'[g].given <= made'
  <2> SUFFICES ASSUME NEW g \in Frontends, frontends'[g].given # Nobody
               PROVE  frontends'[g].given <= made'
      OBVIOUS
  <2>1. CASE frontends'[g].given = c
        BY <1>2, <2>1
  <2>2. CASE frontends'[g].given = frontends[g].given
    <3>1. frontends[g].given <= made /\ frontends[g].given \in Nat
          BY <2>2, Numbers DEF PolyInv, OnlyMadeAreUsed, PolyTypeOK
    <3> QED
        BY <1>2, <2>2, <3>1, Numbers
  <2> QED
      BY <1>6, <2>1, <2>2
<1>8. "open" \in SocketStates \ {"unused"} /\ {} \in SUBSET Tokens /\ 0 \in Nat
      BY DEF SocketStates
<1>9. sharedClient' <= made' /\ sharedClient' \in Clients \cup {Nobody} /\ bridgeLock' \in Frontends \cup {Nobody}
      BY <1>1, <1>2
<1>10. "open" = "open" => clients[c].recorded \subseteq {}
       BY <1>4
<1>11. \A g \in Frontends : frontends'[g].given # Nobody => frontends'[g].given <= made'
       BY <1>7
<1>12. sharedClient' # Nobody => sharedClient' <= made'
       BY <1>9
<1> QED
    BY <1>1, <1>2, <1>5, <1>6, <1>8, <1>9, <1>10, <1>11, <1>12, OpeningKeeps

LEMMA ReconnectKeeps ==
    ASSUME PolyInv, NEW c \in Clients, NEW k \in Sockets, Reconnect(c, k) \/ ReconnectHalfway(c, k)
    PROVE  PolyInv'
<1>1. /\ Fresh(k) /\ clients[c].loops > 0
      /\ UNCHANGED <<sharedClient, bridgeLock, made, frontends, pollTokens, polling>>
      BY DEF Reconnect, ReconnectHalfway
<1>2. clients[c].loops \in Nat /\ clients[c].recorded \in SUBSET Tokens
      BY DEF PolyInv, PolyTypeOK
<1>3. clients[c].loops - 1 \in Nat /\ LoopsGoOn(c) \in Nat
      BY <1>1, <1>2 DEF LoopsGoOn
<1>4. c <= made
      BY <1>1, <1>2, Numbers DEF PolyInv, PolyTypeOK, NewClientsAreEmpty
<1>5. "open" \in SocketStates \ {"unused"} /\ "lost" \in SocketStates \ {"unused"} /\ {} \in SUBSET Tokens
      /\ "lost" # "open"
      BY DEF SocketStates
<1>6. /\ made' \in 0..MaxClients /\ made <= made' /\ c <= made'
      /\ sharedClient' \in Clients \cup {Nobody} /\ (sharedClient' # Nobody => sharedClient' <= made')
      /\ frontends' \in [Frontends -> [pc: {"away", "arrived", "connecting", "in", "gone"},
                                       given: Clients \cup {Nobody}, wants: SUBSET Tokens]]
      /\ \A f \in Frontends : frontends'[f].given # Nobody => frontends'[f].given <= made'
      /\ bridgeLock' \in Frontends \cup {Nobody}
      /\ UNCHANGED <<pollTokens, polling>>
      BY <1>1, <1>4, Numbers DEF PolyInv, PolyTypeOK, OnlyMadeAreUsed
<1>7. CASE Reconnect(c, k)
  <2>1. clients' = [clients EXCEPT ![c].current = k, ![c].loops = clients[c].loops - 1]
        BY <1>7 DEF Reconnect
  <2>2. Opened(k, c, "open", clients[c].recorded)
        BY <1>7 DEF Reconnect
  <2> QED
      BY <1>1, <1>2, <1>3, <1>5, <1>6, <2>1, <2>2, OpeningKeeps
<1>8. CASE ReconnectHalfway(c, k)
  <2>1. clients' = [clients EXCEPT ![c].current = k, ![c].loops = LoopsGoOn(c)]
        BY <1>8 DEF ReconnectHalfway
  <2>2. Opened(k, c, "lost", {})
        BY <1>8 DEF ReconnectHalfway
  <2> QED
      BY <1>1, <1>3, <1>5, <1>6, <2>1, <2>2, OpeningKeeps
<1> QED
    BY <1>7, <1>8

LEMMA ReconnectFailsKeeps ==
    ASSUME PolyInv, NEW c \in Clients, ReconnectFails(c)
    PROVE  PolyInv'
<1>1. /\ clients[c].loops > 0 /\ clients' = [clients EXCEPT ![c].loops = @ - 1]
      /\ UNCHANGED <<sharedClient, bridgeLock, made, sockets, frontends, pollTokens, polling>>
      BY DEF ReconnectFails
<1>2. /\ clients' \in [Clients -> [closing: BOOLEAN, current: Sockets \cup {NoSocket},
                                   recorded: SUBSET Tokens, loops: Nat]]
      /\ \A d \in Clients : /\ clients'[d].current = clients[d].current
                            /\ clients'[d].recorded = clients[d].recorded
                            /\ d # c => clients'[d].loops = clients[d].loops
  <2>1. clients[c].loops - 1 \in Nat
        BY <1>1 DEF PolyInv, PolyTypeOK
  <2> QED
      BY <1>1, <2>1 DEF PolyInv, PolyTypeOK
<1>3. PolyTypeOK'
      BY <1>1, <1>2 DEF PolyInv, PolyTypeOK
<1>4. NewClientsAreEmpty'
      BY <1>1, <1>2 DEF PolyInv, NewClientsAreEmpty
<1>5. HeldSocketsAreOpened' /\ RecordedTokensServed'
      BY <1>1, <1>2 DEF PolyInv, HeldSocketsAreOpened, RecordedTokensServed, SocketIn
<1>6. OnlyMadeAreUsed'
      BY <1>1 DEF PolyInv, OnlyMadeAreUsed
<1> QED
    BY <1>3, <1>4, <1>5, <1>6 DEF PolyInv

-------------------------------------------------------------------------------

LEMMA PolyNextInv == PolyInv /\ [PolyNext]_polyVars => PolyInv'
<1> SUFFICES ASSUME PolyInv, [PolyNext]_polyVars PROVE PolyInv'
    OBVIOUS
<1>1. CASE \E f \in Frontends : \/ Arrive(f) \/ TakeShared(f) \/ MakeClient(f) \/ ClientFails(f) \/ Leave(f)
                                \/ \E k \in Sockets : ClientConnects(f, k)
      BY <1>1, ArriveKeeps, MakeClientKeeps, ClientConnectsKeeps
<1>2. CASE \E f \in Frontends, t \in Tokens : SubscribeToken(f, t) \/ UnsubscribeToken(f, t)
      BY <1>2, SubscribeKeeps, UnsubscribeKeeps
<1>3. CASE \E k \in Sockets : \/ SocketCloses(k, "lost") \/ SocketCloses(k, "silent")
                              \/ NoticeLost(k) \/ ReceiveLoopFails(k)
      BY <1>3, ClosingKeeps, GivingUpKeeps
<1>4. CASE \E c \in Clients : \/ \E k \in Sockets : Reconnect(c, k) \/ ReconnectHalfway(c, k)
                              \/ ReconnectFails(c)
      BY <1>4, ReconnectKeeps, ReconnectFailsKeeps
<1>5. CASE StopPolling
      BY <1>5, StopPollingKeeps
<1>6. CASE UNCHANGED polyVars
  <2>1. PolyTypeOK'
        BY <1>6 DEF polyVars, PolyInv, PolyTypeOK
  <2> QED
      BY <1>6, <2>1, LinksUntouched DEF polyVars, PolyInv, OnlyMadeAreUsed
<1> QED
    BY <1>1, <1>2, <1>3, <1>4, <1>5, <1>6 DEF PolyNext

LEMMA PolyInvariance == PolySpec => []PolyInv
<1> QED
    BY PolyInitInv, PolyNextInv, PTL DEF PolySpec

-------------------------------------------------------------------------------

\* The types of clients, sockets and browsers.
THEOREM BridgeTypes == PolySpec => []PolyTypeOK
<1>1. PolyInv => PolyTypeOK
      BY DEF PolyInv
<1> QED
    BY <1>1, PolyInvariance, PTL

\* Whatever is lost and reopened, by however many reconnect loops: the socket a
\* client holds serves every token the client recorded.
THEOREM TokensServed == PolySpec => []RecordedTokensServed
<1>1. PolyInv => RecordedTokensServed
      BY DEF PolyInv
<1> QED
    BY <1>1, PolyInvariance, PTL

-------------------------------------------------------------------------------
(***************************************************************************)
(* What a backtest books and holds, for all prices, costs and risk         *)
(* parameters.                                                             *)
(*                                                                         *)
(* The three facts about the portfolio are inductive once the types and    *)
(* the runtime's first bars are added: what Execute does with a signal     *)
(* depends only on the sign of the holding, which PortfolioFollowsRuntime  *)
(* ties to the runtime's position, and on the sign of the cash.            *)
(***************************************************************************)

\* Positions are entered from the second bar on.
FlatAtFirst == bars < 2 => runtime.position = "flat"

BacktestInv ==
    /\ BacktestTypeOK
    /\ FlatAtFirst
    /\ TradesExplainCash
    /\ PortfolioFollowsRuntime
    /\ StopHonoured

-------------------------------------------------------------------------------

LEMMA SlippedType ==
    ASSUME NEW close \in ClosingPrices, NEW side
    PROVE  Slipped(close, side) \in Int
BY BacktestAssumption DEF Slipped

LEMMA FeeType ==
    ASSUME NEW price \in Int, NEW quantity \in Int
    PROVE  Fee(price, quantity) \in Int
BY BacktestAssumption DEF Fee

\* Something is affordable exactly when there is cash.
LEMMA AffordableSign ==
    ASSUME cash \in Int, NEW close \in ClosingPrices
    PROVE  /\ Affordable(close) \in Nat
           /\ Affordable(close) > 0 <=> cash > 0
<1>1. close \in Nat /\ close > 0
      BY BacktestAssumption
<1>2. CASE cash > 0
  <2>1. close * 100 \in Nat /\ close * 100 > 0 /\ cash * 95 \in Nat
        BY <1>1, <1>2
  <2>2. (cash * 95) \div (close * 100) \in Nat
        BY <2>1
  <2> QED
      BY <1>2, <2>2 DEF Affordable
<1>3. CASE ~ (cash > 0)
      BY <1>3 DEF Affordable
<1> QED
    BY <1>2, <1>3

\* The product rule the accounts rest on.
LEMMA Spread ==
    ASSUME NEW p \in Int, NEW q \in Int, NEW n \in Int
    PROVE  /\ (p - q) * n = p * n - q * n
           /\ p * (-n) = -(p * n)
           /\ (p - q) * (-n) = q * n - p * n
           /\ p * n \in Int
BY Z3

-------------------------------------------------------------------------------

\* An opening fill keeps the accounts, and leaves a holding of its side.
LEMMA OpenKeepsAccounts ==
    ASSUME BacktestTypeOK, TradesExplainCash, holding = 0,
           NEW side \in {"BUY", "SELL"}, NEW price \in Int, NEW fee \in Int,
           NEW quantity \in Nat, quantity > 0,
           Open(side, price, fee, quantity)
    PROVE  /\ TradesExplainCash'
           /\ cash' \in Int /\ holding' \in Int /\ realised' \in Int
           /\ entry' \in [price: Int, fee: Int]
           /\ side = "BUY" => holding' > 0
           /\ side = "SELL" => holding' < 0
<1>1. price * quantity \in Int /\ quantity * price = price * quantity
      /\ (-quantity) * price = -(price * quantity)
      BY Z3
<1>2. cash \in Int /\ realised \in Int /\ InitialCash \in Int
      BY BacktestAssumption DEF BacktestTypeOK
<1>3. cash = InitialCash + realised
      BY <1>2 DEF TradesExplainCash
<1>4. realised' = realised /\ entry' = [price |-> price, fee |-> fee]
      BY DEF Open
<1>5. entry'.price = price /\ entry'.fee = fee /\ entry' \in [price: Int, fee: Int]
      BY <1>4
<1>6. CASE side = "BUY"
  <2>1. cash' = cash - (price * quantity + fee) /\ holding' = quantity
        BY <1>6 DEF Open
  <2> QED
      BY <1>1, <1>2, <1>3, <1>4, <1>5, <1>6, <2>1 DEF TradesExplainCash
<1>7. CASE side = "SELL"
  <2>1. cash' = cash + (price * quantity - fee) /\ holding' = -quantity
        BY <1>7 DEF Open
  <2> QED
      BY <1>1, <1>2, <1>3, <1>4, <1>5, <1>7, <2>1 DEF TradesExplainCash
<1> QED
    BY <1>6, <1>7

\* So does a closing one, and nothing is held afterwards.
LEMMA CloseKeepsAccounts ==
    ASSUME BacktestTypeOK, TradesExplainCash, holding # 0,
           NEW price \in Int, NEW fee \in Int,
           CloseLong(price, fee) \/ CloseShort(price, fee)
    PROVE  /\ TradesExplainCash'
           /\ cash' \in Int /\ holding' = 0 /\ realised' \in Int
           /\ entry' = entry
<1>1. cash \in Int /\ holding \in Int /\ realised \in Int /\ InitialCash \in Int
      /\ entry.price \in Int /\ entry.fee \in Int
      BY BacktestAssumption DEF BacktestTypeOK
<1>2. cash = InitialCash + realised - (holding * entry.price + entry.fee)
      BY DEF TradesExplainCash
<1>3. /\ (price - entry.price) * holding = price * holding - entry.price * holding
      /\ price * (-holding) = -(price * holding)
      /\ (entry.price - price) * (-holding) = price * holding - entry.price * holding
      /\ price * holding \in Int /\ entry.price * holding \in Int
  <2>1. \A p, n \in Int : p * (-n) = -(p * n) /\ p * n \in Int
        BY Spread
  <2>2. (price - entry.price) * holding = price * holding - entry.price * holding
        BY <1>1, Z3
  <2>3. (entry.price - price) * (-holding) = price * holding - entry.price * holding
        BY <1>1, Z3
  <2>4. price * (-holding) = -(price * holding) /\ price * holding \in Int
        BY <1>1, <2>1, Zenon
  <2>5. entry.price * holding \in Int
        BY <1>1, <2>1, Zenon
  <2> QED
      BY <2>2, <2>3, <2>4, <2>5, Zenon
<1>4. holding * entry.price = entry.price * holding
      BY <1>1, Z3
<1>5. holding' = 0 /\ entry' = entry
      BY DEF CloseLong, CloseShort
<1>6. CASE CloseLong(price, fee)
  <2>1. /\ cash' = cash + (price * holding - fee)
        /\ realised' = realised + ((price - entry.price) * holding - entry.fee - fee)
        BY <1>6 DEF CloseLong
  <2>2. cash' \in Int /\ realised' \in Int /\ cash' = InitialCash + realised'
        BY <1>1, <1>2, <1>3, <1>4, <2>1
  <2> QED
      BY <1>1, <1>5, <2>2 DEF TradesExplainCash
<1>7. CASE CloseShort(price, fee)
  <2>1. /\ cash' = cash - (price * (-holding) + fee)
        /\ realised' = realised + ((entry.price - price) * (-holding) - entry.fee - fee)
        BY <1>7 DEF CloseShort
  <2>2. cash' \in Int /\ realised' \in Int /\ cash' = InitialCash + realised'
        BY <1>1, <1>2, <1>3, <1>4, <2>1
  <2> QED
      BY <1>1, <1>5, <2>2 DEF TradesExplainCash
<1> QED
    BY <1>6, <1>7

-------------------------------------------------------------------------------

LEMMA BacktestInitInv == BacktestInit => BacktestInv
<1> SUFFICES ASSUME BacktestInit PROVE BacktestInv
    OBVIOUS
<1>1. BacktestTypeOK
      BY BacktestAssumption DEF BacktestInit, BacktestTypeOK, Positions
<1>2. FlatAtFirst /\ PortfolioFollowsRuntime /\ StopHonoured
      BY DEF BacktestInit, FlatAtFirst, PortfolioFollowsRuntime, StopHonoured
<1>3. TradesExplainCash
      BY BacktestAssumption DEF BacktestInit, TradesExplainCash
<1> QED
    BY <1>1, <1>2, <1>3 DEF BacktestInv

\* The runtime's part of a bar: its position moves as its signal says, and a
\* position it keeps or enters is within its stop.
LEMMA OnKlineMoves ==
    ASSUME BacktestInv, NEW close \in ClosingPrices, NEW signal \in Signals,
           OnKline(close, signal), bars' \in 0..KeptBars, bars' >= bars
    PROVE  /\ runtime' \in [position: Positions, entry: Nat]
           /\ FlatAtFirst'
           /\ \/ signal = "none" /\ runtime' = runtime
              \/ /\ signal = "BUY" /\ runtime.position = "flat"
                 /\ runtime' = [position |-> "long", entry |-> close]
              \/ /\ signal = "SELL" /\ runtime.position = "flat"
                 /\ runtime' = [position |-> "short", entry |-> close]
              \/ /\ signal = Exit(runtime.position) /\ runtime.position # "flat"
                 /\ runtime'.position = "flat" /\ runtime'.entry = runtime.entry
           /\ runtime' = runtime /\ runtime.position # "flat" => ~ RiskCloses(close)
<1> USE BacktestAssumption DEF BacktestInv
<1>1. runtime \in [position: Positions, entry: Nat] /\ bars \in 0..KeptBars /\ close \in Nat
      BY DEF BacktestTypeOK
<1>2. CASE bars' < 2
  <2>1. signal = "none" /\ runtime' = runtime
        BY <1>2 DEF OnKline
  <2>2. runtime.position = "flat"
        BY <1>1, <1>2 DEF FlatAtFirst
  <2> QED
      BY <1>1, <2>1, <2>2 DEF FlatAtFirst
<1>3. CASE ~ (bars' < 2) /\ RiskCloses(close)
  <2>1. signal = Exit(runtime.position) /\ runtime' = [runtime EXCEPT !.position = "flat"]
        BY <1>3 DEF OnKline
  <2>2. runtime.position # "flat"
        BY <1>3 DEF RiskCloses
  <2> QED
      BY <1>1, <1>3, <2>1, <2>2 DEF FlatAtFirst, Positions
<1>4. CASE ~ (bars' < 2) /\ ~ RiskCloses(close)
  <2>1. \/ signal = "none" /\ runtime' = runtime
        \/ /\ runtime.position = "flat" /\ signal = "BUY"
           /\ runtime' = [position |-> "long", entry |-> close]
        \/ /\ runtime.position = "flat" /\ signal = "SELL"
           /\ runtime' = [position |-> "short", entry |-> close]
        \/ /\ runtime.position # "flat" /\ signal = Exit(runtime.position)
           /\ runtime' = [runtime EXCEPT !.position = "flat"]
        BY <1>4 DEF OnKline, Enters
  <2> QED
      BY <1>1, <1>4, <2>1 DEF FlatAtFirst, Positions
<1> QED
    BY <1>2, <1>3, <1>4

\* The portfolio's part: a signal the runtime gives from its position opens,
\* closes or is ignored, and the accounts stand.
LEMMA ExecuteKeepsAccounts ==
    ASSUME BacktestInv, NEW close \in ClosingPrices, NEW signal \in Signals,
           Execute(signal, close)
    PROVE  /\ TradesExplainCash'
           /\ cash' \in Int /\ holding' \in Int /\ realised' \in Int
           /\ entry' \in [price: Int, fee: Int]
           /\ \/ /\ holding' = holding /\ cash' = cash
                 /\ \/ signal = "none"
                    \/ holding > 0 /\ signal = "BUY"
                    \/ holding < 0 /\ signal = "SELL"
                    \/ holding = 0 /\ cash <= 0
              \/ holding = 0 /\ cash > 0 /\ signal = "BUY" /\ holding' > 0
              \/ holding = 0 /\ cash > 0 /\ signal = "SELL" /\ holding' < 0
              \/ holding > 0 /\ signal = "SELL" /\ holding' = 0
              \/ holding < 0 /\ signal = "BUY" /\ holding' = 0
<1> DEFINE price == Slipped(close, signal)
<1>0. /\ BacktestTypeOK /\ TradesExplainCash
      /\ cash \in Int /\ holding \in Int /\ realised \in Int
      /\ entry \in [price: Int, fee: Int]
      BY DEF BacktestInv, BacktestTypeOK
<1>1. price \in Int /\ \A q \in Int : Fee(price, q) \in Int
      BY SlippedType, FeeType
<1>2. Affordable(close) \in Nat /\ (Affordable(close) > 0 <=> cash > 0)
      BY <1>0, AffordableSign
<1>3. \/ Ignore /\ signal = "none"
      \/ CloseLong(price, Fee(price, holding)) /\ holding > 0 /\ signal = "SELL"
      \/ CloseShort(price, Fee(price, -holding)) /\ holding < 0 /\ signal = "BUY"
      \/ /\ signal # "none" /\ holding = 0 /\ Affordable(close) > 0
         /\ Open(signal, price, Fee(price, Affordable(close)), Affordable(close))
      \/ /\ Ignore
         /\ ~ (signal = "SELL" /\ holding > 0) /\ ~ (signal = "BUY" /\ holding < 0)
         /\ ~ (signal # "none" /\ holding = 0 /\ Affordable(close) > 0)
      BY DEF Execute
<1> HIDE DEF price
<1>4. CASE Ignore
  <2>1. /\ cash' = cash /\ holding' = holding /\ realised' = realised /\ entry' = entry
        BY <1>4 DEF Ignore, portfolioVars
  <2>2. TradesExplainCash'
        BY <1>0, <2>1 DEF TradesExplainCash
  <2>3. \/ signal = "none"
        \/ /\ ~ (signal = "SELL" /\ holding > 0) /\ ~ (signal = "BUY" /\ holding < 0)
           /\ ~ (signal # "none" /\ holding = 0 /\ Affordable(close) > 0)
        \/ holding # 0 /\ holding' = 0
        \/ holding = 0 /\ holding' # 0
        BY <1>0, <1>2, <1>3 DEF Open, CloseLong, CloseShort
  <2> QED
      BY <1>0, <1>2, <2>1, <2>2, <2>3 DEF Signals
<1>5. CASE CloseLong(price, Fee(price, holding)) /\ holding > 0 /\ signal = "SELL"
      BY <1>0, <1>1, <1>5, CloseKeepsAccounts
<1>6. CASE CloseShort(price, Fee(price, -holding)) /\ holding < 0 /\ signal = "BUY"
      BY <1>0, <1>1, <1>6, CloseKeepsAccounts
<1>7. CASE /\ signal # "none" /\ holding = 0 /\ Affordable(close) > 0
           /\ Open(signal, price, Fee(price, Affordable(close)), Affordable(close))
  <2>1. signal \in {"BUY", "SELL"} /\ Affordable(close) \in Nat /\ Fee(price, Affordable(close)) \in Int
        BY <1>1, <1>2, <1>7 DEF Signals
  <2> QED
      BY <1>0, <1>1, <1>2, <1>7, <2>1, OpenKeepsAccounts
<1> QED
    BY <1>3, <1>4, <1>5, <1>6, <1>7

\* A position within its stop when it is kept, and at no gain when it is entered.
LEMMA StopAfterBar ==
    ASSUME BacktestInv, NEW close \in ClosingPrices, lastClose' = close, strategy' = strategy,
           runtime' \in [position: Positions, entry: Nat],
           \/ runtime' = runtime /\ (runtime.position # "flat" => ~ RiskCloses(close))
           \/ runtime'.position = "flat"
           \/ runtime'.entry = close,
           holding' # 0 => runtime'.position # "flat"
    PROVE  StopHonoured'
<1> SUFFICES ASSUME holding' # 0, strategy.stopLoss \in Nat \ {0}
             PROVE  Gain(lastClose)' > -(strategy.stopLoss * runtime'.entry)
    BY DEF StopHonoured
<1>1. close \in Nat /\ close > 0 /\ runtime'.entry \in Nat /\ strategy.stopLoss \in Nat
      BY BacktestAssumption
<1>2. runtime'.position # "flat"
      OBVIOUS
<1>3. Gain(lastClose)' = IF runtime'.position = "short" THEN 100 * (runtime'.entry - close)
                                                        ELSE 100 * (close - runtime'.entry)
      BY DEF Gain
<1>4. CASE runtime' = runtime /\ ~ RiskCloses(close)
  <2>1. strategy.stopLoss # NoLimit
        BY BacktestAssumption, <1>1
  <2>2. ~ (Gain(close) <= -(strategy.stopLoss * runtime.entry))
        BY <1>2, <1>4, <2>1 DEF RiskCloses
  <2>3. Gain(close) = Gain(lastClose)'
        BY <1>3, <1>4 DEF Gain
  <2>4. Gain(close) \in Int /\ strategy.stopLoss * runtime.entry \in Int
        BY <1>1, <1>4 DEF Gain
  <2> QED
      BY <1>4, <2>2, <2>3, <2>4
<1>5. CASE runtime'.entry = close
  <2>1. strategy.stopLoss * close > 0
        BY <1>1, Z3
  <2>2. Gain(lastClose)' = 0
        BY <1>1, <1>3, <1>5
  <2> QED
      BY <1>1, <1>5, <2>1, <2>2
<1> QED
    BY <1>2, <1>4, <1>5

LEMMA BacktestNextInv == BacktestInv /\ [BacktestNext]_backtestVars => BacktestInv'
<1> SUFFICES ASSUME BacktestInv, [BacktestNext]_backtestVars PROVE BacktestInv'
    OBVIOUS
<1> USE BacktestAssumption
<1>1. CASE UNCHANGED backtestVars
      BY <1>1 DEF backtestVars, portfolioVars, BacktestInv, BacktestTypeOK, FlatAtFirst,
                  TradesExplainCash, PortfolioFollowsRuntime, StopHonoured, Gain
<1>2. CASE FormingBar
  <2>1. /\ seen' \in 0..Length
        /\ UNCHANGED <<strategy, bars, runtime, cash, holding, entry, realised, lastClose>>
        BY <1>2 DEF FormingBar, portfolioVars, BacktestInv, BacktestTypeOK
  <2> QED
      BY <2>1 DEF BacktestInv, BacktestTypeOK, FlatAtFirst, TradesExplainCash, PortfolioFollowsRuntime,
                  StopHonoured, Gain
<1>3. ASSUME NEW close \in ClosingPrices, ClosedBar(close) PROVE BacktestInv'
  <2>1. /\ seen' \in 0..Length /\ bars' \in 0..KeptBars /\ bars' >= bars
        /\ lastClose' = close /\ strategy' = strategy /\ close \in Nat
        BY <1>3 DEF ClosedBar, BacktestInv, BacktestTypeOK
  <2>2. PICK signal \in Signals : OnKline(close, signal) /\ Execute(signal, close)
        BY <1>3 DEF ClosedBar
  <2>3. /\ runtime' \in [position: Positions, entry: Nat]
        /\ FlatAtFirst'
        /\ \/ signal = "none" /\ runtime' = runtime
           \/ /\ signal = "BUY" /\ runtime.position = "flat"
              /\ runtime' = [position |-> "long", entry |-> close]
           \/ /\ signal = "SELL" /\ runtime.position = "flat"
              /\ runtime' = [position |-> "short", entry |-> close]
           \/ /\ signal = Exit(runtime.position) /\ runtime.position # "flat"
              /\ runtime'.position = "flat" /\ runtime'.entry = runtime.entry
        /\ runtime' = runtime /\ runtime.position # "flat" => ~ RiskCloses(close)
        BY <2>1, <2>2, OnKlineMoves
  <2>4. /\ TradesExplainCash'
        /\ cash' \in Int /\ holding' \in Int /\ realised' \in Int
        /\ entry' \in [price: Int, fee: Int]
        /\ \/ /\ holding' = holding /\ cash' = cash
              /\ \/ signal = "none"
                 \/ holding > 0 /\ signal = "BUY"
                 \/ holding < 0 /\ signal = "SELL"
                 \/ holding = 0 /\ cash <= 0
           \/ holding = 0 /\ cash > 0 /\ signal = "BUY" /\ holding' > 0
           \/ holding = 0 /\ cash > 0 /\ signal = "SELL" /\ holding' < 0
           \/ holding > 0 /\ signal = "SELL" /\ holding' = 0
           \/ holding < 0 /\ signal = "BUY" /\ holding' = 0
        BY <2>2, ExecuteKeepsAccounts
  <2>5. BacktestTypeOK'
        BY <2>1, <2>3, <2>4 DEF BacktestInv, BacktestTypeOK
  <2>6. PortfolioFollowsRuntime'
    <3>1. /\ holding > 0 => runtime.position = "long"
          /\ holding < 0 => runtime.position = "short"
          /\ holding = 0 /\ runtime.position # "flat" => cash <= 0
          /\ holding \in Int /\ cash \in Int /\ runtime.position \in Positions
          BY DEF BacktestInv, PortfolioFollowsRuntime, BacktestTypeOK
    <3>2. CASE signal = "none" /\ runtime' = runtime
          BY <2>4, <3>1, <3>2 DEF PortfolioFollowsRuntime
    <3>3. CASE /\ signal = "BUY" /\ runtime.position = "flat"
               /\ runtime' = [position |-> "long", entry |-> close]
          BY <2>4, <3>1, <3>3 DEF PortfolioFollowsRuntime
    <3>4. CASE /\ signal = "SELL" /\ runtime.position = "flat"
               /\ runtime' = [position |-> "short", entry |-> close]
          BY <2>4, <3>1, <3>4 DEF PortfolioFollowsRuntime
    <3>5. CASE /\ signal = Exit(runtime.position) /\ runtime.position # "flat"
               /\ runtime'.position = "flat"
      <4>1. holding' = 0
            BY <2>4, <3>1, <3>5 DEF Exit, Positions
      <4> QED
          BY <3>5, <4>1 DEF PortfolioFollowsRuntime
    <3> QED
        BY <2>3, <3>2, <3>3, <3>4, <3>5
  <2>7. StopHonoured'
    <3>1. holding' # 0 => runtime'.position # "flat"
          BY <2>4, <2>6 DEF PortfolioFollowsRuntime
    <3>2. \/ runtime' = runtime /\ (runtime.position # "flat" => ~ RiskCloses(close))
          \/ runtime'.position = "flat"
          \/ runtime'.entry = close
          BY <2>3
    <3> QED
        BY <2>1, <2>3, <3>1, <3>2, StopAfterBar
  <2> QED
      BY <2>3, <2>4, <2>5, <2>6, <2>7 DEF BacktestInv
<1> QED
    BY <1>1, <1>2, <1>3 DEF BacktestNext

LEMMA BacktestInvariance == BacktestSpec => []BacktestInv
BY BacktestInitInv, BacktestNextInv, PTL DEF BacktestSpec

-------------------------------------------------------------------------------

\* Whatever the prices and costs, the variables keep their types.
THEOREM BacktestTypes == BacktestSpec => []BacktestTypeOK
<1>1. BacktestInv => BacktestTypeOK
      BY DEF BacktestInv
<1> QED
    BY <1>1, BacktestInvariance, PTL

\* The trade list and the open fill account for every unit of cash.
THEOREM CashIsExplained == BacktestSpec => []TradesExplainCash
<1>1. BacktestInv => TradesExplainCash
      BY DEF BacktestInv
<1> QED
    BY <1>1, BacktestInvariance, PTL

\* The portfolio never holds a side the runtime is not on.
THEOREM PortfolioFollows == BacktestSpec => []PortfolioFollowsRuntime
<1>1. BacktestInv => PortfolioFollowsRuntime
      BY DEF BacktestInv
<1> QED
    BY <1>1, BacktestInvariance, PTL

\* No holding outlives a closed bar beyond its stop.
THEOREM StopsHold == BacktestSpec => []StopHonoured
<1>1. BacktestInv => StopHonoured
      BY DEF BacktestInv
<1> QED
    BY <1>1, BacktestInvariance, PTL

-------------------------------------------------------------------------------
(***************************************************************************)
(* The pages of bars, for any number of calls, sizes of pages and of the   *)
(* cache, failing calls and bars that open meanwhile.                      *)
(*                                                                         *)
(* What a call has is at every moment the last `count` of the bars it saw  *)
(* when its first page came, and its cursor is the bar before them; so a   *)
(* page joins what there is, and only one that reached the first bar is    *)
(* short.                                                                  *)
(***************************************************************************)

LEMMA SeqWithin ==
    ASSUME NEW S, NEW T, S \subseteq T, NEW s \in Seq(S)
    PROVE  s \in Seq(T)
<1>1. \A i \in DOMAIN s : s[i] \in S OBVIOUS
<1>2. ToSet(s) \subseteq T BY <1>1 DEF ToSet
<1> QED BY <1>2, Fewer

LEMMA BarsAre ==
    ASSUME NEW from \in Nat, NEW to \in Nat, from <= to + 1
    PROVE  /\ BarsBetween(from, to) = [n \in 1..(to + 1 - from) |-> from + n - 1]
           /\ BarsBetween(from, to) \in Seq(from..to)
           /\ Len(BarsBetween(from, to)) = to + 1 - from
           /\ ToSet(BarsBetween(from, to)) = from..to
<1> DEFINE s == [n \in 1..(to + 1 - from) |-> from + n - 1]
<1>1. Least(from, to + 1) = from BY DEF Least
<1>2. BarsBetween(from, to) = s BY <1>1 DEF BarsBetween
<1>3. \A n \in 1..(to + 1 - from) : from + n - 1 \in from..to OBVIOUS
<1>4. s \in Seq(from..to) /\ Len(s) = to + 1 - from
  <2>1. s \in [1..(to + 1 - from) -> from..to] BY <1>3
  <2>2. to + 1 - from \in Nat OBVIOUS
  <2> HIDE DEF s
  <2> QED BY <2>1, <2>2
<1>5. ToSet(s) = from..to
  <2>1. \A b \in from..to : (b - from) + 1 \in 1..(to + 1 - from) /\ from + ((b - from) + 1) - 1 = b OBVIOUS
  <2>2. \A b \in from..to : \E n \in DOMAIN s : s[n] = b BY <2>1
  <2>3. \A n \in DOMAIN s : s[n] \in from..to BY <1>3
  <2> HIDE DEF s
  <2> QED BY <2>2, <2>3 DEF ToSet
<1> QED BY <1>2, <1>4, <1>5

\* Bars in order stay as they are when sorted and rid of duplicates.
LEMMA MergedIs ==
    ASSUME NEW from \in Nat, NEW to \in Nat, from <= to + 1, NEW total \in Nat, to + 1 - from <= total
    PROVE  Merged(BarsBetween(from, to), total) = BarsBetween(from, to)
<1> DEFINE s == BarsBetween(from, to)
           len == to + 1 - from
<1>1. /\ s = [n \in 1..len |-> from + n - 1] /\ s \in Seq(from..to) /\ Len(s) = len /\ ToSet(s) = from..to
  BY BarsAre
<1>2. len \in Nat OBVIOUS
<1>3. \A b \in Nat : from <= b + 1 => Cardinality(from..b) = b + 1 - from
  <2> SUFFICES ASSUME NEW b \in Nat, from <= b + 1 PROVE Cardinality(from..b) = b + 1 - from
    OBVIOUS
  <2>1. Cardinality(from..b) = IF from > b THEN 0 ELSE b - from + 1 BY FS_Interval
  <2> QED BY <2>1
<1>4. Sorted(from..to) = s
  <2>1. Cardinality(from..to) = len BY <1>3
  <2>2. ASSUME NEW n \in 1..len
        PROVE  (CHOOSE bar \in from..to : Cardinality({b \in from..to : b <= bar}) = n) = from + n - 1
    <3>1. \A bar \in from..to : Cardinality({b \in from..to : b <= bar}) = bar + 1 - from
      <4> SUFFICES ASSUME NEW bar \in from..to PROVE Cardinality({b \in from..to : b <= bar}) = bar + 1 - from
        OBVIOUS
      <4>1. {b \in from..to : b <= bar} = from..bar OBVIOUS
      <4>2. bar \in Nat /\ from <= bar + 1 OBVIOUS
      <4> QED BY <4>1, <4>2, <1>3
    <3>2. from + n - 1 \in from..to /\ (from + n - 1) + 1 - from = n OBVIOUS
    <3>3. \A bar \in from..to : bar + 1 - from = n => bar = from + n - 1 OBVIOUS
    <3> DEFINE P(bar) == Cardinality({b \in from..to : b <= bar}) = n
               c == CHOOSE bar \in from..to : P(bar)
    <3>4. \E bar \in from..to : P(bar) BY <3>1, <3>2
    <3>5. c \in from..to /\ P(c) BY <3>4
    <3> HIDE DEF c
    <3>6. c = from + n - 1 BY <3>1, <3>3, <3>5
    <3> QED BY <3>6 DEF c
  <2>3. Sorted(from..to) = [n \in 1..len |-> CHOOSE bar \in from..to : Cardinality({b \in from..to : b <= bar}) = n]
    BY <2>1 DEF Sorted
  <2>4. Sorted(from..to) = [n \in 1..len |-> from + n - 1] BY <2>2, <2>3
  <2> QED BY <2>4, <1>1
<1>5. Least(total, len) = len BY <1>2 DEF Least
<1>6. Merged(s, total) = SubSeq(s, 1, len) BY <1>1, <1>4, <1>5 DEF Merged
<1>7. SubSeq(s, 1, len) = s
  <2> HIDE DEF s, len
  <2> QED BY <1>1, <1>2
<1> QED BY <1>6, <1>7

\* A page goes before what there is.
LEMMA PagesJoined ==
    ASSUME NEW from \in Nat, NEW mid \in Nat, NEW to \in Nat, from <= mid + 1, mid <= to
    PROVE  BarsBetween(from, mid) \o BarsBetween(mid + 1, to) = BarsBetween(from, to)
<1> DEFINE a == BarsBetween(from, mid)
           b == BarsBetween(mid + 1, to)
           c == BarsBetween(from, to)
<1>1. /\ a = [n \in 1..(mid + 1 - from) |-> from + n - 1] /\ a \in Seq(Nat) /\ Len(a) = mid + 1 - from
  <2>1. a = [n \in 1..(mid + 1 - from) |-> from + n - 1] /\ Len(a) = mid + 1 - from BY BarsAre
  <2>2. a \in Seq(from..mid) BY BarsAre
  <2>3. from..mid \subseteq Nat OBVIOUS
  <2> HIDE DEF a
  <2>4. a \in Seq(Nat) BY <2>2, <2>3
  <2> QED BY <2>1, <2>4
<1>2. /\ b = [n \in 1..(to - mid) |-> mid + n] /\ b \in Seq(Nat) /\ Len(b) = to - mid
  <2>1. /\ b = [n \in 1..(to + 1 - (mid + 1)) |-> (mid + 1) + n - 1] /\ Len(b) = to + 1 - (mid + 1)
        /\ b \in Seq((mid + 1)..to)
    <3>1. mid + 1 \in Nat /\ mid + 1 <= to + 1 OBVIOUS
    <3> QED BY <3>1, BarsAre
  <2>2. (mid + 1)..to \subseteq Nat /\ to + 1 - (mid + 1) = to - mid OBVIOUS
  <2>3. \A n \in 1..(to - mid) : (mid + 1) + n - 1 = mid + n OBVIOUS
  <2> HIDE DEF b
  <2>4. b \in Seq(Nat) BY <2>1, <2>2
  <2> QED BY <2>1, <2>2, <2>3, <2>4
<1>3. c = [n \in 1..(to + 1 - from) |-> from + n - 1]
  <2>1. from <= to + 1 OBVIOUS
  <2> QED BY <2>1, BarsAre
<1> HIDE DEF a, b, c
<1>4. a \o b = [i \in 1..(Len(a) + Len(b)) |-> IF i <= Len(a) THEN a[i] ELSE b[i - Len(a)]] BY <1>1, <1>2
<1>5. Len(a) + Len(b) = to + 1 - from BY <1>1, <1>2
<1>6. \A i \in 1..(to + 1 - from) : (IF i <= Len(a) THEN a[i] ELSE b[i - Len(a)]) = from + i - 1
  <2> SUFFICES ASSUME NEW i \in 1..(to + 1 - from)
               PROVE  (IF i <= Len(a) THEN a[i] ELSE b[i - Len(a)]) = from + i - 1
    OBVIOUS
  <2>1. CASE i <= mid + 1 - from BY <2>1, <1>1
  <2>2. CASE ~ (i <= mid + 1 - from)
    <3>1. i - (mid + 1 - from) \in 1..(to - mid) /\ mid + (i - (mid + 1 - from)) = from + i - 1 BY <2>2
    <3>2. b[i - (mid + 1 - from)] = mid + (i - (mid + 1 - from)) BY <3>1, <1>2
    <3> QED BY <3>1, <3>2, <2>2, <1>1
  <2> QED BY <2>1, <2>2
<1> QED BY <1>3, <1>4, <1>5, <1>6 DEF a, b, c

\* What a call may be.
FetchRecords == [pc: {"idle", "paging", "returned"}, total: Totals \cup {0}, bars: Seq(1..MaxBars),
                 cursor: 0..MaxBars, started: BOOLEAN, empty: 0..2, seen: 0..MaxBars, cached: BOOLEAN]
CacheEntries == [total: Totals, bars: Seq(1..MaxBars)]

UnusedFetch == [pc |-> "idle", total |-> 0, bars |-> <<>>, cursor |-> NoCursor, started |-> FALSE,
                empty |-> 0, seen |-> 0, cached |-> FALSE]

\* The bars of a call are the last ones it saw.
AsSeen(fetch) ==
    /\ Len(fetch.bars) <= fetch.seen
    /\ fetch.bars = BarsBetween(fetch.seen - Len(fetch.bars) + 1, fetch.seen)

Paging(fetch) ==
    /\ fetch.total \in Totals /\ ~ fetch.cached /\ fetch.empty \in 0..1
    /\ Len(fetch.bars) < fetch.total
    /\ AsSeen(fetch)
    /\ IF fetch.started THEN fetch.cursor = fetch.seen - Len(fetch.bars) ELSE fetch.seen = 0

Returned(fetch) ==
    ~ fetch.cached /\ fetch.started =>
        /\ fetch.bars = BarsBetween(fetch.seen - Len(fetch.bars) + 1, fetch.seen)
        /\ fetch.empty # 2 => Len(fetch.bars) = Least(fetch.total, fetch.seen)

FetchInv(fetch) ==
    /\ fetch.pc = "idle" => fetch = UnusedFetch
    /\ fetch.pc = "paging" => Paging(fetch)
    /\ fetch.pc = "returned" => Returned(fetch)

PagerInv == PagerTypeOK /\ \A f \in Fetchers : FetchInv(fetches[f])

\* Bars a call saw are bars of the venue, and stay what they are when merged.
LEMMA SeenAreMerged ==
    ASSUME NEW fetch, fetch.seen \in 0..MaxBars, fetch.total \in Nat, Len(fetch.bars) \in Nat,
           AsSeen(fetch), Len(fetch.bars) <= fetch.total
    PROVE  Merged(fetch.bars, fetch.total) = fetch.bars
<1> DEFINE to == fetch.seen
           from == to - Len(fetch.bars) + 1
<1>1. from \in Nat /\ to \in Nat /\ from <= to + 1 /\ to + 1 - from = Len(fetch.bars)
  BY PagerAssumption DEF AsSeen
<1>2. fetch.bars = BarsBetween(from, to) BY DEF AsSeen
<1> HIDE DEF from, to
<1>3. to + 1 - from <= fetch.total BY <1>1
<1>4. Merged(BarsBetween(from, to), fetch.total) = BarsBetween(from, to) BY <1>1, <1>3, MergedIs
<1> QED BY <1>2, <1>4

\* The first bar of a page of at most limit bars up to last.
PageStart(last, limit) == IF last > limit THEN last - limit + 1 ELSE 1

\* A page of at most the bars that are missing joins them, and a short one
\* reaches the first bar.
LEMMA FirstOfIs ==
    ASSUME NEW last \in Nat, NEW limit \in Nat \ {0}
    PROVE  /\ PageStart(last, limit) \in Nat /\ 1 <= PageStart(last, limit) /\ PageStart(last, limit) <= last + 1
           /\ last + 1 - PageStart(last, limit) <= limit
           /\ last + 1 - PageStart(last, limit) < limit => PageStart(last, limit) = 1
<1>1. CASE last > limit
  <2>1. PageStart(last, limit) = last - limit + 1 BY <1>1 DEF PageStart
  <2> QED BY <2>1, <1>1
<1>2. CASE ~ (last > limit)
  <2>1. PageStart(last, limit) = 1 BY <1>2 DEF PageStart
  <2> QED BY <2>1, <1>2
<1> QED BY <1>1, <1>2

LastSeen(had, top) ==
    /\ top \in 0..MaxBars /\ Len(had) \in Nat /\ Len(had) <= top
    /\ had = BarsBetween(top - Len(had) + 1, top)
PageUpTo(page, last, limit) ==
    page = BarsBetween(PageStart(last, limit), last) /\ page # <<>>
Joins(page, had, top, limit) ==
    /\ page \o had \in Seq(1..MaxBars)
    /\ Len(page) \in 1..limit /\ Len(page \o had) = Len(page) + Len(had)
    /\ Len(page) + Len(had) <= top
    /\ page \o had = BarsBetween(top - Len(page \o had) + 1, top)
    /\ Head(page) - 1 = top - Len(page \o had)
    /\ Len(page) < limit => Len(page) + Len(had) = top

LEMMA PageJoins ==
    ASSUME NEW had, NEW top, LastSeen(had, top), NEW limit \in Nat \ {0},
           NEW last, last = top - Len(had), NEW page, PageUpTo(page, last, limit)
    PROVE  Joins(page, had, top, limit)
<1>0. /\ top \in 0..MaxBars /\ Len(had) \in Nat /\ Len(had) <= top
      /\ had = BarsBetween(top - Len(had) + 1, top)
      /\ page = BarsBetween(PageStart(last, limit), last) /\ page # <<>>
  BY DEF LastSeen, PageUpTo
<1> DEFINE from == PageStart(last, limit)
<1>1. MaxBars \in Nat BY PagerAssumption
<1>2. last \in Nat /\ top \in Nat /\ last <= top BY <1>0, <1>1
<1>3. /\ from \in Nat /\ 1 <= from /\ from <= last + 1 /\ last + 1 - from <= limit
      /\ last + 1 - from < limit => from = 1
  BY <1>2, FirstOfIs
<1>5. page = BarsBetween(from, last) BY <1>0
<1> HIDE DEF from
<1>6. /\ page = [n \in 1..(last + 1 - from) |-> from + n - 1] /\ page \in Seq(from..last)
      /\ Len(page) = last + 1 - from
  <2>1. /\ BarsBetween(from, last) = [n \in 1..(last + 1 - from) |-> from + n - 1]
        /\ BarsBetween(from, last) \in Seq(from..last)
        /\ Len(BarsBetween(from, last)) = last + 1 - from
    BY <1>2, <1>3, BarsAre
  <2> QED BY <2>1, <1>5
<1>7. Len(page) \in Nat /\ Len(page) # 0 BY <1>0, <1>6
<1>8. Head(page) = from
  <2>1. Head(page) = page[1] BY <1>6, <1>7
  <2>3. last + 1 - from \in Nat /\ last + 1 - from # 0 BY <1>6, <1>7
  <2>4. 1 \in 1..(last + 1 - from) BY <2>3
  <2>2. page[1] = from + 1 - 1 BY <2>4, <1>6
  <2> QED BY <2>1, <2>2, <1>3
<1>9. page \o had = BarsBetween(from, top)
  <2>1. CASE last < top
    <3>1. top - Len(had) + 1 = last + 1 BY <1>0, <1>2
    <3>2. had = BarsBetween(last + 1, top) BY <3>1, <1>0
    <3>3. BarsBetween(from, last) \o BarsBetween(last + 1, top) = BarsBetween(from, top)
      BY <1>2, <1>3, PagesJoined
    <3> QED BY <3>2, <3>3, <1>5
  <2>2. CASE last = top
    <3>1. Len(had) = 0 BY <2>2, <1>0, <1>2
    <3>2. top - Len(had) + 1 = top + 1 /\ top + 1 \in Nat BY <3>1, <1>2
    <3>3. had \in Seq((top + 1)..top) BY <3>2, <1>0, <1>2, BarsAre
    <3>4. had = <<>> BY <3>1, <3>3
    <3>5. page \o <<>> = page BY <1>6
    <3> QED BY <3>4, <3>5, <1>5, <2>2
  <2> QED BY <2>1, <2>2, <1>2
<1>10. /\ page \o had \in Seq(from..top) /\ Len(page \o had) = top + 1 - from
  <2>1. from <= top + 1 BY <1>2, <1>3
  <2>2. BarsBetween(from, top) \in Seq(from..top) /\ Len(BarsBetween(from, top)) = top + 1 - from
    BY <2>1, <1>2, <1>3, BarsAre
  <2> QED BY <2>2, <1>9
<1>11. from..top \subseteq 1..MaxBars BY <1>0, <1>1, <1>2, <1>3
<1>12. page \o had \in Seq(1..MaxBars)
  <2>1. PICK q : q = page \o had OBVIOUS
  <2>2. PICK S : S = from..top OBVIOUS
  <2>3. q \in Seq(S) BY <2>1, <2>2, <1>10
  <2>4. S \subseteq 1..MaxBars BY <2>2, <1>11
  <2>5. q \in Seq(1..MaxBars) BY <2>3, <2>4, SeqWithin
  <2> QED BY <2>1, <2>5
<1>13. Len(page) + Len(had) = top + 1 - from
  <2>1. PICK n : n = Len(page) OBVIOUS
  <2>2. PICK m \in Nat : m = Len(had) BY <1>0
  <2>3. n = last + 1 - from /\ last = top - m BY <2>1, <2>2, <1>6
  <2>4. n + m = top + 1 - from BY ONLY <2>2, <2>3, <1>2, <1>3
  <2> QED BY <2>1, <2>2, <2>4
<1>14. /\ Len(page) \in 1..limit /\ Len(page) + Len(had) <= top
       /\ Len(page) < limit => Len(page) + Len(had) = top
  <2>1. PICK n \in Nat : n = Len(page) BY <1>7
  <2>2. PICK m \in Nat : m = Len(had) BY <1>0
  <2>3. n # 0 /\ n = last + 1 - from /\ n + m = top + 1 - from BY <2>1, <2>2, <1>6, <1>7, <1>13
  <2>4. n \in 1..limit /\ n + m <= top /\ (n < limit => n + m = top)
    BY ONLY <2>3, <1>2, <1>3, limit \in Nat \ {0}, n \in Nat, m \in Nat
  <2> QED BY <2>1, <2>2, <2>4
<1>15. from = top - Len(page \o had) + 1 /\ from - 1 = top - Len(page \o had) BY <1>2, <1>3, <1>10
<1>16. Len(page \o had) = Len(page) + Len(had) BY <1>10, <1>13
<1>17. page \o had = BarsBetween(top - Len(page \o had) + 1, top) BY <1>9, <1>15
<1>18. Head(page) - 1 = top - Len(page \o had) BY <1>8, <1>15
<1> QED BY <1>12, <1>14, <1>16, <1>17, <1>18 DEF Joins

LEMMA CacheStaysTyped ==
    ASSUME NEW total \in Totals, NEW had \in Seq(1..MaxBars), klineCache \in Seq(CacheEntries),
           Len(klineCache) <= CacheSize
    PROVE  /\ CacheWith(total, had) \in Seq(CacheEntries)
           /\ Len(CacheWith(total, had)) <= CacheSize
<1> DEFINE kept  == IF Len(klineCache) >= CacheSize THEN Tail(klineCache) ELSE klineCache
           same == {n \in DOMAIN kept : kept[n].total = total}
           fresh == [total |-> total, bars |-> had]
<1>1. CacheSize \in Nat /\ CacheSize # 0 BY PagerAssumption
<1>2. kept \in Seq(CacheEntries) /\ Len(kept) <= CacheSize - 1
  <2>1. CASE Len(klineCache) >= CacheSize
    <3>1. klineCache # <<>> BY <2>1, <1>1
    <3>2. Tail(klineCache) \in Seq(CacheEntries) /\ Len(Tail(klineCache)) = Len(klineCache) - 1 BY <3>1
    <3> QED BY <3>2, <2>1, <1>1
  <2>2. CASE ~ (Len(klineCache) >= CacheSize) BY <2>2, <1>1
  <2> QED BY <2>1, <2>2
<1>3. fresh \in CacheEntries BY DEF CacheEntries
<1>4. CacheWith(total, had) = IF same = {} THEN Append(kept, fresh)
                               ELSE [n \in DOMAIN kept |-> IF n \in same THEN fresh ELSE kept[n]]
  BY DEF CacheWith
<1> HIDE DEF kept, same, fresh
<1>5. Append(kept, fresh) \in Seq(CacheEntries) /\ Len(Append(kept, fresh)) = Len(kept) + 1 BY <1>2, <1>3
<1> DEFINE put == [n \in DOMAIN kept |-> IF n \in same THEN fresh ELSE kept[n]]
<1>6. put \in Seq(CacheEntries) /\ Len(put) = Len(kept)
  <2>1. DOMAIN kept = 1..Len(kept) /\ Len(kept) \in Nat /\ \A n \in 1..Len(kept) : kept[n] \in CacheEntries
    BY <1>2
  <2>2. put \in [1..Len(kept) -> CacheEntries] BY <2>1, <1>3
  <2> HIDE DEF put
  <2> QED BY <2>1, <2>2
<1> HIDE DEF put
<1>7. Len(kept) + 1 <= CacheSize /\ Len(kept) <= CacheSize BY <1>1, <1>2
<1> QED BY <1>4, <1>5, <1>6, <1>7 DEF put

\* The parts of a call.
LEMMA FetchParts ==
    ASSUME NEW fetch \in FetchRecords
    PROVE  /\ fetch.total \in Nat /\ MaxBars \in Nat
           /\ fetch.bars \in Seq(1..MaxBars) /\ Len(fetch.bars) \in Nat
           /\ fetch.seen \in 0..MaxBars /\ fetch.seen \in Nat
           /\ fetch.started \in BOOLEAN /\ fetch.cached \in BOOLEAN
<1>1. /\ fetch.total \in Totals \cup {0} /\ fetch.bars \in Seq(1..MaxBars) /\ fetch.seen \in 0..MaxBars
      /\ fetch.started \in BOOLEAN /\ fetch.cached \in BOOLEAN
  BY DEF FetchRecords
<1>2. fetch.total \in Nat /\ MaxBars \in Nat
  <2>1. fetch.total \in Totals \cup {0} BY <1>1
  <2>2. Totals \subseteq Nat \ {0} /\ MaxBars \in Nat BY PagerAssumption
  <2>3. \A t \in Totals \cup {0} : t \in Nat BY <2>2
  <2> QED BY <2>1, <2>2, <2>3
<1>3. PICK S : S = 1..MaxBars OBVIOUS
<1>4. fetch.bars \in Seq(S) BY <1>1, <1>3
<1>5. Len(fetch.bars) \in Nat BY <1>4
<1>6. fetch.seen \in Nat BY <1>1, <1>2
<1> QED BY <1>1, <1>2, <1>5, <1>6

\* A step of a call changes that call and what is cached.
LEMMA CallStep ==
    ASSUME PagerInv, NEW f \in Fetchers, NEW fetch \in FetchRecords, FetchInv(fetch),
           newest' = newest, fetches' = [fetches EXCEPT ![f] = fetch],
           klineCache' \in Seq(CacheEntries), Len(klineCache') <= CacheSize
    PROVE  PagerInv'
<1>1. fetches \in [Fetchers -> FetchRecords] BY DEF PagerInv, PagerTypeOK, FetchRecords
<1>2. fetches' \in [Fetchers -> FetchRecords] BY <1>1
<1>3. \A g \in Fetchers : fetches'[g] = IF g = f THEN fetch ELSE fetches[g] BY <1>1
<1>4. \A g \in Fetchers : FetchInv(fetches'[g])
  <2>1. \A g \in Fetchers : FetchInv(fetches[g]) BY DEF PagerInv
  <2> QED BY <1>3, <2>1
<1>5. newest' \in 0..MaxBars BY DEF PagerInv, PagerTypeOK
<1>6. PagerTypeOK' BY <1>2, <1>5 DEF PagerTypeOK, FetchRecords, CacheEntries
<1> QED BY <1>4, <1>6 DEF PagerInv

\* What holds of one call.
LEMMA CallFacts ==
    ASSUME PagerInv, NEW f \in Fetchers
    PROVE  /\ fetches[f] \in FetchRecords /\ FetchInv(fetches[f])
           /\ newest \in 0..MaxBars
           /\ klineCache \in Seq(CacheEntries) /\ Len(klineCache) <= CacheSize
<1>1. fetches \in [Fetchers -> FetchRecords] BY DEF PagerInv, PagerTypeOK, FetchRecords
<1> QED BY <1>1 DEF PagerInv, PagerTypeOK, CacheEntries

LEMMA HitStep ==
    ASSUME PagerInv, NEW f \in Fetchers, NEW total \in Totals, CacheHit(f, total)
    PROVE  PagerInv'
<1>1. /\ fetches[f] \in FetchRecords /\ FetchInv(fetches[f])
      /\ klineCache \in Seq(CacheEntries) /\ Len(klineCache) <= CacheSize
  BY CallFacts
<1>2. PICK n \in Entries(total) :
          /\ Len(klineCache[n].bars) >= total
          /\ fetches' = [fetches EXCEPT ![f].pc = "returned", ![f].total = total, ![f].cached = TRUE,
                                        ![f].bars = SubSeq(klineCache[n].bars, 1, total)]
  BY DEF CacheHit
<1> DEFINE found == SubSeq(klineCache[n].bars, 1, total)
           fetch == [fetches[f] EXCEPT !.pc = "returned", !.total = total, !.cached = TRUE, !.bars = found]
<1>3. klineCache[n].bars \in Seq(1..MaxBars)
  <2>1. n \in DOMAIN klineCache BY DEF Entries
  <2>2. klineCache[n] \in CacheEntries BY <2>1, <1>1
  <2> QED BY <2>2 DEF CacheEntries
<1>4. found \in Seq(1..MaxBars)
  <2>1. PICK q : q = klineCache[n].bars OBVIOUS
  <2>2. PICK S : S = 1..MaxBars OBVIOUS
  <2>3. q \in Seq(S) /\ total \in Nat /\ total <= Len(q) BY <2>1, <2>2, <1>2, <1>3, PagerAssumption
  <2>4. SubSeq(q, 1, total) \in Seq(S) BY <2>3
  <2> QED BY <2>1, <2>2, <2>4
<1>5. fetches' = [fetches EXCEPT ![f] = fetch] BY <1>2
<1> HIDE DEF found
<1>6. /\ fetch \in FetchRecords /\ fetch.pc = "returned" /\ fetch.cached
  BY <1>1, <1>4 DEF FetchRecords
<1>7. newest' = newest /\ klineCache' = klineCache BY DEF CacheHit
<1> HIDE DEF fetch
<1>8. FetchInv(fetch) BY <1>6 DEF FetchInv, Returned
<1> QED BY <1>1, <1>5, <1>6, <1>7, <1>8, CallStep

LEMMA MissStep ==
    ASSUME PagerInv, NEW f \in Fetchers, NEW total \in Totals, CacheMiss(f, total)
    PROVE  PagerInv'
<1>1. /\ fetches[f] \in FetchRecords /\ FetchInv(fetches[f])
      /\ klineCache \in Seq(CacheEntries) /\ Len(klineCache) <= CacheSize
  BY CallFacts
<1>2. fetches[f] = UnusedFetch BY <1>1 DEF CacheMiss, FetchInv
<1> DEFINE fetch == [fetches[f] EXCEPT !.pc = "paging", !.total = total]
<1>3. fetches' = [fetches EXCEPT ![f] = fetch] BY DEF CacheMiss
<1>4. newest' = newest /\ klineCache' = klineCache BY DEF CacheMiss
<1>5. /\ fetch \in FetchRecords /\ fetch.pc = "paging" /\ fetch.total = total /\ ~ fetch.cached
      /\ fetch.empty = 0 /\ fetch.bars = <<>> /\ ~ fetch.started /\ fetch.seen = 0
  <2>1. fetch = [pc |-> "paging", total |-> total, bars |-> <<>>, cursor |-> NoCursor, started |-> FALSE,
                 empty |-> 0, seen |-> 0, cached |-> FALSE]
    <3>1. fetch = [UnusedFetch EXCEPT !.pc = "paging", !.total = total] BY <1>2
    <3> HIDE DEF fetch
    <3> QED BY <3>1 DEF UnusedFetch
  <2> HIDE DEF fetch
  <2>2. 0 \in 0..MaxBars BY PagerAssumption
  <2> QED BY <2>1, <2>2 DEF FetchRecords, NoCursor
<1> HIDE DEF fetch
<1>6. Paging(fetch)
  <2>1. Len(fetch.bars) = 0 BY <1>5
  <2>2. total \in Nat /\ 0 < total BY PagerAssumption
  <2>3. fetch.bars = BarsBetween(1, 0)
    <3>1. 1 \in Nat /\ 0 \in Nat /\ 1 <= 0 + 1 OBVIOUS
    <3>2. Len(BarsBetween(1, 0)) = 0 + 1 - 1 /\ BarsBetween(1, 0) \in Seq(1..0) BY <3>1, BarsAre
    <3>3. BarsBetween(1, 0) = <<>> BY <3>2
    <3> QED BY <3>3, <1>5
  <2>4. fetch.seen - Len(fetch.bars) + 1 = 1 BY <2>1, <1>5
  <2>5. AsSeen(fetch) BY <2>1, <2>3, <2>4, <1>5 DEF AsSeen
  <2> QED BY <2>1, <2>2, <2>5, <1>5 DEF Paging
<1>7. FetchInv(fetch) BY <1>5, <1>6 DEF FetchInv
<1> QED BY <1>1, <1>3, <1>4, <1>5, <1>7, CallStep

\* A call whose bars are the last it saw returns them, whatever ended it.
LEMMA ReturnStep ==
    ASSUME PagerInv, NEW f \in Fetchers, NEW fetch \in FetchRecords, AsSeen(fetch), fetch.total \in Totals,
           Len(fetch.bars) <= fetch.total, newest' = newest, Return(f, fetch.bars, fetch),
           fetch.empty # 2 => Len(fetch.bars) = Least(fetch.total, fetch.seen)
    PROVE  PagerInv'
<1>1. klineCache \in Seq(CacheEntries) /\ Len(klineCache) <= CacheSize BY CallFacts
<1>2. /\ fetch.seen \in 0..MaxBars /\ fetch.bars \in Seq(1..MaxBars) /\ Len(fetch.bars) \in Nat
      /\ fetch.total \in Nat
  BY FetchParts
<1>3. Merged(fetch.bars, fetch.total) = fetch.bars BY <1>2, SeenAreMerged
<1> DEFINE back == [fetch EXCEPT !.pc = "returned", !.bars = Merged(fetch.bars, fetch.total)]
<1>4. fetches' = [fetches EXCEPT ![f] = back] /\ klineCache' = CacheWith(fetch.total, Merged(fetch.bars, fetch.total))
  BY DEF Return
<1>5. /\ klineCache' \in Seq(CacheEntries) /\ Len(klineCache') <= CacheSize
  <2>1. klineCache' = CacheWith(fetch.total, fetch.bars) BY <1>3, <1>4
  <2> QED BY <2>1, <1>1, <1>2, CacheStaysTyped
<1>6. /\ back \in FetchRecords /\ back.pc = "returned" /\ back.bars = fetch.bars /\ back.seen = fetch.seen
      /\ back.empty = fetch.empty /\ back.total = fetch.total
  BY <1>2, <1>3 DEF FetchRecords
<1> HIDE DEF back
<1>7. FetchInv(back) BY <1>6 DEF FetchInv, Returned, AsSeen
<1> QED BY <1>4, <1>5, <1>6, <1>7, CallStep

LEMMA EmptyStep ==
    ASSUME PagerInv, NEW f \in Fetchers, EmptyPage(f)
    PROVE  PagerInv'
<1>1. /\ fetches[f] \in FetchRecords /\ FetchInv(fetches[f])
      /\ klineCache \in Seq(CacheEntries) /\ Len(klineCache) <= CacheSize
  BY CallFacts
<1>2. Paging(fetches[f]) /\ fetches[f].pc = "paging" BY <1>1 DEF EmptyPage, FetchInv
<1>3. newest' = newest BY DEF EmptyPage
<1>4. Len(fetches[f].bars) \in Nat /\ fetches[f].total \in Nat BY <1>1, FetchParts
<1>5. CASE fetches[f].empty = 1
  <2> DEFINE fetch == [fetches[f] EXCEPT !.empty = 2]
  <2>1. Return(f, fetches[f].bars, fetch) BY <1>5 DEF EmptyPage
  <2>2. /\ fetch \in FetchRecords /\ fetch.bars = fetches[f].bars /\ fetch.seen = fetches[f].seen
        /\ fetch.total = fetches[f].total /\ fetch.empty = 2
    BY <1>1 DEF FetchRecords
  <2> HIDE DEF fetch
  <2>3. AsSeen(fetch) /\ fetch.total \in Totals /\ Len(fetch.bars) <= fetch.total
    BY <2>2, <1>2, <1>4 DEF AsSeen, Paging
  <2>4. Return(f, fetch.bars, fetch) BY <2>1, <2>2
  <2> QED BY <2>2, <2>3, <2>4, <1>3, ReturnStep
<1>6. CASE fetches[f].empty # 1
  <2> DEFINE fetch == [fetches[f] EXCEPT !.empty = 1]
  <2>1. fetches' = [fetches EXCEPT ![f] = fetch] /\ klineCache' = klineCache BY <1>6 DEF EmptyPage
  <2>2. /\ fetch \in FetchRecords /\ fetch.bars = fetches[f].bars /\ fetch.seen = fetches[f].seen
        /\ fetch.total = fetches[f].total /\ fetch.empty = 1 /\ fetch.pc = "paging"
        /\ fetch.cached = fetches[f].cached /\ fetch.started = fetches[f].started
        /\ fetch.cursor = fetches[f].cursor
    BY <1>1, <1>2 DEF FetchRecords
  <2> HIDE DEF fetch
  <2>3. FetchInv(fetch) BY <2>2, <1>2 DEF FetchInv, Paging, AsSeen
  <2> QED BY <2>1, <2>2, <2>3, <1>1, <1>3, CallStep
<1> QED BY <1>5, <1>6

LEMMA GotStep ==
    ASSUME PagerInv, NEW f \in Fetchers, GotPage(f)
    PROVE  PagerInv'
<1> DEFINE old   == fetches[f]
           limit == Limit(f)
<1>1. /\ old \in FetchRecords /\ FetchInv(old) /\ newest \in 0..MaxBars
      /\ klineCache \in Seq(CacheEntries) /\ Len(klineCache) <= CacheSize
  BY CallFacts
<1>2. Paging(old) /\ old.pc = "paging" BY <1>1 DEF GotPage, FetchInv
<1>3. newest' = newest BY DEF GotPage
<1>4. /\ Len(old.bars) \in Nat /\ old.total \in Nat /\ old.seen \in 0..MaxBars /\ Len(old.bars) < old.total
      /\ MaxBars \in Nat /\ old.total \in Totals
  <2> HIDE DEF old
  <2>1. Len(old.bars) < old.total /\ old.total \in Totals BY <1>2 DEF Paging
  <2> QED BY <2>1, <1>1, FetchParts
<1>5. limit \in Nat \ {0} /\ limit <= old.total - Len(old.bars)
  <2>1. limit = Least(PageSize, old.total - Len(old.bars)) BY DEF Limit
  <2>2. PageSize \in Nat \ {0} BY PagerAssumption
  <2>3. old.total - Len(old.bars) \in Nat \ {0} BY <1>4
  <2> HIDE DEF old, limit
  <2> QED BY <2>1, <2>2, <2>3 DEF Least
<1> DEFINE last == IF old.started THEN old.cursor ELSE newest
           top == IF old.started THEN old.seen ELSE newest
           page == Page(old.cursor, old.started, limit)
           fetch == [old EXCEPT !.bars = page \o @, !.empty = 0, !.cursor = Head(page) - 1, !.started = TRUE,
                                !.seen = IF old.started THEN @ ELSE newest]
<1>6. /\ top \in 0..MaxBars /\ Len(old.bars) <= top /\ last = top - Len(old.bars)
      /\ old.bars = BarsBetween(top - Len(old.bars) + 1, top)
  <2>1. CASE old.started
    <3>1. top = old.seen /\ last = old.cursor BY <2>1
    <3> QED BY <3>1, <2>1, <1>2, <1>4 DEF Paging, AsSeen
  <2>2. CASE ~ old.started
    <3>1. top = newest /\ last = newest BY <2>2
    <3>2. old.seen = 0 /\ Len(old.bars) <= old.seen BY <2>2, <1>2 DEF Paging, AsSeen
    <3>3. Len(old.bars) = 0 BY <3>2, <1>4
    <3>4. old.bars = <<>>
      <4>1. old.bars \in Seq(1..MaxBars) BY <1>1 DEF FetchRecords
      <4> QED BY <4>1, <3>3
    <3>5. BarsBetween(newest + 1, newest) = <<>>
      <4>1. newest \in Nat /\ newest + 1 \in Nat /\ newest + 1 <= newest + 1
            /\ newest + 1 - (newest + 1) = 0
        BY <1>1, <1>4
      <4>2. /\ Len(BarsBetween(newest + 1, newest)) = newest + 1 - (newest + 1)
            /\ BarsBetween(newest + 1, newest) \in Seq((newest + 1)..newest)
        BY <4>1, BarsAre
      <4> QED BY <4>1, <4>2
    <3>6. top - Len(old.bars) + 1 = newest + 1 /\ top - Len(old.bars) = newest BY <3>1, <3>3, <1>1, <1>4
    <3>7. Len(old.bars) <= top BY <3>1, <3>3, <1>1, <1>4
    <3> QED BY <3>1, <3>4, <3>5, <3>6, <3>7, <1>1
  <2> QED BY <2>1, <2>2
<1>7. page = BarsBetween(PageStart(last, limit), last) BY DEF Page, PageStart
<1>8. page # <<>> BY DEF GotPage
<1>9. IF Len(fetch.bars) >= fetch.total \/ Len(page) < Max({limit \div 2, 1})
      THEN Return(f, fetch.bars, fetch)
      ELSE fetches' = [fetches EXCEPT ![f] = fetch] /\ klineCache' = klineCache
  BY DEF GotPage
<1>10. fetch = [old EXCEPT !.bars = page \o old.bars, !.empty = 0, !.cursor = Head(page) - 1, !.started = TRUE,
                           !.seen = top]
  BY <1>1 DEF FetchRecords
<1> HIDE DEF old, limit, last, top, page, fetch
<1> DEFINE joined == page \o old.bars
<1>11. /\ joined \in Seq(1..MaxBars)
       /\ Len(page) \in 1..limit /\ Len(joined) = Len(page) + Len(old.bars)
       /\ Len(page) + Len(old.bars) <= top
       /\ joined = BarsBetween(top - Len(joined) + 1, top)
       /\ Head(page) - 1 = top - Len(joined)
       /\ Len(page) < limit => Len(page) + Len(old.bars) = top
  <2>1. LastSeen(old.bars, top) BY <1>4, <1>6 DEF LastSeen
  <2>2. PageUpTo(page, last, limit) BY <1>7, <1>8 DEF PageUpTo
  <2>3. last = top - Len(old.bars) BY <1>6
  <2>4. Joins(page, old.bars, top, limit) BY <2>1, <2>2, <2>3, <1>5, PageJoins
  <2> QED BY <2>4 DEF Joins
<1>12. /\ fetch.bars = joined /\ fetch.empty = 0 /\ fetch.cursor = Head(page) - 1 /\ fetch.started
       /\ fetch.seen = top /\ fetch.total = old.total /\ fetch.pc = "paging" /\ fetch.cached = old.cached
  BY <1>1, <1>2, <1>10 DEF FetchRecords
<1> HIDE DEF joined
<1>13. Len(joined) \in Nat /\ Len(joined) <= top /\ Len(joined) <= old.total /\ Head(page) - 1 \in 0..MaxBars
  <2>1. PICK n \in Nat : n = Len(page) /\ n <= limit BY <1>5, <1>11
  <2>2. PICK m \in Nat : m = Len(old.bars) BY <1>4
  <2>3. PICK k : k = Len(joined) OBVIOUS
  <2>4. k = n + m /\ n + m <= top BY <2>1, <2>2, <2>3, <1>11
  <2>5. k \in Nat /\ k <= top BY <2>4
  <2>6. k <= old.total BY <2>1, <2>2, <2>4, <1>4, <1>5
  <2>7. Head(page) - 1 = top - k /\ top \in 0..MaxBars /\ MaxBars \in Nat BY <2>3, <1>4, <1>6, <1>11
  <2>8. top - k \in 0..MaxBars BY <2>5, <2>7
  <2> QED BY <2>3, <2>5, <2>6, <2>7, <2>8
<1>14. fetch \in FetchRecords
  <2>1. PICK S : S = Seq(1..MaxBars) OBVIOUS
  <2>2. PICK c \in 0..MaxBars : c = Head(page) - 1 BY <1>13
  <2>3. joined \in S /\ old \in [pc: {"idle", "paging", "returned"}, total: Totals \cup {0}, bars: S,
                 cursor: 0..MaxBars, started: BOOLEAN, empty: 0..2, seen: 0..MaxBars, cached: BOOLEAN]
    BY <2>1, <1>1, <1>11 DEF FetchRecords
  <2>4. fetch = [old EXCEPT !.bars = joined, !.empty = 0, !.cursor = c, !.started = TRUE, !.seen = top]
    BY <2>2, <1>10 DEF joined
  <2>5. 0 \in 0..2 OBVIOUS
  <2>6. fetch \in [pc: {"idle", "paging", "returned"}, total: Totals \cup {0}, bars: S,
                 cursor: 0..MaxBars, started: BOOLEAN, empty: 0..2, seen: 0..MaxBars, cached: BOOLEAN]
    BY <2>3, <2>4, <2>5, <1>6
  <2> QED BY <2>1, <2>6 DEF FetchRecords
<1>15. AsSeen(fetch) BY <1>11, <1>12, <1>13 DEF AsSeen
<1>16. CASE Len(fetch.bars) >= fetch.total \/ Len(page) < Max({limit \div 2, 1})
  <2>1. Return(f, fetch.bars, fetch) BY <1>9, <1>16
  <2>2. Len(joined) = Least(old.total, top)
    <3>1. CASE Len(joined) >= old.total
      <4>1. Len(joined) = old.total BY <3>1, <1>4, <1>13
      <4>2. old.total <= top /\ old.total \in Nat /\ top \in 0..MaxBars /\ MaxBars \in Nat
        BY <4>1, <1>4, <1>6, <1>13
      <4>3. Least(old.total, top) = old.total BY <4>2 DEF Least
      <4> QED BY <4>1, <4>3
    <3>2. CASE Len(page) < Max({limit \div 2, 1})
      <4>1. /\ {limit \div 2, 1} \in SUBSET (0..(limit + 1)) /\ {limit \div 2, 1} # {} /\ limit + 1 \in Nat
            /\ limit \div 2 <= limit /\ 1 <= limit
        <5>1. limit \div 2 \in Nat /\ limit \div 2 <= limit /\ 1 <= limit BY <1>5
        <5> QED BY <5>1, <1>5
      <4>2. Max({limit \div 2, 1}) \in {limit \div 2, 1} BY <4>1, MaxIs
      <4>3. Len(page) < limit
        <5>1. PICK m : m = Max({limit \div 2, 1}) OBVIOUS
        <5>2. m = limit \div 2 \/ m = 1 BY <5>1, <4>2
        <5>3. m \in Nat /\ m <= limit BY <5>2, <4>1, <1>5
        <5>4. PICK n \in Nat : n = Len(page) BY <1>11
        <5>5. n < m BY <5>1, <5>4, <3>2
        <5>6. n < limit BY <5>3, <5>5, <1>5
        <5> QED BY <5>4, <5>6
      <4>4. Len(joined) = top BY <4>3, <1>11
      <4> QED BY <4>4, <1>13, <1>4 DEF Least
    <3> QED BY <3>1, <3>2, <1>16, <1>12
  <2>3. fetch.empty # 2 => Len(fetch.bars) = Least(fetch.total, fetch.seen) BY <2>2, <1>12
  <2>4. fetch.total \in Totals /\ Len(fetch.bars) <= fetch.total BY <1>4, <1>12, <1>13
  <2> QED BY <2>1, <2>3, <2>4, <1>3, <1>14, <1>15, ReturnStep
<1>17. CASE ~ (Len(fetch.bars) >= fetch.total \/ Len(page) < Max({limit \div 2, 1}))
  <2>1. fetches' = [fetches EXCEPT ![f] = fetch] /\ klineCache' = klineCache BY <1>9, <1>17
  <2>2. Len(fetch.bars) < fetch.total BY <1>4, <1>12, <1>13, <1>17
  <2>3. fetch.cursor = fetch.seen - Len(fetch.bars) BY <1>11, <1>12
  <2>4. ~ fetch.cached BY <1>2, <1>12 DEF Paging
  <2>5. Paging(fetch) BY <2>2, <2>3, <2>4, <1>4, <1>12, <1>15 DEF Paging
  <2>6. FetchInv(fetch) BY <2>5, <1>12 DEF FetchInv
  <2> QED BY <2>1, <2>6, <1>1, <1>3, <1>14, CallStep
<1> QED BY <1>16, <1>17

LEMMA OpensStep ==
    ASSUME PagerInv, BarOpens
    PROVE  PagerInv'
<1>1. newest' = newest + 1 /\ newest < MaxBars /\ newest \in 0..MaxBars /\ MaxBars \in Nat
  BY PagerAssumption DEF PagerInv, PagerTypeOK, BarOpens
<1>2. newest' \in 0..MaxBars BY <1>1
<1>3. fetches' = fetches /\ klineCache' = klineCache BY DEF BarOpens
<1> QED BY <1>2, <1>3 DEF PagerInv, PagerTypeOK

LEMMA PagerStarts ==
    ASSUME PagerInit
    PROVE  PagerInv
<1>1. fetches = [f \in Fetchers |-> UnusedFetch] BY DEF PagerInit, UnusedFetch
<1>2. MaxBars \in Nat /\ CacheSize \in Nat /\ newest \in 0..MaxBars BY PagerAssumption DEF PagerInit
<1>3. UnusedFetch \in FetchRecords BY <1>2 DEF UnusedFetch, FetchRecords, NoCursor
<1>4. klineCache = <<>> /\ Len(klineCache) = 0 BY DEF PagerInit
<1>5. klineCache \in Seq(CacheEntries) /\ Len(klineCache) <= CacheSize BY <1>2, <1>4
<1>6. fetches \in [Fetchers -> FetchRecords] BY <1>1, <1>3
<1>7. PagerTypeOK BY <1>2, <1>5, <1>6 DEF PagerTypeOK, FetchRecords, CacheEntries
<1>8. FetchInv(UnusedFetch) BY DEF FetchInv, UnusedFetch
<1> QED BY <1>1, <1>7, <1>8 DEF PagerInv

LEMMA PagerInvariance == PagerSpec => []PagerInv
<1>1. PagerInit => PagerInv BY PagerStarts
<1>2. PagerInv /\ [PagerNext]_pagerVars => PagerInv'
  <2> SUFFICES ASSUME PagerInv, [PagerNext]_pagerVars PROVE PagerInv'
    OBVIOUS
  <2>1. ASSUME NEW f \in Fetchers, NEW total \in Totals, CacheHit(f, total) PROVE PagerInv'
    BY <2>1, HitStep
  <2>2. ASSUME NEW f \in Fetchers, NEW total \in Totals, CacheMiss(f, total) PROVE PagerInv'
    BY <2>2, MissStep
  <2>3. ASSUME NEW f \in Fetchers, EmptyPage(f) PROVE PagerInv'
    BY <2>3, EmptyStep
  <2>4. ASSUME NEW f \in Fetchers, GotPage(f) PROVE PagerInv'
    BY <2>4, GotStep
  <2>5. CASE BarOpens BY <2>5, OpensStep
  <2>6. CASE UNCHANGED pagerVars BY <2>6 DEF pagerVars, PagerInv, PagerTypeOK
  <2> QED BY <2>1, <2>2, <2>3, <2>4, <2>5, <2>6 DEF PagerNext
<1> QED BY <1>1, <1>2, PTL DEF PagerSpec

\* The types of the calls and of the cache, which never exceeds its size.
THEOREM PagerTypes == PagerSpec => []PagerTypeOK
<1>1. PagerInv => PagerTypeOK BY DEF PagerInv
<1> QED BY <1>1, PagerInvariance, PTL

\* For any number of calls, sizes of pages and of the cache, failures and bars
\* that open meanwhile: fetched pages join to the last bars there were.
THEOREM PagesAlwaysJoin == PagerSpec => []PagesJoin
<1>1. PagerInv => PagesJoin
  <2> SUFFICES ASSUME PagerInv, NEW f \in Fetchers,
                      fetches[f].pc = "returned", ~ fetches[f].cached, fetches[f].started
               PROVE  /\ fetches[f].bars = BarsBetween(fetches[f].seen - Len(fetches[f].bars) + 1, fetches[f].seen)
                      /\ fetches[f].empty # 2 =>
                            Len(fetches[f].bars) = Least(fetches[f].total, fetches[f].seen)
    BY DEF PagesJoin
  <2>1. FetchInv(fetches[f]) BY CallFacts
  <2> QED BY <2>1 DEF FetchInv, Returned
<1> QED BY <1>1, PagerInvariance, PTL

-------------------------------------------------------------------------------
(***************************************************************************)
(* The components side by side, as MCServices gives them to TLC: whichever *)
(* of them runs, each behaves as its own specification says, so what the   *)
(* theorems above and in the modules extended say of one holds here.       *)
(***************************************************************************)

LEMMA ComponentsStart ==
    Init => /\ StoreInit /\ LiveInit /\ PolyInit /\ BacktestInit /\ JobsInit
            /\ PagerInit /\ TurnsInit /\ ReactInit /\ RestartInit /\ GatewayInit
BY DEF Init

LEMMA ComponentsStep ==
    [Next]_<<focus, vars>> =>
       /\ [StoreNext]_storeVars /\ [LiveNext]_liveVars /\ [PolyNext]_polyVars
       /\ [BacktestNext]_backtestVars /\ [JobsNext]_jobsVars /\ [PagerNext]_pagerVars
       /\ [TurnsNext]_turnsVars /\ [ReactNext]_reactVars /\ [RestartNext]_restartVars
       /\ [GatewayNext]_gatewayVars
BY DEF Next, vars

\* No component takes a step that is not its own, or begins where it does not.
THEOREM ComponentsByThemselves ==
    Spec => /\ StoreSpec /\ LiveSpec /\ PolySpec /\ BacktestSpec /\ JobsSpec
            /\ PagerSpec /\ TurnsSpec /\ ReactSpec /\ RestartSpec /\ GatewaySpec
BY ComponentsStart, ComponentsStep, PTL
   DEF Spec, StoreSpec, LiveSpec, PolySpec, BacktestSpec, JobsSpec, PagerSpec, TurnsSpec,
       ReactSpec, RestartSpec, GatewaySpec

OneRuns == focus \in Components

\* Whichever component runs keeps to its types; and so do the others.
THEOREM ServicesTypes == Spec => []ServicesTypeOK
<1>1. /\ StoreTypeOK /\ LiveTypeOK /\ PolyTypeOK /\ BacktestTypeOK /\ JobsTypeOK
      /\ PagerTypeOK /\ TurnsTypeOK /\ ReactTypeOK /\ RestartTypeOK /\ GatewayTypeOK
      /\ OneRuns
      => ServicesTypeOK
  BY DEF ServicesTypeOK, OneRuns, Components
<1>2. Spec => []OneRuns
  <2>1. Init => OneRuns
    BY DEF Init, OneRuns
  <2>2. OneRuns /\ [Next]_<<focus, vars>> => OneRuns'
    BY DEF Next, OneRuns
  <2> QED
    BY <2>1, <2>2, PTL DEF Spec
<1> QED
  BY <1>1, <1>2, ComponentsByThemselves, StoreTypes, LiveTypes, BridgeTypes, BacktestTypes, JobsTypes,
     PagerTypes, TurnsTypes, ReactTypes, RestartTypes, GatewayTypes, PTL

=============================================================================
