\* Ten components of the service, each by itself.
CONSTANTS
    Strategies = {s1}
    Requests = {1, 2, 3}
    Absent = Absent
    MaxCrashes = 1

    Orders = {o1}
    Quantity = 2
    Untracked = Untracked
    MaxDrops = 1

    Frontends = {f1, f2}
    Tokens = {t1}
    Nobody = Nobody
    MaxClients = 2
    MaxSockets = 3

    ClosingPrices = {40, 100, 205}
    InitialCash = 10000
    SlippageBps = 100
    FeeBps = 10
    StopLosses = {50, NoLimit}
    TakeProfits = {100, NoLimit}
    Warmup = 2
    KeptBars = 3
    NoLimit = NoLimit
    Length = 6

    Backtests = {b1, b2, b3}
    MaxTasks = 2
    MaxResults = 1
    MaxConcurrent = 2
    MaxRestarts = 1

    Fetchers = {g1, g2}
    Totals = {3, 5}
    PageSize = 2
    CacheSize = 1
    FirstBars = {0, 1, 4, 7}
    MaxBars = 7

    Sessions = {u1}
    Connections = {1, 2, 3}
    MaxTurns = 2
    MaxEvents = 3

    CallKeys = {k1, k2}
    MaxCalls = 2
    MaxRounds = 3
    MaxSameCalls = 3
    MaxNoProgress = 2
    CompactAbove = 3
    KeepRecent = 3
    KeepAggressive = 2
    MaxMessages = 3
    MaxQuestions = 2

    Wallets = {w0, w1}
    DefaultWallet = w0
    PaperOrders = {p1}
    MaxFills = 2
    MaxResets = 1
    MaxKills = 2

    Browsers = {n1, n2}
    Slow = {n1}
    Mortal = {n1}
    MaxPerIp = 2
    MaxTicks = 2
    MaxBooks = 1
    MaxFlushers = 1
SPECIFICATION Spec
INVARIANTS
    ServicesTypeOK
    AnsweredEditsAreInHistory
    DeploymentsAreRecorded
    ExecutionsBookedOnce
    AnsweredOrdersAgree
    RecordedTokensServed
    TradesExplainCash
    PortfolioFollowsRuntime
    StopHonoured
    FinishedBacktestsFound
    DeletedStaysDeleted
    PagesJoin
    OnlyInFlightIsMissed
    ListenersHearTheEnd
    RequestsAreAnswerable
    RestoredFillsAreBooked
    BroadcastsReachSubscribers
    CountsMatchConnections
CHECK_DEADLOCK FALSE
