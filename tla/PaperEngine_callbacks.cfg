\* Callbacks that suspend the caller or raise: coroutines interleave at every
\* await of the engine.
CONSTANTS
    dflt = dflt
    other = other
    Accounts = {dflt, other}
    DefaultAccount = dflt
    MaxOrders = 2
    Tasks = {t1, t2}
    NoTask = NoTask
    Requests <- ContendingRequests
    NoRequest = NoRequest
    CloseQuantities = {}
    Prices = {1}
    InitialBalance = 4
    MakerRate = 0
    TakerRate = 1
    Pnls <- GainOnly
    CallbackOutcomes = {"suspend", "raise"}
SPECIFICATION FairSpec
INVARIANTS
    ExecutedExactlyOnce
PROPERTIES
    EveryCallReturns
    FinalUnlessForced
CHECK_DEADLOCK FALSE
