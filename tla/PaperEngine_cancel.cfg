\* Resting limit orders and their cancellation, as wired in main.py.
CONSTANTS
    dflt = dflt
    other = other
    Accounts = {dflt, other}
    DefaultAccount = dflt
    MaxOrders = 2
    Tasks = {t1}
    NoTask = NoTask
    Requests <- LimitRequests
    NoRequest = NoRequest
    CloseQuantities = {}
    Prices = {1, 2}
    InitialBalance = 4
    MakerRate = 1
    TakerRate = 2
    Pnls <- GainOrLoss
    CallbackOutcomes = {"return"}
SPECIFICATION Spec
INVARIANT WalletIdentity
CHECK_DEADLOCK FALSE
