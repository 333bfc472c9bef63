\* The callbacks main.py registers: every call runs to its end.
CONSTANTS
    dflt = dflt
    other = other
    Accounts = {dflt, other}
    DefaultAccount = dflt
    MaxOrders = 3
    Tasks = {t1}
    NoTask = NoTask
    Requests <- AllKindsOfRequests
    NoRequest = NoRequest
    CloseQuantities = {4}
    Prices = {1, 2}
    InitialBalance = 4
    MakerRate = 1
    TakerRate = 2
    Pnls <- GainOrLoss
    CallbackOutcomes = {"return"}
SPECIFICATION Spec
INVARIANTS
    StatementReconciles
    PositionNetsFills
PROPERTIES
    LifecycleSpec
    TickSettlesTriggeredOrders
CHECK_DEADLOCK FALSE
