\* orders, executions, configurations, restarts and crashes
SPECIFICATION Spec
CONSTANTS
    Configs <- MCConfigs
    Base = 4
    Digits = 3
    OrdersSize = 2
    QtyMod = 16
    SaveMod = 62
    LastIndexes = {27, 59}
    OrderQty = 2
    MaxOrders = 2
    MaxRuns = 2
    MaxBeats = 1
INVARIANT TypeOK
INVARIANT TokensAscend
INVARIANT ConfigTaken
INVARIANT OnlyOwnEntries
INVARIANT QuantityTracked
INVARIANT RejectedIsInvalid
CHECK_DEADLOCK FALSE
