\* one order
SPECIFICATION Spec
CONSTANTS
    Configs <- OneConfig
    Base = 10
    Digits = 3
    OrdersSize = 64
    QtyMod = 16
    SaveMod = 1000
    LastIndexes = {0, 8}
    OrderQty = 2
    MaxOrders = 1
    MaxRuns = 1
    MaxBeats = 0
INVARIANT EndedIsInvalid
CHECK_DEADLOCK FALSE
