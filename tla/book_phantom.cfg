\* a late joiner on a reliable network, one share per order
SPECIFICATION SyncSpec
CONSTANTS
    LastSeq = 4
    MaxCount = 2
    CountMod = 16
    MaxHeartbeats = 0
    MaxLoss = 0
    MaxDup = 0
    SocketErrors = FALSE
    Reorder = FALSE
    QtyMod = 16
    Books = {b1}
    Ids = {1}
    Prices = {1, 2}
    MaxQty = 1
INVARIANT NeverBad
CHECK_DEADLOCK FALSE
