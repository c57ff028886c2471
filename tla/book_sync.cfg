\* a late joiner on a reliable network
SPECIFICATION SyncSpec
CONSTANTS
    LastSeq = 4
    MaxCount = 2
    CountMod = 16
    MaxHeartbeats = 1
    MaxLoss = 0
    MaxDup = 0
    SocketErrors = TRUE
    Reorder = FALSE
    QtyMod = 16
    Books = {b1}
    Ids = {1}
    Prices = {1, 2}
    MaxQty = 2
INVARIANT NothingUnderstated
INVARIANT NoMissingLevel
INVARIANT AppliedOnce
PROPERTY RewindCompletes
CHECK_DEADLOCK FALSE
