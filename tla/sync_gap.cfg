\* one live packet is lost in the normal flow
SPECIFICATION Spec
CONSTANTS
    LastSeq = 3
    MaxCount = 2
    CountMod = 16
    MaxHeartbeats = 1
    MaxLoss = 1
    MaxDup = 0
    SocketErrors = FALSE
    Reorder = FALSE
INVARIANT GapsAreRequested
CHECK_DEADLOCK FALSE
