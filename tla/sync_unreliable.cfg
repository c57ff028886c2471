\* packets are lost, repeated and reordered
SPECIFICATION Spec
CONSTANTS
    LastSeq = 4
    MaxCount = 2
    CountMod = 4
    MaxHeartbeats = 1
    MaxLoss = 1
    MaxDup = 1
    SocketErrors = TRUE
    Reorder = TRUE
INVARIANT TypeOK
INVARIANT MissingIsARun
INVARIANT NothingForgotten
INVARIANT RewindingMeansMissing
INVARIANT NeverUndefined
INVARIANT RequestsStayBelow
PROPERTY RewindSpec
CHECK_DEADLOCK FALSE
