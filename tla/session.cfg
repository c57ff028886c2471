\* a client that may be killed and one with wrong credentials
SPECIFICATION Spec
CONSTANTS
    Clients = {c1, c2}
    Impostors = {c2}
    Mortal = {c1}
    MaxLogins = 1
    SendBuffer = 1
    Cuts <- MCCuts
    MaxEvents = 2
    ReadSize = 4096
    Faults = {"accept", "epoll_ctl"}
    BufferSize = 4
INVARIANT TypeOK
INVARIANT NoLostWakeup
INVARIANT FramesIntact
INVARIANT RoomToRead
PROPERTY StopReturns
PROPERTY NobodyLeftWaiting
CHECK_DEADLOCK FALSE
