\* one client that only logs out, its packet in one segment
SPECIFICATION Spec
CONSTANTS
    Clients = {c1}
    Impostors = {}
    Mortal = {}
    MaxLogins = 0
    SendBuffer = 4
    Cuts <- NoCuts
    MaxEvents = 2
    ReadSize = 4096
    Faults = {}
    BufferSize = 4
PROPERTY LogoutReturns
CHECK_DEADLOCK FALSE
