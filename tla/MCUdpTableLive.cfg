SPECIFICATION Spec
CONSTANTS
    k1 = k1
    c1 = c1
    Sources = {k1}
    Callers = {c1}
    QueueCap = 1
    MaxPackets = 3
    MaxSessions = 1
    DeviceWaits = {TRUE, FALSE}
    DumpUID = FALSE
    TrafficStats = FALSE
INVARIANT WrittenInOrder
PROPERTIES NewPacketReturns CloseEndsSessions
CHECK_DEADLOCK FALSE
