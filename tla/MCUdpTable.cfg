SPECIFICATION Spec
CONSTANTS
    k1 = k1
    c1 = c1
    c2 = c2
    Sources = {k1}
    Callers = {c1, c2}
    QueueCap = 1
    MaxPackets = 3
    MaxSessions = 2
    DeviceWaits = {FALSE}
    DumpUID = FALSE
    TrafficStats = TRUE
SYMMETRY Symmetry
VIEW LiveState
INVARIANTS TableOwned BlockedNeverWritten BufferOwned
CHECK_DEADLOCK FALSE
