SPECIFICATION Spec
CONSTANTS
    t1 = t1
    t2 = t2
    u1 = u1
    r1 = r1
    TcpHandlers = {t1, t2}
    UdpHandlers = {u1}
    Pollers = {r1}
    None = None
    Casts <- MCPair
INVARIANT SyncReadNeverFails
CHECK_DEADLOCK FALSE
