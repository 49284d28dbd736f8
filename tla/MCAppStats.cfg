SPECIFICATION Spec
CONSTANTS
    t1 = t1
    t2 = t2
    u1 = u1
    r1 = r1
    r2 = r2
    TcpHandlers = {t1, t2}
    UdpHandlers = {u1}
    Pollers = {r1, r2}
    None = None
    Casts <- MCCasts
INVARIANTS CountsMatchHolders QuietIsStamped TrafficConserved
PROPERTIES RecordFound
CHECK_DEADLOCK FALSE
