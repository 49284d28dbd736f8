SPECIFICATION AppSpec
CONSTANTS
    a1 = a1
    a2 = a2
    v1 = v1
    NoDialer = NoDialer
    AppDialers = {a1, a2}
    VpnDialers = {v1}
    Casts <- MCCasts
    Datagrams <- MCDatagrams
    BufferSize = 2
    Rows <- MCRows
    MaxCalls = 2
    Instances = {i1, i2}
    Callers = {c1, c2}
    Resolvers = {x1, x2}
    Exchanging = {x1}
    Nil = Nil
    MaxHookCalls = 3
    Readers = {t1, t2, t3}
    Pieces <- MCPieces
    MaxHttpCalls = 4
    Sizes <- MCSizes
    MaxBuffers = 2
INVARIANT AsksAboutReceived
CHECK_DEADLOCK FALSE
