SPECIFICATION DeviceSpec
CONSTANTS
    Apps = {a1}
    Peers = {p1, p2}
    NoAddr = NoAddr
    MaxBuffers = 3
    Requests = {1, 2}
    MaxInFlight = 1
    EnableIPv6 = TRUE
    DiscardICMP <- MCDiscardICMP
    DiscardByNetwork = TRUE
INVARIANTS CacheIsOurs TreatedAlike NoNilDispatch
CHECK_DEADLOCK FALSE
