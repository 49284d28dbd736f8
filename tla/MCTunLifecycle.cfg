SPECIFICATION Spec
CONSTANTS
    MaxTuns = 2
    Relays = {r1}
    TrafficStats = FALSE
    NoDialer = NoDialer
    Configs <- MCConfigs
INVARIANTS NothingLeftOpen ReturnedTunIsComplete OutboundsProtected
PROPERTY RelaysEnd
CHECK_DEADLOCK FALSE
