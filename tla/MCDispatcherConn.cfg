SPECIFICATION Spec
CONSTANTS
    CacheCap = 2
    MaxPackets = 3
INVARIANTS NothingVanishes PanicNeedsAnotherCloser
PROPERTIES ImplementsStream CancelEndsConn
CHECK_DEADLOCK FALSE
