SPECIFICATION Spec
CONSTANTS
    t1 = t1
    t2 = t2
    u1 = u1
    u2 = u2
    Threads = {t1, t2}
    Users = {u1, u2}
    MaxCores = 2
    MaxCalls = 5
SYMMETRY Symmetry
INVARIANTS CrashNeedsClose DialsUseStartedCore FeaturesOfRunningCore ClosedLeavesNoneRunning
CHECK_DEADLOCK FALSE
