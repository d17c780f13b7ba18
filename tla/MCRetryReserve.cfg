CONSTANTS
    s1 = s1
    s2 = s2
    all = all
    Session <- TwoSessions
    Origins <- WatchOnly
    Periodic <- DeepAll
    HandsOff <- NoKey
    MaxCapture = 1
    Heavy = {}
    MaxAttempts = 1
    Limit = 2
    MaxFaults = 0
SPECIFICATION Spec
PROPERTY FinalSlotReserved
