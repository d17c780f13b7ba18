CONSTANTS
    s1 = s1
    s2 = s2
    all = all
    Session <- Sessions
    Origins <- WatchOnly
    Periodic <- NoKey
    HandsOff <- NoKey
    MaxCapture = 2
    Heavy <- SecondIsHeavy
    MaxAttempts = 2
    Limit = 2
    MaxFaults = 2
SPECIFICATION FairSpec
PROPERTY CaptureProjected
