CONSTANTS
    s1 = s1
    s2 = s2
    all = all
    Session <- Sessions
    Origins <- WatchOnly
    Periodic <- Catchup
    HandsOff <- Catchup
    MaxCapture = 2
    Heavy <- SecondIsHeavy
    MaxAttempts = 1
    Limit = 1
    MaxFaults = 1
SPECIFICATION Spec
INVARIANT TypeOK
INVARIANT ObligationKept
INVARIANT StageIsProven
PROPERTY ReleaseIsConverged
