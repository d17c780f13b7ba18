CONSTANTS
    NEvents = 2
    BadEvents <- LastBad
    UrgentEvents <- FirstUrgent
    Limit = 1
    MaxSignals = 2
    MaxFaults = 2
SPECIFICATION FairSpec
INVARIANT TypeOK
INVARIANT NoSignalLost
INVARIANT CountedOnce
INVARIANT OneReplayAtATime
PROPERTY QueueDrains
PROPERTY LaunchLockFreed
