CONSTANTS
    p1 = p1
    p2 = p2
    search = search
    entity = entity
    Procs <- OneProc
    Consumers <- TwoConsumers
    Dependency <- TwoDependency
    MaxAttempts = 1
    MaxPub = 1
    MaxProgress = 0
    MaxCrashes = 0
    Sweeping = FALSE
SPECIFICATION Spec
INVARIANT RetirementReleases
CHECK_DEADLOCK FALSE
