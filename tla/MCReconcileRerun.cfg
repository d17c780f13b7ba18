CONSTANTS
    p1 = p1
    p2 = p2
    search = search
    entity = entity
    Procs <- OneProc
    Consumers <- TwoConsumers
    Dependency <- TwoDependency
    MaxAttempts = 2
    MaxPub = 1
    MaxProgress = 1
    MaxCrashes = 1
    Sweeping = FALSE
SPECIFICATION Spec
INVARIANT HandlerRunsOnce
CHECK_DEADLOCK FALSE
