CONSTANTS
    p1 = p1
    p2 = p2
    search = search
    entity = entity
    Procs <- TwoProcs
    Consumers <- TwoConsumers
    Dependency <- TwoDependency
    MaxAttempts = 2
    MaxPub = 2
    MaxProgress = 0
    MaxCrashes = 1
    Sweeping = FALSE
SPECIFICATION FairSpec
INVARIANT HandlerRunsOnce
INVARIANT DependenciesFirst
INVARIANT RetirementIsProven
PROPERTY CompletionIsFinal
PROPERTY RecordsSettle
CHECK_DEADLOCK FALSE
