CONSTANTS
    p1 = p1
    p2 = p2
    search = search
    entity = entity
    Procs <- TwoProcs
    Consumers <- OneConsumer
    Dependency <- OneDependency
    MaxAttempts = 2
    MaxPub = 2
    MaxProgress = 1
    MaxCrashes = 1
    Sweeping = TRUE
SPECIFICATION Spec
SYMMETRY Symmetry
INVARIANT OneCommitPerOperation
INVARIANT CompletionIsBacked
PROPERTY FencedWrites
CHECK_DEADLOCK FALSE
