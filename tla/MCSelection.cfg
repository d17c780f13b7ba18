CONSTANTS
    s1 = s1
    s2 = s2
    s3 = s3
    graph = graph
    Session <- ThreeSessions
    Consumer <- GraphOnly
    Lane <- GlobalOnly
    Limit = 1
    MaxRecord = 3
    MaxCrashes = 1
SPECIFICATION FairSpec
PROPERTY ServedWhenQuiet
CHECK_DEADLOCK FALSE
