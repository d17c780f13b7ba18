CONSTANTS
    s1 = s1
    s2 = s2
    s3 = s3
    graph = graph
    Session <- ThreeSessions
    Consumer <- GraphOnly
    Lane <- GraphOnly
    Limit = 1
    MaxRecord = 3
    MaxCrashes = 0
SPECIFICATION FairSpec
PROPERTY EveryRecordServed
CHECK_DEADLOCK FALSE
