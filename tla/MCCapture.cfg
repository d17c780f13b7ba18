CONSTANTS
    MaxSize = 3
    MaxChanges = 2
    MaxBuilds = 1
    MaxCrashes = 1
    Shakes <- AppendOrReplace
SPECIFICATION FairSpec
INVARIANT TypeOK
INVARIANT LedgerIsBacked
INVARIANT PointersAreBacked
INVARIANT StableIsOneWriting
PROPERTY CommittedOnlyGrows
PROPERTY StableIsComplete
