CONSTANTS
    N = 3
    InitialFiles <- SomeFiles
    MaxGen = 2
    Manifest = 1
    Index = 2
    MaxReads = 2
    Identity <- Retried
SPECIFICATION SpecCatalog
INVARIANT TypeOK
INVARIANT OriginalsRecoverable
INVARIANT IntentsMatchCommits
INVARIANT CurrentIsLastGood
PROPERTY CommitIsIrrevocable
