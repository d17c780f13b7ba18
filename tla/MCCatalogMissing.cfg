CONSTANTS
    N = 2
    InitialFiles <- AllFiles
    MaxGen = 2
    Manifest = 1
    Index = 2
    MaxReads = 3
    Identity <- Retried
SPECIFICATION SpecCatalog
INVARIANT NeverMissing
