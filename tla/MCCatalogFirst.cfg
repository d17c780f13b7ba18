CONSTANTS
    N = 2
    InitialFiles = {1}
    MaxGen = 1
    Manifest = 1
    Index = 2
    MaxReads = 1
    Identity <- Distinct
SPECIFICATION SpecCatalog
INVARIANT CurrentIsLastGood
