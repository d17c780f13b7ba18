CONSTANTS
    N = 1
    InitialFiles <- AllFiles
    MaxGen = 1
SPECIFICATION SpecRace
INVARIANT EveryCommitHasItsRecord
