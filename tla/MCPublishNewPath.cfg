CONSTANTS
    N = 2
    InitialFiles <- SomeFiles
    MaxGen = 2
SPECIFICATION Spec
INVARIANT LastGoodRecoverable
