CONSTANTS
    N = 2
    InitialFiles <- AllFiles
    MaxGen = 2
SPECIFICATION Spec
INVARIANT RaisedKeepsLastGood
