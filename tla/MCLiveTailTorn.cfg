CONSTANTS
    MaxPieces <- OneEpoch
    MaxEpochs = 1
    Projectable <- SomeTexts
    MaxProjections = 1
    Times = {1}
    ShardMax = 2
    MaxFaults = 0
SPECIFICATION Spec
INVARIANT TornLineIsFound
