CONSTANTS
    MaxPieces <- ShortThenLong
    MaxEpochs = 2
    Projectable <- MoreTexts
    MaxProjections = 2
    Times = {1, 2}
    ShardMax = 2
    MaxFaults = 0
SPECIFICATION Spec
INVARIANT AnswerIsAlwaysExact
