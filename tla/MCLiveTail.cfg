CONSTANTS
    MaxPieces <- LongThenShort
    MaxEpochs = 2
    Projectable <- MoreTexts
    MaxProjections = 1
    Times = {1}
    ShardMax = 2
    MaxFaults = 1
SPECIFICATION Spec
INVARIANT ManifestIsExact
INVARIANT AnswerIsExact
