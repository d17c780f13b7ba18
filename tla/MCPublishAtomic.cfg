CONSTANTS
    N = 2
    InitialFiles <- AllFiles
    MaxGen = 3
SPECIFICATION FairSpec
INVARIANT LastGoodRecoverable
PROPERTY PublishesAtomically
PROPERTY JournalEventuallyClosed
