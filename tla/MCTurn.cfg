CONSTANTS
    MaxTurns = 2
    MaxRounds = 2
    MaxCalls = 2
SPECIFICATION FairSpec
CHECK_DEADLOCK FALSE
INVARIANT StoreCanBeGoneOnFrom
PROPERTIES
    RefusalEndsTurn
    CancelEndsTurn
