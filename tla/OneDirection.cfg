CONSTANTS
    Threads = 2
    Branches = 1
    Enemies = 1
    MaxTurns = 2
    MaxMoves = 0
SPECIFICATION Spec
INVARIANT CautiousForGood
CHECK_DEADLOCK FALSE
