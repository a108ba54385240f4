CONSTANTS
    Cores = 2
    NBranches = 3
    MaxMoves = 1
SPECIFICATION Spec
INVARIANT MoveNeedsNoStart
