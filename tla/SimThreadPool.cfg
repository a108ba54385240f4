CONSTANTS
    Cores = 2
    NBranches = 3
    MaxMoves = 2
SPECIFICATION Spec
INVARIANTS
    FuturesExact
    ParamsStable
    ResultReadWhenStored
    AwakeWhileSimulating
PROPERTIES
    StoppedAfterJoin
    StopTerminates
    ImplementsService
