CONSTANTS
    k1 = k1
    k2 = k2
    k3 = k3
    NoDirection = NoDirection
    Key <- MCKey
    Direction <- MCDirection
    Futures <- MCFutures
    Situation <- MCSituation
    MaxFutures = 3
    NoLimit = 1000000000
    MaxLife = 10000
    MaxMurder = 10000000
    MaxInt = 2147483647
    Sims = 3
    MaxTurns = 3
SPECIFICATION DecisionSpec
INVARIANTS
    ChoiceIsMaximin
    LifeComesFirst
    Lockstep
    NoZeroMoveFuture
    BoundedOverrun
    ReasonsHonest
PROPERTY Terminates
CHECK_DEADLOCK FALSE
