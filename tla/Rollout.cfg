CONSTANTS
    Width = 3
    Height = 3
    CoordMod = 8
    Snake = {s1, s2}
    Me = s1
    NoSnake = NoSnake
    StartLength = 3
    MaxFood = 2
    MaxTurns = 4
    FirstMoves <- MCFirstMoves
SPECIFICATION RolloutSpec
INVARIANTS
    BodiesArePaths
    FutureExact
    AnswerLeadsHere
PROPERTIES
    RecordsStand
    MapForetold
CHECK_DEADLOCK FALSE
