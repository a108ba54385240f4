CONSTANTS
    Width = 3
    Height = 2
    CoordMod = 8
    Snake = {s1, s2, s3}
    Me = s1
    NoSnake = NoSnake
    StartLength = 3
    MaxFood = 1
SPECIFICATION Spec
SYMMETRY Symmetry
INVARIANTS
    BodiesDisjoint
    TurnFollowsRules
    MovesJudgedRight
    JsTurnFollowsRules
    JsCachesFresh
CHECK_DEADLOCK FALSE
