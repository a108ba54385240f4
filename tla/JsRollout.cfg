CONSTANTS
    Width = 3
    Height = 2
    CoordMod = 8
    Snake = {s1, s2, s3}
    Me = s1
    StartLength = 3
    MaxFood = 1
    FirstMoves <- MCFirstMoves
SPECIFICATION Spec
INVARIANT DeadAreNoEnemies
CHECK_DEADLOCK FALSE
