CONSTANTS
    Width = 5
    Height = 5
    CoordMod = 16
    MyLengths = {3}
    EnemyLengths = {2, 4}
    Food = {f1, f2, f3}
    Enemy = {e1, e2}
    NoFood = NoFood
    OneFood = {f1}
    OneEnemy = {e1}
    Reach = {1}
    FarAway = 9
    MyBodies <- MCMyBodies
    EnemyBodies <- MCEnemyBodies
    Race <- MCRace
SPECIFICATION MCSpec
INVARIANT LeftZoneWatched
CHECK_DEADLOCK FALSE
