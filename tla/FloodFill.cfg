CONSTANTS
    Width = 4
    Height = 3
    CoordMod = 32
    MyLength = 3
    EnemyLengths = {3, 4}
    Scenario <- MCScenario
SPECIFICATION Spec
INVARIANTS
    CountSound
    CountComplete
PROPERTY Terminates
CHECK_DEADLOCK FALSE
