CONSTANTS
    Width = 4
    Height = 3
    CoordMod = 2048
    NoCell = NoCell
    VeryHighCost = 100
    InfinityCost = 1000
    MaxIterations = 20
    MyLength = 3
    EnemyLengths = {2, 3}
    Scenario <- MCScenario
SPECIFICATION Spec
INVARIANTS
    ArrivalsSafe
    PathIsLegal
    OpenCellsScored
    SizeIsExact
    AvoidsDanger
PROPERTY Terminates
CHECK_DEADLOCK FALSE
