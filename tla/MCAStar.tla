------------------------------ MODULE MCAStar ------------------------------
(***************************************************************************)
(* Searches on real boards: a snake and an enemy of given lengths lie      *)
(* anywhere on the board, the search starts at the snake's head and may    *)
(* have any cell as its goal, as in closestFood, chaseTail and InYourFace. *)
(***************************************************************************)
EXTENDS AStar, Occupancy

CONSTANTS MyLength, EnemyLengths

ScenarioOf(me, enemy, aim) ==
    [start   |-> me[1],
     aim     |-> aim,
     goal    |-> GoalCell(aim),
     neck    |-> me[2],
     vacated |-> VacatedMap(<<me, enemy>>),
     danger  |-> {c \in Cell : CloseToBigHead(c, me, <<enemy>>)}]

\* closestFood and chaseTail have goals on the board, bestCutoff may have one
\* off it, next to the enemy's head.
Aims(enemy) == Cell \cup {CoordAfterMove(enemy[1], d) : d \in Direction}

MCScenario ==
    LET mine == {b \in BodiesOfLength(MyLength) :
                    b[1][1] <= Width \div 2 /\ b[1][2] <= Height \div 2}
        theirs == UNION {BodiesOfLength(n) : n \in EnemyLengths}
        pairs == {p \in mine \X theirs : Range(p[1]) \cap Range(p[2]) = {}}
    IN UNION {{ScenarioOf(p[1], p[2], aim) : aim \in Aims(p[2])} : p \in pairs}

=============================================================================
