---------------------------- MODULE MCFloodFill ----------------------------
(***************************************************************************)
(* Counts on real boards: two snakes of given lengths lie anywhere, and    *)
(* the count starts where the first of them would go, which may be off the *)
(* board, as in countAccessibleCellsAfterMove.                             *)
(***************************************************************************)
EXTENDS FloodFill, Occupancy

CONSTANTS MyLength, EnemyLengths

MCScenario ==
    LET pairs == {p \in BodiesOfLength(MyLength)
                        \X UNION {BodiesOfLength(n) : n \in EnemyLengths} :
                    Range(p[1]) \cap Range(p[2]) = {}}
    IN {[start   |-> CoordAfterMove(p[1][1], dir),
         vacated |-> VacatedMap(p)] : p \in pairs, dir \in Direction}
=============================================================================
