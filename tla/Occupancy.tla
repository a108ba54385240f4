----------------------------- MODULE Occupancy -----------------------------
(***************************************************************************)
(* The map of a GameState (classes Cell and Map of snakelib.cpp): for      *)
(* every cell the number of turns until the snakes now on the board have   *)
(* left it.  The map is filled snake after snake, part after part.         *)
(***************************************************************************)
EXTENDS Board, SequencesExt

\* Cell::vacate with a part that leaves after the given number of turns
MutantVacate(vacated, p, turn) == [vacated EXCEPT ![p] = turn]
Vacate(vacated, p, turn) ==
    [vacated EXCEPT ![p] = IF turn > @ THEN turn ELSE @]

\* Map::updateVacateTurnsForSnake: the part at 0-based index i leaves after
\* size - i - 1 turns
VacateSnake(vacated, parts) ==
    FoldLeft(LAMBDA v, i : Vacate(v, parts[i], Len(parts) - i),
             vacated, [i \in 1 .. Len(parts) |-> i])

\* Map::update; the vectors of all parts, in any order
VacatedMap(bodies) ==
    FoldLeft(VacateSnake, [c \in Cell |-> 0], bodies)

\* Map::turnsUntilVacant
TurnsUntilVacant(vacated, p) == IF OutOfBounds(p) THEN 0 ELSE vacated[p]

\* isCloseToEqualOrBiggerSnakeHead, for the snake with body me
CloseToBigHead(c, me, enemies) ==
    \E i \in DOMAIN enemies : /\ Len(me) <= Len(enemies[i])
                              /\ IsAdjacent(c, enemies[i][1])

\* the bodies of n parts that can lie on the board
BodiesOfLength(n) ==
    LET paths[k \in 1 .. n] ==
          IF k = 1 THEN {<<c>> : c \in Cell}
          ELSE UNION {{Append(p, c) : c \in {d \in Cell \ Range(p) :
                                               IsAdjacent(Last(p), d)}} :
                        p \in paths[k - 1]}
    IN paths[n]
=============================================================================
