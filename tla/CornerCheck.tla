----------------------------- MODULE CornerCheck -----------------------------
(***************************************************************************)
(* couldEndUpCornerAdjacentToBiggerSnake of snakelib.cpp, which scoreFuture*)
(* asks about the direction a future begins with: could a snake too big to *)
(* eat move to a cell that touches the corner of the cell I go to?         *)
(*                                                                         *)
(* Every position of two snakes is asked about each of the four directions.*)
(***************************************************************************)
EXTENDS Occupancy

CONSTANTS MyBodies, EnemyBodies  \* the bodies that the two snakes may have

ASSUME CornerAssumption ==
    /\ MyBodies \subseteq Seq(Cell) \ {<<>>}
    /\ EnemyBodies \subseteq Seq(Cell) \ {<<>>}
    /\ CoordMod > Width + 3 /\ CoordMod > Height + 3

VARIABLES me, enemy,  \* the parts of the two snakes
          vacated,    \* the map of this GameState
          asked,      \* the direction asked about, or "none"
          verdict

cornerVars == <<me, enemy, vacated, asked, verdict>>

CornerInit ==
    /\ me \in MyBodies
    /\ enemy \in EnemyBodies
    /\ Range(me) \cap Range(enemy) = {}
    /\ vacated = VacatedMap(<<me, enemy>>)
    /\ asked = "none"
    /\ verdict = FALSE

\* a point some columns and rows away; sums of uint32_t wrap around
Wrap(n) == IF n < 0 THEN n + CoordMod
           ELSE IF n >= CoordMod THEN n - CoordMod ELSE n
At(dx, dy) == <<Wrap(me[1][1] + dx), Wrap(me[1][2] + dy)>>

\* the spots from which the first and the second destination can be reached
DangerPoints(dir) ==
    CASE dir = "Up"    -> <<{At(-2, -2), At(-1, -3)}, {At(1, -3), At(2, -2)}>>
      [] dir = "Right" -> <<{At(2, -2), At(3, -1)}, {At(3, 1), At(2, 2)}>>
      [] dir = "Down"  -> <<{At(2, 2), At(1, 3)}, {At(-1, 3), At(-2, 2)}>>
      [] dir = "Left"  -> <<{At(-2, 2), At(-3, 1)}, {At(-3, -1), At(-2, -2)}>>

MutantDestinations(dir) ==
    CASE dir = "Up"    -> <<At(1, -2), At(-1, -2)>>
      [] dir = "Right" -> <<At(2, -1), At(2, 1)>>
      [] dir = "Down"  -> <<At(1, 2), At(-1, 2)>>
      [] dir = "Left"  -> <<At(-2, 2), At(-1, 2)>>
Destinations(dir) ==
    CASE dir = "Up"    -> <<At(-1, -2), At(1, -2)>>
      [] dir = "Right" -> <<At(2, -1), At(2, 1)>>
      [] dir = "Down"  -> <<At(1, 2), At(-1, 2)>>
      [] dir = "Left"  -> <<At(-2, 2), At(-1, 2)>>

\* isTooBigForMeToEat
TooBig == Len(me) <= Len(enemy)

\* spaceIsOpen
SpaceIsOpen(p) == ~OutOfBounds(p) /\ TurnsUntilVacant(vacated, p) = 0

CouldEndUpCornerAdjacent(dir) ==
    \E k \in {1, 2} : /\ SpaceIsOpen(Destinations(dir)[k])
                      /\ TooBig
                      /\ enemy[1] \in DangerPoints(dir)[k]

Ask ==
    /\ asked = "none"
    /\ asked' \in Direction
    /\ verdict' = CouldEndUpCornerAdjacent(asked')
    /\ UNCHANGED <<me, enemy, vacated>>

CornerNext == Ask
CornerSpec == CornerInit /\ [][CornerNext]_cornerVars

-----------------------------------------------------------------------------
(* Properties *)

\* The danger zone of the diagram (snakelib.cpp:502-516), told without
\* coordinates: an open cell, beyond the cell I go to and touching its
\* corner, that an enemy too big to eat can enter from further away.
InDanger(dir) ==
    LET to == CoordAfterMove(me[1], dir)
    IN \E d \in Cell :
          /\ AbsDiff(d[1], to[1]) = 1 /\ AbsDiff(d[2], to[2]) = 1
          /\ Distance(d, me[1]) = 3
          /\ vacated[d] = 0
          /\ Len(enemy) >= Len(me)
          /\ IsAdjacent(enemy[1], d)
          /\ Distance(enemy[1], me[1]) = 4

\* Going up, right or down is judged dangerous exactly if it is, also at the
\* borders, where the points of the zone wrap around (snakelib.cpp:571-628).
ZoneWatched ==
    asked \in {"Up", "Right", "Down"} => (verdict <=> InDanger(asked))

\* "s, t, u, v, w, x, y, z are the destination points that we do not want the
\* enemy snake to move to" (snakelib.cpp:505-506): going left, z and s.
LeftZoneWatched == asked = "Left" => (verdict <=> InDanger(asked))
=============================================================================
