------------------------------ MODULE Movement ------------------------------
(***************************************************************************)
(* The helpers of movement.cpp that look at the cells around a head: the   *)
(* moves that are not suicidal, and the kill tunnel of Terminator.  Each   *)
(* works on a GameState, given as a view: [me, enemies, vacated], the      *)
(* parts of my snake, a sequence of the parts of each other, and the map.  *)
(***************************************************************************)
EXTENDS Occupancy

\* is180 of movement.cpp; parts.at(1) exists when the length is above 1
Is180(p, view) == Len(view.me) > 1 /\ p = view.me[2]

MutantIsCellOk(p, view) ==
    /\ ~OutOfBounds(p)
    /\ TurnsUntilVacant(view.vacated, p) <= 1
    /\ ~Is180(p, view)
IsCellOk(p, view) ==
    /\ ~OutOfBounds(p)
    /\ TurnsUntilVacant(view.vacated, p) = 0
    /\ ~Is180(p, view)
IsCellSafe(p, view) ==
    IsCellOk(p, view) /\ ~CloseToBigHead(p, view.me, view.enemies)
IsCellRisky(p, view) ==
    IsCellOk(p, view) /\ CloseToBigHead(p, view.me, view.enemies)

Destination(view, dir) == CoordAfterMove(view.me[1], dir)
NotImmediatelySuicidalMoves(view) ==
    {dir \in Direction : IsCellOk(Destination(view, dir), view)}
SafeMoves(view) == {dir \in Direction : IsCellSafe(Destination(view, dir), view)}
RiskyMoves(view) ==
    {dir \in Direction : IsCellRisky(Destination(view, dir), view)}

\* the first of a DirectionSet; the value of MaybeDirection::none is Left
NotImmediatelySuicidal(view) ==
    LET inOrder == SelectSeq(<<"Left", "Right", "Up", "Down">>,
                             LAMBDA d : d \in NotImmediatelySuicidalMoves(view))
    IN IF inOrder = <<>> THEN "Left" ELSE Head(inOrder)

-----------------------------------------------------------------------------
(* closestKillTunnelTarget, for one enemy *)

\* checkForOkCellsInRange for every direction
Ahead(cell, dir, i) ==
    CASE dir = "Up"    -> <<cell[1], (cell[2] - i) % CoordMod>>
      [] dir = "Down"  -> <<cell[1], (cell[2] + i) % CoordMod>>
      [] dir = "Left"  -> <<(cell[1] - i) % CoordMod, cell[2]>>
      [] dir = "Right" -> <<(cell[1] + i) % CoordMod, cell[2]>>
OpenWays(cell, range, view) ==
    {dir \in Direction :
        \A i \in 1 .. range : IsCellOk(Ahead(cell, dir, i), view)}

\* lastDirection, the last way found open, which stays when no way is
LookingOrder == <<"Up", "Down", "Left", "Right">>
LastOpen(ways) == LookingOrder[Max({i \in 1 .. 4 : LookingOrder[i] \in ways})]
MutantLastWay(ways, before) == IF ways = {} THEN "Up" ELSE LastOpen(ways)
LastWay(ways, before) == IF ways = {} THEN before ELSE LastOpen(ways)

WalkOn(walk, range, view) ==
    LET cell == CoordAfterMove(walk.cell, walk.way)
        ways == OpenWays(cell, range, view)
    IN [cell |-> cell, path |-> Append(walk.path, cell), ways |-> ways,
        way |-> LastWay(ways, walk.way)]

\* the walk along the only open way, bounded by width * height steps
TunnelWalk(head, range, view) ==
    LET ways == OpenWays(head, range, view)
        walk[k \in 0 .. Width * Height] ==
          IF k = 0 THEN [cell |-> head, path |-> <<>>, ways |-> ways,
                         way |-> LastWay(ways, "Up")]
          ELSE LET before == walk[k - 1]
               IN IF Cardinality(before.ways) # 1 THEN before
                  ELSE WalkOn(before, range, view)
    IN walk[Width * Height]

HasKillTarget(walk, range) == Len(walk.path) > range
KillTarget(walk) == CoordAfterMove(Last(walk.path), walk.way)
=============================================================================
