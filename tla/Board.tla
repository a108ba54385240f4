------------------------------- MODULE Board -------------------------------
(***************************************************************************)
(* The geometry of snakelib.hpp.  Coordinates are uint32_t: stepping left  *)
(* or up from 0 wraps around to the largest coordinate.  CoordMod stands   *)
(* for 2^32, which is beyond the integers TLC computes with; what matters  *)
(* is that the wrapped coordinate lies outside every board.                *)
(***************************************************************************)
EXTENDS Integers

CONSTANTS Width, Height,
          CoordMod   \* stands for 2^32

ASSUME BoardAssumption ==
    /\ Width \in Nat \ {0}
    /\ Height \in Nat \ {0}
    /\ CoordMod \in Nat
    /\ CoordMod > Width + 1
    /\ CoordMod > Height + 1

Direction == {"Left", "Right", "Up", "Down"}
Coord == 0 .. CoordMod - 1
Point == Coord \X Coord
Cell == (0 .. Width - 1) \X (0 .. Height - 1)

Inc(c) == IF c = CoordMod - 1 THEN 0 ELSE c + 1
Dec(c) == IF c = 0 THEN CoordMod - 1 ELSE c - 1

CoordAfterMove(p, dir) ==
    CASE dir = "Up"    -> <<p[1], Dec(p[2])>>
      [] dir = "Down"  -> <<p[1], Inc(p[2])>>
      [] dir = "Left"  -> <<Dec(p[1]), p[2]>>
      [] dir = "Right" -> <<Inc(p[1]), p[2]>>

OutOfBounds(p) == p[1] >= Width \/ p[2] >= Height

AbsDiff(a, b) == IF a > b THEN a - b ELSE b - a
Distance(p, q) == AbsDiff(p[1], q[1]) + AbsDiff(p[2], q[2])
IsAdjacent(p, q) ==
    \/ AbsDiff(p[1], q[1]) = 1 /\ p[2] = q[2]
    \/ AbsDiff(p[2], q[2]) = 1 /\ p[1] = q[1]
=============================================================================
