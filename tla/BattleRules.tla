---------------------------- MODULE BattleRules ----------------------------
(***************************************************************************)
(* The rules of a turn, stated by who survives, eats and grows, with no    *)
(* order among the snakes: the specification that applyMoves, which works  *)
(* through the snakes one after another, is shown to implement.            *)
(***************************************************************************)
EXTENDS Board, Sequences, FiniteSets

CONSTANT Snake

VARIABLES bodies,  \* the parts of each living snake, head first
          food     \* the cells with food

alive == DOMAIN bodies
head(s, dir) == CoordAfterMove(bodies[s][1], dir[s])
size(s) == Len(bodies[s])

\* it is longer than every other snake whose head comes to the same cell
wins(s, dir) ==
    \A r \in alive \ {s} : head(r, dir) = head(s, dir) => size(r) < size(s)
eats(s, dir) == head(s, dir) \in food /\ wins(s, dir)

\* a snake that eats keeps its length for now, and grows by a part stacked on
\* the end of its tail
moved(s, dir) ==
    <<head(s, dir)>> \o SubSeq(bodies[s], 1, size(s) - 1)
        \o IF eats(s, dir) THEN <<bodies[s][size(s) - 1]>> ELSE <<>>

tails(dir) == UNION {{moved(s, dir)[i] : i \in 2 .. Len(moved(s, dir))} :
                       s \in alive}
survivors(dir) == {s \in alive : /\ wins(s, dir)
                                 /\ ~OutOfBounds(head(s, dir))
                                 /\ head(s, dir) \notin tails(dir)}

BodiesAfter(dir) == [s \in survivors(dir) |-> moved(s, dir)]
FoodAfter(dir) == food \ {head(s, dir) : s \in {r \in alive : eats(r, dir)}}

Turn(dir) == bodies' = BodiesAfter(dir) /\ food' = FoodAfter(dir)
=============================================================================
