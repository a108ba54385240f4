----------------------------- MODULE MCRollout -----------------------------
(***************************************************************************)
(* Branches without a prefix, as Sim::move tries them for Cautious and     *)
(* InYourFace, and with some of the prefixes of two moves it gives to Dog. *)
(***************************************************************************)
EXTENDS Rollout, Occupancy

MCFirstMoves == {<<>>, <<"Up", "Left">>, <<"Right", "Right">>}

-----------------------------------------------------------------------------
mapOf(parts) == VacatedMap(SetToSeq(Range(parts)))

\* The path search looks only at the map of now, also for the turns to come.
\* It may: in every turn the count of a cell that a living snake lies on goes
\* down by one, or stays while that snake eats, unless a head has just come
\* in, and cells that nobody lies on count nothing, also right after deaths.
\* So only a meal makes the way the search has found come too early
\* (snakelib.cpp:220-229 against 254-352, astar.cpp:96-105).
MapCountsDown ==
    LET was == mapOf(bodies)
        now == mapOf(bodies')
        heads == {bodies'[s][1] : s \in DOMAIN bodies'}
        grown(s) == Len(bodies'[s]) > Len(bodies[s])
    IN \A c \in Cell \ heads :
         now[c] = IF \E s \in DOMAIN bodies' : c \in cells(s) /\ was[c] > 0
                    THEN was[c] - (IF \E s \in DOMAIN bodies' :
                                         c \in cells(s) /\ grown(s)
                                     THEN 0 ELSE 1)
                    ELSE 0

MapForetold == [][MapCountsDown]_vars
=============================================================================
