------------------------------- MODULE AStar -------------------------------
(***************************************************************************)
(* shortestPath of astar.cpp: A* over the cells of the board, where a cell *)
(* occupied by a snake may be entered once the body has moved on.          *)
(*                                                                         *)
(* One step expands one cell (one turn of the while loop); reconstructPath *)
(* then walks back along cameFrom, one cell a step.  The order of the      *)
(* neighbours and of the iteration over the unordered open set decide only *)
(* between cells of equal fScore: the choice is left open here.  fScore is *)
(* gScore plus the distance to the goal whenever it is set, so it is not a *)
(* variable; a cell without gScore has InfinityCost, as in getGScore.      *)
(* InYourFace asks for goals off the board as well: they are taken for the *)
(* cell that has their index, while distances are to the point itself.     *)
(***************************************************************************)
EXTENDS Board, FiniteSets

CONSTANTS
    Scenario,      \* the searches asked for, see ScenarioType
    NoCell,
    VeryHighCost, InfinityCost, MaxIterations

ScenarioType ==
    [start   : Cell,
     aim     : Point,               \* the goal asked for
     goal    : Cell \cup {NoCell},  \* the cell that goalIndex is taken for
     neck    : Cell \cup {NoCell},  \* parts[1] of my snake, if it has one
     vacated : [Cell -> Nat],       \* turnsUntilVacant
     danger  : SUBSET Cell]         \* close to an equal or bigger snake's head

ASSUME AStarAssumption ==
    /\ Scenario \subseteq ScenarioType
    /\ NoCell \notin Cell
    /\ VeryHighCost \in Nat /\ InfinityCost \in Nat /\ MaxIterations \in Nat
    /\ MaxIterations + VeryHighCost + 1 < InfinityCost

\* cellIndex and deconstructCellIndex of a goal
GoalCell(p) ==
    LET index == (p[2] * Width + p[1]) % CoordMod
    IN IF index < Width * Height THEN <<index % Width, index \div Width>>
       ELSE NoCell

Area == Width * Height

\* The costs of astar.cpp are made for boards of less than a thousand cells.
ASSUME CostsAssumption ==
    /\ Area < VeryHighCost
    /\ Area <= MaxIterations
    /\ MaxIterations + VeryHighCost + Width + Height < CoordMod

VARIABLES
    search,    \* the scenario of this call
    openSet, closedSet, cameFrom, gScore, turns,
    safety,    \* number of turns of the while loop
    pc,        \* "search", "walk" or "done"
    cur,       \* currentIndex of reconstructPath
    size,      \* size of reconstructPath
    first      \* the cell that the result's direction leads to

pathVars == <<cur, size, first>>
mapVars == <<openSet, closedSet, cameFrom, gScore, turns>>
vars == <<search, mapVars, safety, pc, pathVars>>

TypeOK ==
    /\ search \in ScenarioType
    /\ openSet \subseteq Cell
    /\ closedSet \subseteq Cell
    /\ cameFrom \in [Cell -> Cell \cup {NoCell}]
    /\ gScore \in [Cell -> Nat]
    /\ turns \in [Cell -> Nat]
    /\ safety \in Nat
    /\ pc \in {"search", "walk", "done"}
    /\ cur \in Cell \cup {NoCell}
    /\ size \in Nat
    /\ first \in Cell \cup {NoCell}

Init ==
    /\ search \in Scenario
    /\ openSet = {search.start}
    /\ closedSet = {}
    /\ cameFrom = [c \in Cell |-> NoCell]
    /\ gScore = [c \in Cell |-> IF c = search.start THEN 0 ELSE InfinityCost]
    /\ turns = [c \in Cell |-> IF c = search.start THEN 1 ELSE 0]
    /\ safety = 0
    /\ pc = "search"
    /\ cur = NoCell
    /\ size = 0
    /\ first = NoCell

-----------------------------------------------------------------------------
MutantIndexIsSafe(c, turn) == search.vacated[c] <= turn
MutantIndexIsVacant(c, turn) == search.vacated[c] + 1 < turn
IndexIsSafe(c, turn) == search.vacated[c] < turn

\* index - 1 and index + 1 may lie in another row: isAdjacent rules them out
MutantGetNeighbors(c) ==
    {n \in Cell : /\ IndexIsSafe(n, turns[c])
                  /\ ~(c = search.start /\ n = search.neck)
                  /\ \/ IsAdjacent(c, n)
                     \/ c[1] = 0 /\ n = <<Width - 1, c[2] - 1>>}
GetNeighbors(c) ==
    {n \in Cell : /\ IndexIsSafe(n, turns[c])
                  /\ ~(c = search.start /\ n = search.neck)
                  /\ IsAdjacent(c, n)}

\* uint32_t: for an aim off the board the sum wraps around
FScore(c) == (gScore[c] + Distance(c, search.aim)) % CoordMod

\* lowestFScoreInSet
Lowest(c) == c \in openSet /\ \A o \in openSet : FScore(c) <= FScore(o)

\* only the first cell expanded, the start, pays for danger next to it
MutantNoModifier(n) == 0
DontGetEatenModifier(n) ==
    IF closedSet = {} /\ n \in search.danger THEN VeryHighCost ELSE 0
TentativeGScore(c, n) == gScore[c] + 1 + DontGetEatenModifier(n)

MutantReached(c) == GetNeighbors(c)
Reached(c) == GetNeighbors(c) \ (closedSet \cup {c})

Expand(c) ==
    LET reached == Reached(c)
        better == {n \in reached : TentativeGScore(c, n) < gScore[n]}
    IN /\ pc = "search"
       /\ safety <= MaxIterations
       /\ Lowest(c)
       /\ c # search.goal
       /\ safety' = safety + 1
       /\ openSet' = (openSet \ {c}) \cup reached
       /\ closedSet' = closedSet \cup {c}
       /\ cameFrom' = [n \in Cell |-> IF n \in better THEN c ELSE cameFrom[n]]
       /\ gScore' = [n \in Cell |-> IF n \in better THEN TentativeGScore(c, n)
                                    ELSE gScore[n]]
       /\ turns' = [n \in Cell |-> IF n \in better THEN turns[c] + 1
                                   ELSE turns[n]]
       /\ UNCHANGED <<search, pc, pathVars>>

ReachGoal ==
    /\ pc = "search"
    /\ safety <= MaxIterations
    /\ Lowest(search.goal)
    /\ pc' = "walk"
    /\ cur' = search.goal
    /\ UNCHANGED <<search, mapVars, safety, size, first>>

\* the loop of reconstructPath
WalkBack ==
    /\ pc = "walk"
    /\ cameFrom[cur] # NoCell
    /\ first' = cur
    /\ cur' = cameFrom[cur]
    /\ size' = size + 1
    /\ UNCHANGED <<search, mapVars, safety, pc>>

ReturnPath ==
    /\ pc = "walk"
    /\ cameFrom[cur] = NoCell
    /\ pc' = "done"
    /\ UNCHANGED <<search, mapVars, safety, pathVars>>

\* the open set is empty, or MAX_ITERATIONS is exceeded
MutantReturnNone ==
    /\ pc = "search"
    /\ safety > MaxIterations
    /\ pc' = "done"
    /\ UNCHANGED <<search, mapVars, safety, pathVars>>
ReturnNone ==
    /\ pc = "search"
    /\ openSet = {} \/ safety > MaxIterations
    /\ pc' = "done"
    /\ UNCHANGED <<search, mapVars, safety, pathVars>>

Next ==
    \/ \E c \in Cell : Expand(c)
    \/ ReachGoal
    \/ WalkBack
    \/ ReturnPath
    \/ ReturnNone

(* The search is a loop of one thread that nothing interrupts. *)
Spec == Init /\ [][Next]_vars /\ WF_vars(Next)

-----------------------------------------------------------------------------
(* Properties *)

found == pc = "done" /\ cur # NoCell

\* Every cell with a predecessor was entered from an adjacent cell, without
\* turning back onto the neck, and at a turn when it is vacant; the turn
\* recorded for a cell is still the one its predecessors say, although
\* cells are given new predecessors while they are in the open set.
ArrivalsSafe ==
    \A c \in Cell : cameFrom[c] # NoCell =>
        /\ IsAdjacent(cameFrom[c], c)
        /\ ~(cameFrom[c] = search.start /\ c = search.neck)
        /\ turns[c] = turns[cameFrom[c]] + 1
        /\ search.vacated[c] < turns[c] - 1

\* A path that is returned leads from the start to the goal: its size is the
\* turn of arrival at the goal, and its first cell is vacant on the next turn.
PathIsLegal ==
    found =>
        /\ cur = search.start
        /\ size = turns[search.goal] - 1
        /\ size > 0 <=> first # NoCell
        /\ first # NoCell => /\ IsAdjacent(search.start, first)
                             /\ first # search.neck
                             /\ search.vacated[first] = 0

\* No path is shorter than the distance, which is what the sorted loops of
\* bestFood rely on when they stop early (movement.cpp:242-283).
NoShorterThanDistance == found => Distance(search.start, search.goal) <= size

\* A cell in the open set always has a score: lowestFScoreInSet never falls
\* back to cell 0 (astar.cpp:52-75), and no cell is expanded twice.
OpenCellsScored ==
    /\ openSet \cap closedSet = {}
    /\ \A c \in openSet : gScore[c] < InfinityCost

\* The search ends, and so does the walk back along cameFrom, which would
\* run forever if cameFrom had a cycle.
Terminates == <>(pc = "done")

-----------------------------------------------------------------------------
(* Reference: a wave that spreads from the start, a cell a turn.  A cell   *)
(* that it finds occupied may be entered by a later part of the wave.      *)

MayStep(s, c, n) ==
    /\ IsAdjacent(c, n)
    /\ c = s.start => n # s.neck /\ n \notin s.danger

Flooded(wave) == {v[1] : v \in wave}

\* the k-th move of a wave, which does not come to barred cells
Spread(s, wave, k, barred) ==
    LET front == {c \in Cell : <<c, k - 1>> \in wave}
        dry == Cell \ (barred \cup Flooded(wave))
    IN wave \cup {<<n, k>> : n \in {m \in dry : /\ s.vacated[m] <= k - 1
                                                /\ \E c \in front : MayStep(s, c, m)}}

\* The cells that a wave comes to, each with the number of moves it takes, when
\* it begins with those given.
Wave(s, begin, barred) ==
    LET wave[k \in 0 .. Area] ==
          IF k = 0 THEN begin ELSE Spread(s, wave[k - 1], k, barred)
    IN wave[Area]

SafeWave(s) == Wave(s, {<<s.start, 0>>}, {})

\* To the other cells a wave may come from the cells next to a bigger snake's
\* head.
Risky(s) == {c \in s.danger \ Flooded(SafeWave(s)) :
               IsAdjacent(s.start, c) /\ c # s.neck /\ s.vacated[c] = 0}
RiskyWave(s) == Wave(s, Risky(s) \X {1}, Flooded(SafeWave(s)))

onBoard == search.aim \in Cell /\ search.aim = search.goal

\* The search finds a path exactly if the waves reach the goal, and one of the
\* size they say, whatever the order among equal scores: "it doesn't matter
\* whether axis bias is horizontal or vertical b/c we only care about the size
\* of the path" (movement.cpp:284-286), nor therefore for whom perspective()
\* made the copy that is searched (snakelib.cpp:102).
SizeIsExact ==
    pc = "done" /\ onBoard =>
        IF search.goal \in Flooded(SafeWave(search))
        THEN found /\ <<search.goal, size>> \in SafeWave(search)
        ELSE IF search.goal \in Flooded(RiskyWave(search))
        THEN found /\ <<search.goal, size>> \in RiskyWave(search)
        ELSE ~found

\* A path begins next to an equal or bigger snake's head only if none begins
\* otherwise, however long (VERY_HIGH_COST, astar.cpp:252-262).
AvoidsDanger ==
    found /\ onBoard /\ first \in search.danger =>
        search.goal \notin Flooded(SafeWave(search))
=============================================================================
