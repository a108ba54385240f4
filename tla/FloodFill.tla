------------------------------ MODULE FloodFill ------------------------------
(***************************************************************************)
(* countAccessibleCells of snakelib.cpp: a breadth-first count of the cells*)
(* a snake could get to from a point, where an occupied cell counts if its *)
(* occupant will have left by then.  scoreFuture compares the count with   *)
(* the length of the snake.                                                *)
(*                                                                         *)
(* One step takes one entry from the queue (one turn of the while loop).   *)
(***************************************************************************)
EXTENDS Board, Sequences, FiniteSets

CONSTANT Scenario   \* the calls made, see ScenarioType

ScenarioType == [start : Point, vacated : [Cell -> Nat]]

ASSUME FloodAssumption ==
    /\ Scenario \subseteq ScenarioType
    /\ CoordMod >= Width * Height

VARIABLES call,     \* the scenario of this call
          queue,    \* <<point, turn>> pairs
          visited,  \* indices
          count,
          arrival   \* history: the turn at which each cell was counted

vars == <<call, queue, visited, count, arrival>>

counted == DOMAIN arrival

TypeOK ==
    /\ call \in ScenarioType
    /\ queue \in Seq(Point \X Nat)
    /\ visited \subseteq 0 .. Width * Height - 1
    /\ count \in Nat
    /\ counted \subseteq Cell
    /\ \A c \in counted : arrival[c] \in Nat

Init ==
    /\ call \in Scenario
    /\ queue = << <<call.start, 0>> >>
    /\ visited = {}
    /\ count = 0
    /\ arrival = [c \in {} |-> 0]

\* of a point off the board this is the index of some other cell, or of none
CellIndex(p) == (p[2] * Width + p[1]) % CoordMod

Neighbors(p) ==
    <<CoordAfterMove(p, "Left"), CoordAfterMove(p, "Right"),
      CoordAfterMove(p, "Down"), CoordAfterMove(p, "Up")>>

\* the entry is passed over: seen before, or not even on the grid
Skip(p) == CellIndex(p) \in visited \/ OutOfBounds(p)

\* a snake is going to be occupying this cell
MutantOccupiedOff(p, turn) == turn + 1 < call.vacated[p]
Occupied(p, turn) == turn < call.vacated[p]

MutantPassOver ==
    /\ queue # <<>>
    /\ Skip(Head(queue)[1])
    /\ UNCHANGED vars
PassOver ==
    /\ queue # <<>>
    /\ Skip(Head(queue)[1])
    /\ queue' = Tail(queue)
    /\ UNCHANGED <<call, visited, count, arrival>>

\* a cell found occupied is not tried again
FindOccupied ==
    /\ queue # <<>>
    /\ LET p == Head(queue)[1]
       IN /\ ~Skip(p)
          /\ Occupied(p, Head(queue)[2])
          /\ visited' = visited \cup {CellIndex(p)}
    /\ queue' = Tail(queue)
    /\ UNCHANGED <<call, count, arrival>>

MutantLater(q, p, turn) ==
    [i \in 1 .. 4 |-> <<Neighbors(p)[i], turn + 1>>] \o q
Later(q, p, turn) ==
    q \o [i \in 1 .. 4 |-> <<Neighbors(p)[i], turn + 1>>]

CountCell ==
    /\ queue # <<>>
    /\ LET p == Head(queue)[1]
           turn == Head(queue)[2]
       IN /\ ~Skip(p)
          /\ ~Occupied(p, turn)
          /\ visited' = visited \cup {CellIndex(p)}
          /\ arrival' = [c \in counted \cup {p} |->
                           IF c = p THEN turn ELSE arrival[c]]
          /\ queue' = Later(Tail(queue), p, turn)
    /\ count' = count + 1
    /\ UNCHANGED call

Next == PassOver \/ FindOccupied \/ CountCell
Spec == Init /\ [][Next]_vars /\ WF_vars(Next)

-----------------------------------------------------------------------------
(* Properties *)

done == queue = <<>>
near(c) == {b \in counted : IsAdjacent(b, c)}

\* The number returned is the number of cells that were counted: none twice,
\* although a cell may be in the queue up to four times and the index of a
\* point off the board is the index of another cell.
CountsCells == count = Cardinality(counted)

\* Every cell counted can be walked to in time: over cells that were counted
\* too, one a turn, none entered before its occupant has left.
CountedInTime ==
    \A c \in counted :
        /\ call.vacated[c] <= arrival[c]
        /\ \/ c = call.start /\ arrival[c] = 0
           \/ \E b \in counted :
                 IsAdjacent(b, c) /\ arrival[c] = arrival[b] + 1

\* No cell is counted later than it could be: between neighbours that were
\* both counted there is at most one turn.
NoDetours ==
    \A b, c \in counted : IsAdjacent(b, c) => arrival[c] <= arrival[b] + 1

\* A cell next to a counted one is left out only if it was still occupied
\* when it could first have been entered.
NothingFreeMissed ==
    \A c \in Cell \ counted :
        near(c) # {} => \E b \in near(c) : call.vacated[c] > arrival[b] + 1

\* The space a snake is promised is there: what is counted, once each, can
\* be reached in time (snakelib.cpp:446-493).
CountSound == CountsCells /\ CountedInTime

\* The space that is there is promised: all of the free region around the
\* start is counted, at the earliest turn, so that the snake is not scared
\* off it.  (A cell still occupied when its first neighbour was left is not
\* counted, even if a longer way round would arrive in time.)
CountComplete == done => NoDetours /\ NothingFreeMissed

\* The loop comes to an end.
Terminates == <>done
=============================================================================
