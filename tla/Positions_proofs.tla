-------------------------- MODULE Positions_proofs --------------------------
(***************************************************************************)
(* Proofs about what the algorithms ask of a position: the path search,    *)
(* the best food, the corner check and the kill tunnel, for every board,   *)
(* every occupancy of it and any number of foods and enemies.              *)
(***************************************************************************)
EXTENDS AStar, MCPositions, Induction, FiniteSetTheorems

-----------------------------------------------------------------------------
(* shortestPath (AStar): the inductive invariant *)

seen == openSet \cup closedSet

\* The cells seen so far form a tree rooted at the start whose inner nodes
\* are closed, so that a cell's predecessors never change again.
SearchTree ==
    /\ openSet \cap closedSet = {}
    /\ closedSet # {} => search.start \in closedSet
    /\ cameFrom[search.start] = NoCell
    /\ turns[search.start] = 1
    /\ closedSet = {} => openSet = {search.start} /\ gScore[search.start] = 0
    /\ \A c \in seen \ {search.start} : cameFrom[c] \in closedSet
    /\ \A c \in Cell \ seen :
          cameFrom[c] = NoCell /\ gScore[c] = InfinityCost

\* Scores stay below InfinityCost because the loop is bounded.
ScoresBounded ==
    /\ safety <= MaxIterations + 1
    /\ \A c \in seen : gScore[c] <= safety + VeryHighCost

WalkInv ==
    /\ pc = "search" => cur = NoCell /\ size = 0 /\ first = NoCell
    /\ pc = "walk" => cur # NoCell
    /\ cur # NoCell =>
          /\ cur \in seen
          /\ size + turns[cur] = turns[search.goal]
          /\ size > 0 <=> first # NoCell
          /\ first # NoCell => cameFrom[first] = cur
          /\ pc = "done" => cameFrom[cur] = NoCell

IInv == TypeOK /\ SearchTree /\ ScoresBounded /\ ArrivalsSafe /\ WalkInv

\* A cell is not reached before the turns its distance takes.
DistanceKept ==
    /\ \A c \in seen : Distance(search.start, c) + 1 <= turns[c]
    /\ cur # NoCell => search.goal \in seen

\* A cell is counted when it is expanded, and a path takes one turn a cell.
Counted ==
    /\ safety = Cardinality(closedSet)
    /\ \A c \in closedSet : turns[c] <= safety
    /\ \A c \in openSet : turns[c] <= safety + 1

\* A score is the number of moves, and once more the price of a risky start.
Charge(c, n) ==
    IF c = search.start /\ n \in search.danger THEN VeryHighCost ELSE 0

Charged ==
    /\ gScore[search.start] = 0
    /\ \A c \in seen : gScore[c] \in {turns[c] - 1, turns[c] - 1 + VeryHighCost}
    /\ \A c \in seen \ {search.start} :
          gScore[c] = gScore[cameFrom[c]] + 1 + Charge(cameFrom[c], c)

\* No open cell could be reached at a lower score from a closed one.
Relaxed ==
    \A c \in closedSet : \A n \in GetNeighbors(c) :
        \/ n \in closedSet
        \/ n \in openSet /\ gScore[n] <= gScore[c] + 1 + Charge(c, n)

\* The scores of the cells that are done with are those of the waves.
Exact(c) ==
    IF gScore[c] < VeryHighCost
    THEN <<c, gScore[c]>> \in SafeWave(search)
    ELSE <<c, gScore[c] - VeryHighCost>> \in RiskyWave(search)

ClosedExact ==
    /\ \A c \in closedSet : Exact(c)
    /\ cur # NoCell => Exact(search.goal)

\* The walk back from the goal stays with the paths whose start is as risky.
Outcome ==
    /\ search.goal \notin closedSet
    /\ pc = "done" /\ cur = NoCell => openSet = {}
    /\ cur # NoCell =>
          /\ search.goal \in openSet
          /\ first = NoCell => cur = search.goal
          /\ first # NoCell =>
                /\ first \in seen
                /\ gScore[first] < VeryHighCost <=> gScore[search.goal] < VeryHighCost

ExactInv ==
    Counted /\ Charged /\ Relaxed /\ Outcome /\ (onBoard => ClosedExact)

-----------------------------------------------------------------------------
(* shortestPath (AStar): the proofs *)

USE AStarAssumption

\* The state in which shortestPath enters its loop satisfies the invariant.
LEMMA InitIInv == Init => IInv
<1> SUFFICES ASSUME Init PROVE IInv
    OBVIOUS
<1>0. search \in ScenarioType /\ search.start \in Cell /\ search.start # NoCell
    BY DEF Init, ScenarioType
<1>1. TypeOK
    BY <1>0 DEF Init, TypeOK
<1>2. SearchTree
    BY <1>0 DEF Init, SearchTree, seen
<1>3. ScoresBounded /\ ArrivalsSafe /\ WalkInv
    BY <1>0 DEF Init, ScoresBounded, ArrivalsSafe, WalkInv, seen
<1> QED
    BY <1>1, <1>2, <1>3 DEF IInv

\* Expanding a cell keeps the tree and the arrival times right.
LEMMA ExpandStep == ASSUME IInv, NEW c \in Cell, Expand(c) PROVE IInv'
<1> DEFINE better == {n \in Reached(c) : TentativeGScore(c, n) < gScore[n]}
<1>1. /\ c \in openSet /\ c \notin closedSet /\ c # NoCell
      /\ search' = search /\ search.start \in Cell
      /\ search.vacated \in [Cell -> Nat]
    BY DEF Expand, Lowest, IInv, TypeOK, SearchTree, ScenarioType
<1>2. /\ Reached(c) \subseteq Cell /\ c \notin Reached(c)
      /\ Reached(c) \cap closedSet = {}
      /\ better \subseteq Reached(c)
    BY DEF Reached, GetNeighbors
<1>3. /\ openSet' = (openSet \ {c}) \cup Reached(c)
      /\ closedSet' = closedSet \cup {c}
      /\ cameFrom' = [n \in Cell |-> IF n \in better THEN c ELSE cameFrom[n]]
      /\ gScore' = [n \in Cell |-> IF n \in better THEN TentativeGScore(c, n)
                                   ELSE gScore[n]]
      /\ turns' = [n \in Cell |-> IF n \in better THEN turns[c] + 1
                                  ELSE turns[n]]
      /\ safety <= MaxIterations /\ safety' = safety + 1
    BY DEF Expand
<1>4. \A n \in Cell : /\ TentativeGScore(c, n) \in Nat
                      /\ TentativeGScore(c, n) <= safety + 1 + VeryHighCost
    <2>1. gScore[c] \in Nat /\ safety \in Nat
        BY DEF IInv, TypeOK
    <2>2. CASE closedSet = {}
        BY <1>1, <2>1, <2>2
           DEF IInv, SearchTree, TentativeGScore, DontGetEatenModifier
    <2>3. CASE closedSet # {}
        BY <1>1, <2>1, <2>3
           DEF IInv, ScoresBounded, seen, TentativeGScore, DontGetEatenModifier
    <2> QED
        BY <2>2, <2>3
<1>5. \A n \in Reached(c) \ openSet : n \in better
    BY <1>2, <1>3, <1>4 DEF IInv, SearchTree, TypeOK, seen
<1>6. TypeOK'
    BY <1>1, <1>2, <1>3, <1>4 DEF IInv, TypeOK, Expand, pathVars
<1>7. search.start \notin better
    <2>1. CASE closedSet = {}
        BY <1>1, <1>2, <2>1 DEF IInv, SearchTree
    <2>2. CASE closedSet # {}
        BY <1>2, <2>2 DEF IInv, SearchTree
    <2> QED
        BY <2>1, <2>2
<1>8. SearchTree'
    BY <1>1, <1>2, <1>3, <1>5, <1>7 DEF IInv, SearchTree, TypeOK, seen
<1>9. ScoresBounded'
    BY <1>1, <1>2, <1>3, <1>4, <1>5 DEF IInv, ScoresBounded, TypeOK, seen
<1>10. ArrivalsSafe'
    <2> SUFFICES ASSUME NEW n \in Cell, cameFrom'[n] # NoCell
                 PROVE  /\ IsAdjacent(cameFrom'[n], n)
                        /\ ~(cameFrom'[n] = search.start /\ n = search.neck)
                        /\ turns'[n] = turns'[cameFrom'[n]] + 1
                        /\ search.vacated[n] < turns'[n] - 1
        BY <1>1 DEF ArrivalsSafe
    <2>1. CASE n \in better
        <3>1. cameFrom'[n] = c /\ turns'[n] = turns[c] + 1 /\ turns'[c] = turns[c]
            BY <1>1, <1>2, <1>3, <2>1 DEF IInv, TypeOK
        <3>2. /\ IsAdjacent(c, n) /\ ~(c = search.start /\ n = search.neck)
              /\ search.vacated[n] < turns[c]
            BY <1>2, <2>1 DEF Reached, GetNeighbors, IndexIsSafe
        <3> QED
            BY <1>1, <3>1, <3>2 DEF IInv, TypeOK
    <2>2. CASE n \notin better
        <3>1. cameFrom'[n] = cameFrom[n] /\ turns'[n] = turns[n]
            BY <1>3, <2>2 DEF IInv, TypeOK
        <3>2. cameFrom[n] \in closedSet
            BY <3>1 DEF IInv, SearchTree, seen
        <3>3. cameFrom[n] \in Cell /\ cameFrom[n] \notin better
            BY <1>2, <3>2 DEF IInv, TypeOK
        <3>4. turns'[cameFrom[n]] = turns[cameFrom[n]]
            BY <1>3, <3>3 DEF IInv, TypeOK
        <3> QED
            BY <3>1, <3>4 DEF IInv, ArrivalsSafe
    <2> QED
        BY <2>1, <2>2
<1>11. WalkInv'
    BY <1>3 DEF IInv, WalkInv, Expand, pathVars
<1> QED
    BY <1>6, <1>8, <1>9, <1>10, <1>11 DEF IInv

\* Every other step leaves the tree alone.
LEMMA OtherStep ==
    ASSUME IInv, ReachGoal \/ WalkBack \/ ReturnPath \/ ReturnNone PROVE IInv'
<1>1. UNCHANGED <<search, mapVars, safety>>
    BY DEF ReachGoal, WalkBack, ReturnPath, ReturnNone
<1>2. SearchTree' /\ ScoresBounded' /\ ArrivalsSafe'
    BY <1>1 DEF IInv, SearchTree, ScoresBounded, ArrivalsSafe, mapVars, seen,
                FScore, IndexIsSafe
<1>3. TypeOK' /\ WalkInv'
    <2>1. CASE ReachGoal
        <3>1. search.goal \in Cell /\ search.goal \in openSet
            BY <2>1 DEF IInv, TypeOK, ScenarioType, ReachGoal, Lowest
        <3>2. turns[search.goal] \in Nat
            BY <3>1 DEF IInv, TypeOK
        <3> QED
            BY <1>1, <2>1, <3>1, <3>2
               DEF IInv, TypeOK, WalkInv, ReachGoal, mapVars, seen
    <2>2. CASE WalkBack
        <3>1. cur \in Cell /\ cameFrom[cur] \in Cell /\ cameFrom[cur] # NoCell
            BY <2>2 DEF IInv, TypeOK, WalkInv, WalkBack
        <3>2. cameFrom[cur] \in closedSet
            BY <2>2, <3>1 DEF IInv, SearchTree, WalkInv, WalkBack, seen
        <3>3. turns[cur] = turns[cameFrom[cur]] + 1
            BY <3>1 DEF IInv, ArrivalsSafe
        <3>4. turns[cameFrom[cur]] \in Nat /\ size \in Nat
            BY <3>1 DEF IInv, TypeOK
        <3>5. size' + turns'[cur'] = turns'[search'.goal]
            BY <1>1, <2>2, <3>1, <3>3, <3>4
               DEF IInv, TypeOK, WalkInv, WalkBack, mapVars, seen
        <3> QED
            BY <1>1, <2>2, <3>1, <3>2, <3>4, <3>5
               DEF IInv, TypeOK, WalkInv, WalkBack, mapVars, seen
    <2>3. CASE ReturnPath \/ ReturnNone
        BY <1>1, <2>3 DEF IInv, TypeOK, WalkInv, ReturnPath, ReturnNone,
                          mapVars, pathVars, seen
    <2> QED
        BY <2>1, <2>2, <2>3
<1> QED
    BY <1>2, <1>3 DEF IInv

\* No step of the search leaves the invariant.
LEMMA Inductive == IInv /\ [Next]_vars => IInv'
<1> SUFFICES ASSUME IInv, [Next]_vars PROVE IInv'
    OBVIOUS
<1>1. ASSUME NEW c \in Cell, Expand(c) PROVE IInv'
    BY <1>1, ExpandStep
<1>2. CASE ReachGoal \/ WalkBack \/ ReturnPath \/ ReturnNone
    BY <1>2, OtherStep
<1>3. CASE UNCHANGED vars
    BY <1>3 DEF vars, mapVars, pathVars, IInv, TypeOK, SearchTree,
                ScoresBounded, ArrivalsSafe, WalkInv, seen
<1> QED
    BY <1>1, <1>2, <1>3 DEF Next

\* The inductive invariant: the cells seen form a tree rooted at the start
\* whose inner nodes are closed, with bounded scores, on every board and for
\* every occupancy of it.
THEOREM Invariance == Spec => []IInv
<1> QED
    BY InitIInv, Inductive, PTL DEF Spec

\* The state of shortestPath keeps its types.
THEOREM TypeCorrect == Spec => []TypeOK
<1>1. IInv => TypeOK
    BY DEF IInv
<1> QED
    BY <1>1, Invariance, PTL

\* Every cell reached is entered from a neighbour at a turn when it is
\* vacant, and its recorded turn stays right when predecessors change.
THEOREM ArrivalsAreSafe == Spec => []ArrivalsSafe
<1>1. IInv => ArrivalsSafe
    BY DEF IInv
<1> QED
    BY <1>1, Invariance, PTL

\* lowestFScoreInSet always finds a scored cell: infinity is out of reach.
THEOREM OpenCellsAreScored == Spec => []OpenCellsScored
<1>1. ASSUME IInv PROVE OpenCellsScored
    <2>1. openSet \cap closedSet = {}
        BY <1>1 DEF IInv, SearchTree
    <2>2. ASSUME NEW c \in openSet PROVE gScore[c] < InfinityCost
        <3>1. gScore[c] \in Nat /\ safety \in Nat
            BY <1>1 DEF IInv, TypeOK
        <3>2. gScore[c] <= safety + VeryHighCost /\ safety <= MaxIterations + 1
            BY <1>1 DEF IInv, ScoresBounded, seen
        <3> QED
            BY <3>1, <3>2
    <2> QED
        BY <2>1, <2>2 DEF OpenCellsScored
<1> QED
    BY <1>1, Invariance, PTL

\* The path returned leads from the start to the goal in as many moves as its
\* size says, and its first step is vacant and does not turn back.
THEOREM PathsAreLegal == Spec => []PathIsLegal
<1>1. ASSUME IInv, found PROVE PathIsLegal
    <2>1. /\ cur \in Cell /\ cur \in seen /\ cameFrom[cur] = NoCell
          /\ size + turns[cur] = turns[search.goal]
          /\ size > 0 <=> first # NoCell
          /\ first # NoCell => cameFrom[first] = cur
        BY <1>1 DEF IInv, WalkInv, TypeOK, found
    <2>2. cur = search.start
        BY <1>1, <2>1 DEF IInv, SearchTree, TypeOK, seen
    <2>3. turns[cur] = 1 /\ size \in Nat
        BY <1>1, <2>2 DEF IInv, SearchTree, TypeOK
    <2>4. size = turns[search.goal] - 1
        BY <2>1, <2>3
    <2>5. ASSUME first # NoCell
          PROVE  /\ IsAdjacent(search.start, first) /\ first # search.neck
                 /\ search.vacated[first] = 0
        <3>1. /\ first \in Cell /\ cameFrom[first] = search.start
              /\ search.start # NoCell
            BY <1>1, <2>1, <2>2, <2>5 DEF IInv, TypeOK
        <3>2. search.vacated[first] \in Nat
            BY <1>1, <3>1 DEF IInv, TypeOK, ScenarioType
        <3> QED
            BY <1>1, <2>2, <2>3, <3>1, <3>2 DEF IInv, ArrivalsSafe
    <2> QED
        BY <2>1, <2>2, <2>4, <2>5 DEF PathIsLegal
<1>2. IInv => PathIsLegal
    BY <1>1 DEF PathIsLegal
<1> QED
    BY <1>2, Invariance, PTL

\* The distance to a neighbour differs by one at most.
LEMMA DistanceToNeighbor ==
    ASSUME NEW s \in Cell, NEW c \in Cell, NEW n \in Cell, IsAdjacent(c, n)
    PROVE  Distance(s, n) <= Distance(s, c) + 1
<1>1. /\ s[1] \in Int /\ s[2] \in Int /\ c[1] \in Int /\ c[2] \in Int
      /\ n[1] \in Int /\ n[2] \in Int
    BY BoardAssumption DEF Cell
<1> QED
    BY <1>1 DEF Distance, IsAdjacent, AbsDiff

\* Distances of cells are natural numbers.
LEMMA DistanceType ==
    ASSUME NEW s \in Cell, NEW c \in Cell
    PROVE  Distance(s, c) \in Nat /\ Distance(s, s) = 0
<1>1. s[1] \in Int /\ s[2] \in Int /\ c[1] \in Int /\ c[2] \in Int
    BY BoardAssumption DEF Cell
<1> QED
    BY <1>1 DEF Distance, AbsDiff

\* No step lets a cell be reached in fewer turns than its distance takes.
LEMMA DistanceStep ==
    ASSUME IInv, IInv', DistanceKept, [Next]_vars PROVE DistanceKept'
<1>0. /\ search.start \in Cell /\ turns \in [Cell -> Nat]
      /\ openSet \subseteq Cell /\ closedSet \subseteq Cell
    BY DEF IInv, TypeOK, ScenarioType
<1>1. ASSUME NEW c \in Cell, Expand(c) PROVE DistanceKept'
    <2> DEFINE better == {n \in Reached(c) : TentativeGScore(c, n) < gScore[n]}
    <2>1. /\ search' = search /\ cur' = cur /\ c \in seen
          /\ seen \subseteq seen'
          /\ cameFrom' = [n \in Cell |-> IF n \in better THEN c
                                         ELSE cameFrom[n]]
          /\ turns' = [n \in Cell |-> IF n \in better THEN turns[c] + 1
                                      ELSE turns[n]]
        BY <1>1 DEF Expand, Lowest, pathVars, seen
    <2>2. ASSUME NEW n \in seen'
          PROVE  Distance(search.start, n) + 1 <= turns'[n]
        <3>0. n \in Cell
            BY DEF IInv, TypeOK, seen
        <3>1. CASE n \in better
            <4>1. IsAdjacent(c, n) /\ turns'[n] = turns[c] + 1
                BY <2>1, <3>0, <3>1 DEF Reached, GetNeighbors
            <4>2. Distance(search.start, n) <= Distance(search.start, c) + 1
                BY <1>0, <3>0, <4>1, DistanceToNeighbor
            <4>3. Distance(search.start, c) + 1 <= turns[c]
                BY <2>1 DEF DistanceKept
            <4> QED
                BY <1>0, <3>0, <4>1, <4>2, <4>3, DistanceType
        <3>2. CASE n \notin better
            <4>1. turns'[n] = turns[n] /\ cameFrom'[n] = cameFrom[n]
                BY <2>1, <3>0, <3>2
            <4>2. CASE n \in seen
                BY <4>1, <4>2 DEF DistanceKept
            <4>3. CASE n \notin seen
                <5>1. cameFrom'[n] = NoCell
                    BY <3>0, <4>1, <4>3 DEF IInv, SearchTree
                <5>2. n = search.start
                    BY <2>1, <5>1 DEF IInv, SearchTree, TypeOK, seen
                <5>3. turns'[n] = 1
                    BY <2>1, <5>2 DEF IInv, SearchTree
                <5> QED
                    BY <1>0, <5>2, <5>3, DistanceType
            <4> QED
                BY <4>2, <4>3
        <3> QED
            BY <3>1, <3>2
    <2>3. cur' # NoCell => search'.goal \in seen'
        BY <2>1 DEF DistanceKept
    <2> QED
        BY <2>1, <2>2, <2>3 DEF DistanceKept
<1>2. CASE ReachGoal
    BY <1>2 DEF ReachGoal, Lowest, DistanceKept, seen, mapVars
<1>3. CASE WalkBack
    BY <1>3 DEF WalkBack, DistanceKept, seen, mapVars, IInv, WalkInv
<1>4. CASE ReturnPath \/ ReturnNone
    BY <1>4 DEF ReturnPath, ReturnNone, DistanceKept, seen, mapVars, pathVars
<1>5. CASE UNCHANGED vars
    BY <1>5 DEF vars, DistanceKept, seen, mapVars, pathVars
<1> QED
    BY <1>1, <1>2, <1>3, <1>4, <1>5 DEF Next

\* A path of shortestPath has at least as many steps as the distance from its
\* start to its goal: what bestFood assumes of all paths when it stops early.
THEOREM PathsCoverDistance == Spec => []NoShorterThanDistance
<1>1. Init => DistanceKept
    <2> SUFFICES ASSUME Init PROVE DistanceKept
        OBVIOUS
    <2>1. search.start \in Cell /\ seen = {search.start} /\ cur = NoCell
          /\ turns[search.start] = 1
        BY DEF Init, seen, ScenarioType
    <2> QED
        BY <2>1, DistanceType DEF DistanceKept
<1>2. IInv /\ IInv' /\ DistanceKept /\ [Next]_vars => DistanceKept'
    BY DistanceStep
<1>3. ASSUME IInv, PathIsLegal, DistanceKept PROVE NoShorterThanDistance
    <2> SUFFICES ASSUME found PROVE Distance(search.start, search.goal) <= size
        BY DEF NoShorterThanDistance
    <2>1. /\ size = turns[search.goal] - 1 /\ search.goal \in seen
          /\ search.goal \in Cell /\ search.start \in Cell
        BY <1>3 DEF PathIsLegal, DistanceKept, found, IInv, TypeOK,
                    ScenarioType, seen
    <2>2. Distance(search.start, search.goal) + 1 <= turns[search.goal]
        BY <1>3, <2>1 DEF DistanceKept
    <2> QED
        BY <1>3, <2>1, <2>2, DistanceType DEF IInv, TypeOK
<1>4. IInv /\ PathIsLegal /\ DistanceKept => NoShorterThanDistance
    BY <1>3
<1>5. Spec => [](IInv /\ DistanceKept)
    BY <1>1, <1>2, Invariance, PTL DEF Spec
<1> QED
    BY <1>4, <1>5, PathsAreLegal, PTL

(* the waves that shortestPath agrees with (AStar, Reference) *)

\* What a wave that has made n moves consists of: the cells it began with and
\* cells that a move led to, each with one number, and every cell that a move
\* could lead to.
IsWave(s, begin, barred, n, wave) ==
    /\ begin \subseteq wave
    /\ wave \subseteq Cell \X (0 .. Area)
    /\ \A v \in wave : v[2] <= n \/ v[2] <= 1
    /\ \A c \in Cell : \A j, k \in 0 .. Area :
          <<c, j>> \in wave /\ <<c, k>> \in wave => j = k
    /\ \A c \in Cell : \A k \in 0 .. Area : <<c, k>> \in wave \ begin =>
          /\ k >= 1 /\ c \notin barred /\ s.vacated[c] <= k - 1
          /\ \E p \in Cell : <<p, k - 1>> \in wave /\ MayStep(s, p, c)
    /\ \A p, c \in Cell : \A k \in 0 .. n - 1 :
          /\ <<p, k>> \in wave /\ MayStep(s, p, c)
          /\ s.vacated[c] <= k /\ c \notin barred
          => \E j \in 0 .. k + 1 : <<c, j>> \in wave

\* A wave begins with cells that have one number each, 0 or 1.
Beginning(begin) ==
    /\ begin \subseteq Cell \X {0, 1}
    /\ \A c \in Cell : <<c, 0>> \notin begin \/ <<c, 1>> \notin begin

LEMMA AreaType == BoardAssumption => Area \in Nat /\ Area >= 1
<1> SUFFICES ASSUME BoardAssumption PROVE Area \in Nat /\ Area >= 1
  OBVIOUS
<1>1. \A a, b \in Nat \ {0} : a * b \in Nat /\ a * b >= 1
  OBVIOUS
<1> QED BY <1>1 DEF BoardAssumption, Area

LEMMA FloodedAt ==
    ASSUME NEW wave \in SUBSET (Cell \X (0 .. Area)), NEW c
    PROVE  c \in Flooded(wave) <=> \E k \in 0 .. Area : c \in Cell /\ <<c, k>> \in wave
<1>1. \A v \in wave : \E x \in Cell, k \in 0 .. Area : v = <<x, k>>
  OBVIOUS
<1>2. c \in Flooded(wave) <=> \E v \in wave : c = v[1]
  BY DEF Flooded
<1>3. ASSUME NEW v \in wave, c = v[1]
      PROVE  \E k \in 0 .. Area : c \in Cell /\ <<c, k>> \in wave
  <2>1. PICK x \in Cell, k \in 0 .. Area : v = <<x, k>>
    BY <1>1
  <2> QED BY <1>3, <2>1
<1>4. ASSUME NEW k \in 0 .. Area, <<c, k>> \in wave
      PROVE \E v \in wave : c = v[1]
  BY <1>4
<1> QED BY <1>2, <1>3, <1>4

LEMMA WaveSpreads ==
    ASSUME NEW s, NEW begin, NEW barred, NEW n \in Nat, Area \in Nat, n + 1 <= Area,
           NEW wave, IsWave(s, begin, barred, n, wave)
    PROVE  IsWave(s, begin, barred, n + 1, Spread(s, wave, n + 1, barred))
<1> DEFINE m == n + 1
           front == {c \in Cell : <<c, n>> \in wave}
           new == {c \in Cell \ (barred \cup Flooded(wave)) :
                     s.vacated[c] <= n /\ \E p \in front : MayStep(s, p, c)}
           after == Spread(s, wave, m, barred)
<1>1. \A v : v \in after <=> v \in wave \/ \E c \in new : v = <<c, m>>
  <2>1. m - 1 = n
    OBVIOUS
  <2>2. after = wave \cup {<<c, m>> : c \in new}
    BY <2>1 DEF Spread
  <2> QED BY <2>2
<1>2. /\ begin \subseteq wave /\ wave \subseteq Cell \X (0 .. Area)
      /\ \A v \in wave : v[2] <= n \/ v[2] <= 1
  BY DEF IsWave
<1>3. \A c \in new : /\ c \in Cell /\ c \notin barred /\ s.vacated[c] <= n
                     /\ \E p \in Cell : <<p, n>> \in wave /\ MayStep(s, p, c)
                     /\ \A k \in 0 .. Area : <<c, k>> \notin wave
  BY <1>2, FloodedAt
<1>4. \A c \in Cell : \A k : <<c, k>> \in after <=>
         <<c, k>> \in wave \/ (c \in new /\ k = m)
  BY <1>1
<1>5. \A c \in Cell : /\ c \notin barred /\ s.vacated[c] <= n
                      /\ \E p \in Cell : <<p, n>> \in wave /\ MayStep(s, p, c)
                      => c \in new \/ \E k \in 0 .. Area : <<c, k>> \in wave
  BY <1>2, FloodedAt
<1> HIDE DEF after, new
<1>6. begin \subseteq after /\ after \subseteq Cell \X (0 .. Area)
  BY <1>1, <1>2, <1>3
<1>7. \A v \in after : v[2] <= m \/ v[2] <= 1
  <2> SUFFICES ASSUME NEW v \in after PROVE v[2] <= m \/ v[2] <= 1
    OBVIOUS
  <2>1. CASE v \in wave
    BY <1>2, <2>1
  <2>2. CASE \E c \in new : v = <<c, m>>
    BY <2>2
  <2> QED BY <1>1, <2>1, <2>2
<1>8. \A c \in Cell : \A j, k \in 0 .. Area :
         <<c, j>> \in after /\ <<c, k>> \in after => j = k
  <2>1. \A c \in Cell : \A j, k \in 0 .. Area :
          <<c, j>> \in wave /\ <<c, k>> \in wave => j = k
    BY DEF IsWave
  <2> QED BY <1>3, <1>4, <2>1
<1>9. \A c \in Cell : \A k \in 0 .. Area : <<c, k>> \in after \ begin =>
          /\ k >= 1 /\ c \notin barred /\ s.vacated[c] <= k - 1
          /\ \E p \in Cell : <<p, k - 1>> \in after /\ MayStep(s, p, c)
  <2> SUFFICES ASSUME NEW c \in Cell, NEW k \in 0 .. Area, <<c, k>> \in after \ begin
               PROVE  /\ k >= 1 /\ c \notin barred /\ s.vacated[c] <= k - 1
                      /\ \E p \in Cell : <<p, k - 1>> \in after /\ MayStep(s, p, c)
    OBVIOUS
  <2>1. CASE <<c, k>> \in wave
    <3>1. /\ k >= 1 /\ c \notin barred /\ s.vacated[c] <= k - 1
          /\ \E p \in Cell : <<p, k - 1>> \in wave /\ MayStep(s, p, c)
      BY <2>1 DEF IsWave
    <3> QED BY <1>4, <3>1
  <2>2. CASE c \in new /\ k = m
    <3>1. k - 1 = n /\ k >= 1
      BY <2>2
    <3>2. PICK p \in Cell : <<p, n>> \in wave /\ MayStep(s, p, c)
      BY <1>3, <2>2
    <3>3. <<p, n>> \in after
      BY <1>4, <3>2
    <3>4. <<p, k - 1>> \in after
      BY <3>1, <3>3
    <3>5. c \notin barred /\ s.vacated[c] <= k - 1
      <4>1. c \notin barred /\ s.vacated[c] <= n
        BY <1>3, <2>2
      <4> HIDE DEF m
      <4> QED BY <3>1, <4>1
    <3> QED BY <3>1, <3>2, <3>4, <3>5
  <2>3. <<c, k>> \in wave \/ (c \in new /\ k = m)
    BY <1>4
  <2> QED BY <2>1, <2>2, <2>3
<1>10. ASSUME NEW p \in Cell, NEW c \in Cell, NEW k \in 0 .. m - 1,
              <<p, k>> \in after, MayStep(s, p, c),
              s.vacated[c] <= k, c \notin barred
       PROVE  \E j \in 0 .. k + 1 : <<c, j>> \in after
  <2>0. k \in Nat /\ k <= n
    OBVIOUS
  <2>1. <<p, k>> \in wave
    BY <1>4, <1>10, <2>0
  <2>2. CASE k = n
    <3>1. CASE c \in new
      BY <1>4, <2>2, <3>1
    <3>2. CASE c \notin new
      <4>1. PICK j \in 0 .. Area : <<c, j>> \in wave
        BY <1>5, <1>10, <2>1, <2>2, <3>2
      <4>2. <<c, j>>[2] <= n \/ <<c, j>>[2] <= 1
        BY <1>2, <4>1
      <4>3. j \in 0 .. k + 1
        BY <2>2, <4>2
      <4> QED BY <1>4, <4>1, <4>3
    <3> QED BY <3>1, <3>2
  <2>3. CASE k \in 0 .. n - 1
    <3>1. \E j \in 0 .. k + 1 : <<c, j>> \in wave
      <4>1. \A q, d \in Cell : \A i \in 0 .. n - 1 :
               /\ <<q, i>> \in wave /\ MayStep(s, q, d)
               /\ s.vacated[d] <= i /\ d \notin barred
               => \E j \in 0 .. i + 1 : <<d, j>> \in wave
        BY DEF IsWave
      <4> QED BY <1>10, <2>1, <2>3, <4>1
    <3> QED BY <1>4, <3>1
  <2> QED BY <2>0, <2>2, <2>3
<1>11. \A p, c \in Cell : \A k \in 0 .. m - 1 :
          /\ <<p, k>> \in after /\ MayStep(s, p, c)
          /\ s.vacated[c] <= k /\ c \notin barred
          => \E j \in 0 .. k + 1 : <<c, j>> \in after
  <2> HIDE DEF m
  <2> QED BY <1>10
<1>12. IsWave(s, begin, barred, m, after)
  <2> HIDE DEF m
  <2> QED BY <1>6, <1>7, <1>8, <1>9, <1>11 DEF IsWave
<1> QED BY <1>12 DEF after

LEMMA WavesAreWaves ==
    ASSUME BoardAssumption, NEW s, NEW begin, Beginning(begin), NEW barred
    PROVE  IsWave(s, begin, barred, Area, Wave(s, begin, barred))
<1> DEFINE S == SUBSET (Cell \X (0 .. Area))
           step == [k \in 1 .. Area |-> [w \in S |-> Spread(s, w, k, barred)]]
           Fun(f) == f = [k \in 0 .. Area |-> IF k = 0 THEN begin
                                              ELSE Spread(s, f[k - 1], k, barred)]
           wave == CHOOSE f : Fun(f)
<1>1. Area \in Nat /\ Area >= 1
  BY AreaType
<1>2. begin \in S
  BY <1>1 DEF Beginning
<1>3. step \in [1 .. Area -> [S -> S]]
  <2> SUFFICES ASSUME NEW k \in 1 .. Area, NEW w \in S
               PROVE  Spread(s, w, k, barred) \in S
    OBVIOUS
  <2>1. k \in 0 .. Area
    BY <1>1
  <2> QED BY <2>1 DEF Spread
<1>4. Wave(s, begin, barred) = wave[Area]
  BY DEF Wave
<1> HIDE DEF S
<1>5. PICK f \in [0 .. Area -> S] : Iterating(f, Area, begin, step)
  <2> HIDE DEF step
  <2> QED BY <1>1, <1>2, <1>3, IterationExists
<1>6. Fun(f)
  <2>1. \A k \in 1 .. Area : k - 1 \in 0 .. Area /\ f[k - 1] \in S
    BY <1>1
  <2>2. \A k \in 1 .. Area : step[k][f[k - 1]] = Spread(s, f[k - 1], k, barred)
    BY <2>1
  <2>3. \A k \in 0 .. Area : k = 0 \/ k \in 1 .. Area
    BY <1>1
  <2> HIDE DEF step
  <2>4. \A k \in 0 .. Area : f[k] = IF k = 0 THEN begin
                                    ELSE Spread(s, f[k - 1], k, barred)
    BY <1>5, <2>2, <2>3 DEF Iterating
  <2> QED BY <2>4
<1>7. Fun(wave)
  <2> HIDE DEF Fun
  <2> QED BY <1>6
<1>8. /\ wave[0] = begin
      /\ \A k \in 1 .. Area : wave[k] = Spread(s, wave[k - 1], k, barred)
  <2> HIDE DEF wave
  <2> QED BY <1>1, <1>7
<1> HIDE DEF wave, Fun, step
<1> DEFINE T == {k \in 0 .. Area : IsWave(s, begin, barred, k, wave[k])}
<1>9. 0 \in T
  <2>1. IsWave(s, begin, barred, 0, begin)
    <3>1. begin \subseteq Cell \X {0, 1} /\ {0, 1} \subseteq 0 .. Area
      BY <1>1 DEF Beginning
    <3>2. \A v \in begin : v[2] <= 0 \/ v[2] <= 1
      BY <3>1
    <3>3. \A c \in Cell : \A j, k \in 0 .. Area :
             <<c, j>> \in begin /\ <<c, k>> \in begin => j = k
      BY <3>1 DEF Beginning
    <3> QED BY <1>2, <3>2, <3>3 DEF IsWave, S
  <2> QED BY <1>1, <1>8, <2>1
<1>10. \A k \in 1 .. Area : k - 1 \in T => k \in T
  <2> SUFFICES ASSUME NEW k \in 1 .. Area, IsWave(s, begin, barred, k - 1, wave[k - 1])
               PROVE  IsWave(s, begin, barred, k, wave[k])
    BY <1>1
  <2>1. PICK n \in Nat : n = k - 1
    BY <1>1
  <2>2. n + 1 = k /\ n + 1 <= Area
    BY <1>1, <2>1
  <2>3. IsWave(s, begin, barred, n + 1, Spread(s, wave[n], n + 1, barred))
    BY <1>1, <2>1, <2>2, WaveSpreads
  <2> QED BY <1>8, <2>1, <2>2, <2>3
<1>11. \A k \in 0 .. Area : k \in T
  <2> HIDE DEF T
  <2> QED BY <1>1, <1>9, <1>10, BoundedInduction
<1> QED BY <1>1, <1>4, <1>11

\* The two waves of a search.
LEMMA SearchWaves ==
    ASSUME BoardAssumption, NEW s \in ScenarioType
    PROVE  /\ IsWave(s, {<<s.start, 0>>}, {}, Area, SafeWave(s))
           /\ IsWave(s, Risky(s) \X {1}, Flooded(SafeWave(s)), Area, RiskyWave(s))
<1>1. s.start \in Cell /\ s.danger \subseteq Cell
  BY DEF ScenarioType
<1>2. Beginning({<<s.start, 0>>})
  BY <1>1 DEF Beginning
<1>3. Beginning(Risky(s) \X {1})
  <2>1. Risky(s) \subseteq Cell
    BY <1>1 DEF Risky
  <2> QED BY <2>1 DEF Beginning
<1> QED BY <1>2, <1>3, WavesAreWaves DEF SafeWave, RiskyWave

\* What the search has to know of them.
LEMMA SafeFacts ==
    ASSUME BoardAssumption, NEW s \in ScenarioType
    PROVE  /\ SafeWave(s) \subseteq Cell \X (0 .. Area)
           /\ <<s.start, 0>> \in SafeWave(s)
           /\ \A c \in Cell : \A j, k \in 0 .. Area :
                 <<c, j>> \in SafeWave(s) /\ <<c, k>> \in SafeWave(s) => j = k
           /\ \A c \in Cell : \A k \in 0 .. Area : <<c, k>> \in SafeWave(s) =>
                 \/ c = s.start /\ k = 0
                 \/ /\ k >= 1 /\ s.vacated[c] <= k - 1
                    /\ \E p \in Cell : <<p, k - 1>> \in SafeWave(s) /\ MayStep(s, p, c)
           /\ \A p, c \in Cell : \A k \in 0 .. Area - 1 :
                 /\ <<p, k>> \in SafeWave(s) /\ MayStep(s, p, c) /\ s.vacated[c] <= k
                 => \E j \in 0 .. k + 1 : <<c, j>> \in SafeWave(s)
<1>1. IsWave(s, {<<s.start, 0>>}, {}, Area, SafeWave(s))
  BY SearchWaves
<1> HIDE DEF SafeWave
<1>2. /\ {<<s.start, 0>>} \subseteq SafeWave(s)
      /\ SafeWave(s) \subseteq Cell \X (0 .. Area)
      /\ \A c \in Cell : \A j, k \in 0 .. Area :
            <<c, j>> \in SafeWave(s) /\ <<c, k>> \in SafeWave(s) => j = k
  BY <1>1 DEF IsWave
<1>3. \A c \in Cell : \A k \in 0 .. Area : <<c, k>> \in SafeWave(s) \ {<<s.start, 0>>} =>
        /\ k >= 1 /\ c \notin {} /\ s.vacated[c] <= k - 1
        /\ \E p \in Cell : <<p, k - 1>> \in SafeWave(s) /\ MayStep(s, p, c)
  BY <1>1 DEF IsWave
<1>4. \A p, c \in Cell : \A k \in 0 .. Area - 1 :
        /\ <<p, k>> \in SafeWave(s) /\ MayStep(s, p, c)
        /\ s.vacated[c] <= k /\ c \notin {}
        => \E j \in 0 .. k + 1 : <<c, j>> \in SafeWave(s)
  BY <1>1 DEF IsWave
<1>5. \A c \in Cell : \A k \in 0 .. Area : <<c, k>> \in SafeWave(s) =>
        \/ c = s.start /\ k = 0
        \/ /\ k >= 1 /\ s.vacated[c] <= k - 1
           /\ \E p \in Cell : <<p, k - 1>> \in SafeWave(s) /\ MayStep(s, p, c)
  BY <1>3
<1>6. \A p, c \in Cell : \A k \in 0 .. Area - 1 :
         /\ <<p, k>> \in SafeWave(s) /\ MayStep(s, p, c) /\ s.vacated[c] <= k
         => \E j \in 0 .. k + 1 : <<c, j>> \in SafeWave(s)
  BY <1>4
<1> QED BY <1>2, <1>5, <1>6

LEMMA RiskyFacts ==
    ASSUME BoardAssumption, NEW s \in ScenarioType
    PROVE  /\ RiskyWave(s) \subseteq Cell \X (0 .. Area)
           /\ \A c \in Risky(s) : <<c, 1>> \in RiskyWave(s)
           /\ \A c \in Cell : \A j, k \in 0 .. Area :
                 <<c, j>> \in RiskyWave(s) /\ <<c, k>> \in RiskyWave(s) => j = k
           /\ \A c \in Cell : \A k \in 0 .. Area : <<c, k>> \in RiskyWave(s) =>
                 \/ c \in Risky(s) /\ k = 1
                 \/ /\ k >= 1 /\ s.vacated[c] <= k - 1 /\ c \notin Flooded(SafeWave(s))
                    /\ \E p \in Cell : <<p, k - 1>> \in RiskyWave(s) /\ MayStep(s, p, c)
           /\ \A p, c \in Cell : \A k \in 0 .. Area - 1 :
                 /\ <<p, k>> \in RiskyWave(s) /\ MayStep(s, p, c) /\ s.vacated[c] <= k
                 /\ c \notin Flooded(SafeWave(s))
                 => \E j \in 0 .. k + 1 : <<c, j>> \in RiskyWave(s)
           /\ Flooded(RiskyWave(s)) \cap Flooded(SafeWave(s)) = {}
<1> DEFINE W == RiskyWave(s)
           F == Flooded(SafeWave(s))
<1>1. IsWave(s, Risky(s) \X {1}, F, Area, W)
  BY SearchWaves
<1> HIDE DEF W, F
<1>2. /\ Risky(s) \X {1} \subseteq W
      /\ W \subseteq Cell \X (0 .. Area)
      /\ \A c \in Cell : \A j, k \in 0 .. Area :
            <<c, j>> \in W /\ <<c, k>> \in W => j = k
  BY <1>1 DEF IsWave
<1>3. \A c \in Cell : \A k \in 0 .. Area : <<c, k>> \in W \ (Risky(s) \X {1}) =>
        /\ k >= 1 /\ c \notin F /\ s.vacated[c] <= k - 1
        /\ \E p \in Cell : <<p, k - 1>> \in W /\ MayStep(s, p, c)
  BY <1>1 DEF IsWave
<1>4. \A p, c \in Cell : \A k \in 0 .. Area - 1 :
        /\ <<p, k>> \in W /\ MayStep(s, p, c)
        /\ s.vacated[c] <= k /\ c \notin F
        => \E j \in 0 .. k + 1 : <<c, j>> \in W
  BY <1>1 DEF IsWave
<1>5. \A c \in Cell : \A k \in 0 .. Area : <<c, k>> \in W =>
        \/ c \in Risky(s) /\ k = 1
        \/ /\ k >= 1 /\ s.vacated[c] <= k - 1 /\ c \notin F
           /\ \E p \in Cell : <<p, k - 1>> \in W /\ MayStep(s, p, c)
  BY <1>3
<1>6. \A c \in Risky(s) : c \notin F
  BY DEF Risky, F
<1>7. Flooded(W) \cap F = {}
  <2> SUFFICES ASSUME NEW c \in Flooded(W) PROVE c \notin F
    OBVIOUS
  <2>1. PICK k \in 0 .. Area : c \in Cell /\ <<c, k>> \in W
    BY <1>2, FloodedAt
  <2> QED BY <1>5, <1>6, <2>1
<1>8. \A c \in Risky(s) : <<c, 1>> \in W
  BY <1>2
<1>9. /\ W \subseteq Cell \X (0 .. Area)
      /\ \A c \in Risky(s) : <<c, 1>> \in W
      /\ \A c \in Cell : \A j, k \in 0 .. Area :
            <<c, j>> \in W /\ <<c, k>> \in W => j = k
      /\ \A c \in Cell : \A k \in 0 .. Area : <<c, k>> \in W =>
            \/ c \in Risky(s) /\ k = 1
            \/ /\ k >= 1 /\ s.vacated[c] <= k - 1 /\ c \notin F
               /\ \E p \in Cell : <<p, k - 1>> \in W /\ MayStep(s, p, c)
      /\ \A p, c \in Cell : \A k \in 0 .. Area - 1 :
            /\ <<p, k>> \in W /\ MayStep(s, p, c) /\ s.vacated[c] <= k
            /\ c \notin F
            => \E j \in 0 .. k + 1 : <<c, j>> \in W
      /\ Flooded(W) \cap F = {}
  <2>1. \A p, c \in Cell : \A k \in 0 .. Area - 1 :
           /\ <<p, k>> \in W /\ MayStep(s, p, c) /\ s.vacated[c] <= k
           /\ c \notin F
           => \E j \in 0 .. k + 1 : <<c, j>> \in W
    BY <1>4
  <2> QED BY <1>2, <1>5, <1>7, <1>8, <2>1
<1> QED BY <1>9 DEF W, F

\* The loop runs once for each cell at most: MAX_ITERATIONS is never reached.
LEMMA CellsCounted ==
    ASSUME BoardAssumption, IInv, Counted
    PROVE  /\ Area \in Nat /\ safety <= Area /\ IsFiniteSet(closedSet)
           /\ openSet # {} => safety < Area
<1>1. IsFiniteSet(Cell) /\ Cardinality(Cell) = Area
  <2>1. \A n \in Nat \ {0} :
          IsFiniteSet(0 .. n - 1) /\ Cardinality(0 .. n - 1) = n
    <3> SUFFICES ASSUME NEW n \in Nat \ {0}
                 PROVE  IsFiniteSet(0 .. n - 1) /\ Cardinality(0 .. n - 1) = n
      OBVIOUS
    <3>1. 0 \in Int /\ n - 1 \in Int /\ ~(0 > n - 1) /\ (n - 1) - 0 + 1 = n
      OBVIOUS
    <3> QED BY <3>1, FS_Interval
  <2>2. /\ IsFiniteSet(0 .. Width - 1) /\ Cardinality(0 .. Width - 1) = Width
        /\ IsFiniteSet(0 .. Height - 1) /\ Cardinality(0 .. Height - 1) = Height
    BY <2>1 DEF BoardAssumption
  <2>3. /\ IsFiniteSet((0 .. Width - 1) \X (0 .. Height - 1))
        /\ Cardinality((0 .. Width - 1) \X (0 .. Height - 1)) = Width * Height
    <3> DEFINE xs == 0 .. Width - 1
               ys == 0 .. Height - 1
    <3>1. IsFiniteSet(xs) /\ IsFiniteSet(ys)
          /\ Cardinality(xs) = Width /\ Cardinality(ys) = Height
      BY <2>2
    <3> HIDE DEF xs, ys
    <3>2. /\ IsFiniteSet(xs \X ys)
          /\ Cardinality(xs \X ys) = Cardinality(xs) * Cardinality(ys)
      BY <3>1, FS_Product
    <3>3. Cardinality(xs \X ys) = Width * Height
      BY <3>1, <3>2, Zenon
    <3> QED BY <3>2, <3>3 DEF xs, ys
  <2> QED BY <2>3 DEF Cell, Area
<1>2. closedSet \in SUBSET Cell /\ openSet \in SUBSET Cell
      /\ openSet \cap closedSet = {}
  BY DEF IInv, TypeOK, SearchTree
<1>3. IsFiniteSet(closedSet) /\ safety <= Area
  BY <1>1, <1>2, FS_Subset DEF Counted
<1>4. ASSUME NEW o \in openSet PROVE safety < Area
  <2>1. closedSet \cup {o} \in SUBSET Cell /\ o \notin closedSet
    BY <1>2
  <2>2. Cardinality(closedSet \cup {o}) = safety + 1
    BY <1>3, <2>1, FS_AddElement DEF Counted
  <2>3. safety + 1 <= Area
    BY <1>1, <2>1, <2>2, FS_Subset
  <2>4. safety \in Nat /\ Area \in Nat
    BY AreaType DEF IInv, TypeOK
  <2> QED BY <2>3, <2>4
<1> QED BY <1>3, <1>4, AreaType

\* The score of a cell tells its turn, and whether the path to it is risky.
LEMMA ScoreTellsTurn ==
    ASSUME BoardAssumption, AStarAssumption, CostsAssumption,
           IInv, Counted, Charged, NEW c \in seen
    PROVE  /\ c \in Cell /\ VeryHighCost \in Nat
           /\ gScore[c] \in Nat /\ turns[c] \in Nat /\ turns[c] >= 1
           /\ turns[c] - 1 <= Area /\ Area < VeryHighCost
           /\ gScore[c] = IF gScore[c] < VeryHighCost THEN turns[c] - 1
                          ELSE turns[c] - 1 + VeryHighCost
           /\ c \in closedSet => turns[c] - 1 <= Area - 1
           /\ gScore[c] < VeryHighCost => gScore[c] <= Area
           /\ gScore[c] - VeryHighCost <= Area
<1>1. /\ c \in Cell /\ gScore[c] \in Nat /\ turns[c] \in Nat /\ safety \in Nat
      /\ VeryHighCost \in Nat /\ NoCell \notin Cell
      /\ Area \in Nat /\ safety <= Area /\ Area < VeryHighCost
  BY CellsCounted DEF IInv, TypeOK, seen, AStarAssumption, CostsAssumption
<1>2. turns[c] >= 1
  <2>1. CASE c = search.start
    BY <2>1 DEF IInv, SearchTree
  <2>2. CASE c # search.start
    <3>1. cameFrom[c] \in closedSet /\ closedSet \subseteq Cell
      BY <2>2 DEF IInv, SearchTree, TypeOK
    <3>2. turns[c] = turns[cameFrom[c]] + 1 /\ turns[cameFrom[c]] \in Nat
      BY <1>1, <3>1 DEF IInv, ArrivalsSafe, TypeOK
    <3> QED BY <3>2
  <2> QED BY <2>1, <2>2
<1>3. turns[c] - 1 <= Area /\ (c \in closedSet => turns[c] - 1 <= Area - 1)
  <2>1. CASE c \in closedSet
    BY <1>1, <2>1 DEF Counted
  <2>2. CASE c \in openSet
    <3>1. c \notin closedSet /\ turns[c] <= safety + 1
      BY <2>2 DEF Counted, IInv, SearchTree
    <3> QED BY <1>1, <3>1
  <2> QED BY <2>1, <2>2 DEF seen
<1>4. gScore[c] = turns[c] - 1 \/ gScore[c] = turns[c] - 1 + VeryHighCost
  BY DEF Charged
<1> QED BY <1>1, <1>2, <1>3, <1>4

\* Expanding a cell, for the properties of the scores.
LEMMA ExpandScores ==
    ASSUME BoardAssumption, AStarAssumption, CostsAssumption,
           IInv, Counted, Charged, Relaxed, NEW x \in Cell, Expand(x)
    PROVE  Counted' /\ Charged' /\ Relaxed'
<1> DEFINE reached == Reached(x)
           better == {n \in reached : TentativeGScore(x, n) < gScore[n]}
<1>1. /\ x \in openSet /\ x \notin closedSet /\ x \in seen /\ x # NoCell
      /\ search' = search /\ search.start \in Cell
      /\ search.vacated \in [Cell -> Nat]
      /\ gScore \in [Cell -> Nat] /\ turns \in [Cell -> Nat] /\ safety \in Nat
      /\ cameFrom \in [Cell -> Cell \cup {NoCell}]
      /\ closedSet \subseteq Cell /\ openSet \subseteq Cell
      /\ VeryHighCost \in Nat
  <2>1. /\ search \in ScenarioType /\ search' = search /\ x \in openSet
        /\ openSet \cap closedSet = {}
    BY DEF Expand, Lowest, IInv, TypeOK, SearchTree
  <2>2. search.start \in Cell /\ search.vacated \in [Cell -> Nat]
    BY <2>1 DEF ScenarioType
  <2> QED BY <2>1, <2>2 DEF IInv, TypeOK, seen, AStarAssumption
<1>2. /\ reached \subseteq Cell /\ x \notin reached
      /\ reached \cap closedSet = {}
      /\ better \subseteq reached
  BY DEF Reached, GetNeighbors
<1>3. /\ openSet' = (openSet \ {x}) \cup reached
      /\ closedSet' = closedSet \cup {x}
      /\ cameFrom' = [n \in Cell |-> IF n \in better THEN x ELSE cameFrom[n]]
      /\ gScore' = [n \in Cell |-> IF n \in better THEN TentativeGScore(x, n)
                                   ELSE gScore[n]]
      /\ turns' = [n \in Cell |-> IF n \in better THEN turns[x] + 1
                                  ELSE turns[n]]
      /\ safety' = safety + 1
  BY DEF Expand
<1>4. \A n \in Cell : /\ TentativeGScore(x, n) = gScore[x] + 1 + Charge(x, n)
                      /\ Charge(x, n) \in {0, VeryHighCost}
                      /\ x # search.start => Charge(x, n) = 0
  <2>1. closedSet = {} <=> x = search.start
    BY <1>1 DEF IInv, SearchTree
  <2> QED BY <2>1 DEF TentativeGScore, DontGetEatenModifier, Charge
<1>5. IInv'
  BY ExpandStep
<1>6. \A n \in reached \ seen : n \in better
  <2> SUFFICES ASSUME NEW n \in reached \ seen PROVE n \in better
    OBVIOUS
  <2>1. n \in Cell /\ gScore[n] = InfinityCost
    BY <1>2 DEF IInv, SearchTree
  <2>2. gScore[x] <= safety + VeryHighCost /\ safety <= MaxIterations
    BY <1>1 DEF IInv, ScoresBounded, Expand
  <2>3. x = search.start => gScore[x] = 0
    BY DEF Charged
  <2>4. TentativeGScore(x, n) <= safety + 1 + VeryHighCost
    BY <1>1, <1>4, <2>1, <2>2, <2>3
  <2> QED BY <1>1, <1>4, <2>1, <2>2, <2>4 DEF AStarAssumption
<1>7. search.start \notin better
  <2>1. CASE x = search.start
    BY <1>2, <2>1
  <2>2. CASE x # search.start
    <3>1. search.start \in closedSet
      BY <1>1, <2>2 DEF IInv, SearchTree
    <3> QED BY <1>2, <3>1
  <2> QED BY <2>1, <2>2
<1>8. seen' = seen \cup reached
  BY <1>1, <1>3 DEF seen
<1> HIDE DEF better, reached
\* what becomes of a cell
<1>9. \A n \in Cell \ better :
        gScore'[n] = gScore[n] /\ turns'[n] = turns[n] /\ cameFrom'[n] = cameFrom[n]
  BY <1>3
<1>10. \A n \in better : /\ n \in Cell /\ n \in reached
                         /\ gScore'[n] = gScore[x] + 1 + Charge(x, n)
                         /\ gScore'[n] < gScore[n]
                         /\ turns'[n] = turns[x] + 1 /\ cameFrom'[n] = x
  BY <1>2, <1>3, <1>4 DEF better
<1>11. \A c \in closedSet \cup {x} : c \in Cell /\ c \notin better
  BY <1>1, <1>2
<1>12. Counted'
  <2>1. safety' = Cardinality(closedSet')
    <3>1. IsFiniteSet(closedSet)
      BY CellsCounted
    <3> QED BY <1>1, <1>3, <3>1, FS_AddElement DEF Counted
  <2>2. turns[x] <= safety + 1
    BY <1>1 DEF Counted
  <2>3. \A c \in closedSet' : turns'[c] <= safety'
    BY <1>1, <1>3, <1>9, <1>11, <2>2 DEF Counted
  <2>4. \A c \in openSet' : turns'[c] <= safety' + 1
    <3> SUFFICES ASSUME NEW c \in openSet' PROVE turns'[c] <= safety' + 1
      OBVIOUS
    <3>1. CASE c \in better
      <4>1. turns'[c] = turns[x] + 1 /\ turns[x] \in Nat
        BY <1>1, <1>10, <3>1
      <4> QED BY <1>1, <1>3, <2>2, <4>1
    <3>2. CASE c \notin better
      <4>1. c \in openSet /\ c \in Cell
        BY <1>1, <1>2, <1>3, <1>6, <3>2 DEF seen
      <4>2. turns[c] <= safety + 1 /\ turns'[c] = turns[c] /\ turns[c] \in Nat
        BY <1>1, <1>9, <3>2, <4>1 DEF Counted
      <4> QED BY <1>1, <1>3, <4>2
    <3> QED BY <3>1, <3>2
  <2> QED BY <2>1, <2>3, <2>4 DEF Counted
<1>13. Charged'
  <2>1. gScore'[search'.start] = 0
    BY <1>1, <1>7, <1>9 DEF Charged
  <2>2. ASSUME NEW c \in seen'
        PROVE  gScore'[c] \in {turns'[c] - 1, turns'[c] - 1 + VeryHighCost}
    <3>1. CASE c \in better
      <4>1. gScore[x] \in {turns[x] - 1, turns[x] - 1 + VeryHighCost}
            /\ turns[x] \in Nat /\ gScore[x] \in Nat
        BY <1>1 DEF Charged
      <4>2. x = search.start => gScore[x] = 0 /\ turns[x] = 1
        BY DEF Charged, IInv, SearchTree
      <4>3. c \in Cell /\ gScore'[c] = gScore[x] + 1 + Charge(x, c)
            /\ turns'[c] = turns[x] + 1
        BY <1>10, <3>1
      <4>4. /\ Charge(x, c) \in {0, VeryHighCost}
            /\ x # search.start => Charge(x, c) = 0
        BY <1>4, <4>3
      <4> QED BY <1>1, <4>1, <4>2, <4>3, <4>4
    <3>2. CASE c \notin better
      <4>1. c \in seen /\ c \in Cell
        BY <1>1, <1>6, <1>8, <3>2 DEF seen
      <4> QED BY <1>9, <3>2, <4>1 DEF Charged
    <3> QED BY <3>1, <3>2
  <2>3. ASSUME NEW c \in seen' \ {search'.start}
        PROVE  gScore'[c] = gScore'[cameFrom'[c]] + 1 + Charge(cameFrom[c], c)'
    <3>1. CASE c \in better
      <4>1. gScore'[x] = gScore[x] /\ cameFrom'[c] = x
        BY <1>1, <1>9, <1>10, <1>11, <3>1
      <4>2. Charge(cameFrom[c], c)' = Charge(x, c)
        BY <1>1, <4>1 DEF Charge
      <4> QED BY <1>10, <3>1, <4>1, <4>2
    <3>2. CASE c \notin better
      <4>1. c \in seen \ {search.start} /\ c \in Cell
        BY <1>1, <1>6, <1>8, <3>2 DEF seen
      <4>2. cameFrom'[c] = cameFrom[c] /\ gScore'[c] = gScore[c]
        BY <1>9, <3>2, <4>1
      <4>3. cameFrom[c] \in closedSet
        BY <4>1 DEF IInv, SearchTree
      <4>4. gScore'[cameFrom[c]] = gScore[cameFrom[c]]
        BY <1>9, <1>11, <4>3
      <4>5. Charge(cameFrom[c], c)' = Charge(cameFrom[c], c)
        BY <1>1, <4>2 DEF Charge
      <4>6. gScore[c] = gScore[cameFrom[c]] + 1 + Charge(cameFrom[c], c)
        BY <4>1 DEF Charged
      <4> QED BY <4>2, <4>4, <4>5, <4>6
    <3> QED BY <3>1, <3>2
  <2> QED BY <2>1, <2>2, <2>3 DEF Charged
<1>14. Relaxed'
  <2> SUFFICES ASSUME NEW c \in closedSet', NEW n \in GetNeighbors(c)'
               PROVE  \/ n \in closedSet'
                      \/ n \in openSet' /\ gScore'[n] <= gScore'[c] + 1 + Charge(c, n)'
    BY DEF Relaxed
  <2>1. c \in Cell /\ n \in Cell /\ gScore'[c] = gScore[c] /\ turns'[c] = turns[c]
    BY <1>3, <1>9, <1>11 DEF GetNeighbors
  <2>2. n \in GetNeighbors(c) /\ Charge(c, n)' = Charge(c, n)
    BY <1>1, <2>1 DEF GetNeighbors, IndexIsSafe, Charge
  <2>3. CASE c = x
    <3>1. n \in closedSet' \/ n \in reached
      BY <1>3, <2>2, <2>3 DEF Reached, reached
    <3>2. ASSUME n \in reached PROVE gScore'[n] <= gScore[x] + 1 + Charge(x, n)
      <4>1. CASE n \in better
        <5>1. Charge(x, n) \in Nat /\ gScore[x] \in Nat
          BY <1>1, <1>4, <2>1
        <5> QED BY <1>10, <4>1, <5>1
      <4>2. CASE n \notin better
        <5>1. ~(TentativeGScore(x, n) < gScore[n])
          BY <3>2, <4>2 DEF better
        <5>2. Charge(x, n) \in Nat /\ gScore[x] \in Nat /\ gScore[n] \in Nat
          BY <1>1, <1>4, <2>1
        <5> QED BY <1>4, <1>9, <2>1, <4>2, <5>1, <5>2
      <4> QED BY <4>1, <4>2
    <3> QED BY <1>3, <2>1, <2>2, <2>3, <3>1, <3>2
  <2>4. CASE c # x
    <3>1. \/ n \in closedSet
          \/ n \in openSet /\ gScore[n] <= gScore[c] + 1 + Charge(c, n)
      BY <1>3, <2>2, <2>4 DEF Relaxed
    <3>2. gScore'[n] <= gScore[n]
      <4>1. gScore[n] \in Nat /\ gScore[x] \in Nat /\ Charge(x, n) \in Nat
        BY <1>1, <1>4, <2>1
      <4> QED BY <1>9, <1>10, <2>1, <4>1
    <3>3. /\ gScore[n] \in Nat /\ gScore[c] \in Nat /\ gScore'[n] \in Nat
          /\ Charge(c, n) \in Nat
      BY <1>1, <1>5, <2>1 DEF IInv, TypeOK, Charge
    <3> QED BY <1>3, <2>1, <2>2, <3>1, <3>2, <3>3
  <2> QED BY <2>3, <2>4
<1> QED BY <1>12, <1>13, <1>14

\* A closed cell of a wave has the score that the wave gives it.
LEMMA ExactSafe ==
    ASSUME BoardAssumption, AStarAssumption, CostsAssumption,
           IInv, Counted, Charged, NEW c \in seen, Exact(c),
           NEW k \in 0 .. Area, <<c, k>> \in SafeWave(search)
    PROVE  gScore[c] = k /\ gScore[c] < VeryHighCost
<1>1. /\ c \in Cell /\ gScore[c] \in Nat /\ VeryHighCost \in Nat /\ Area \in Nat
      /\ search \in ScenarioType
      /\ gScore[c] < VeryHighCost => gScore[c] <= Area
      /\ gScore[c] - VeryHighCost <= Area
  BY ScoreTellsTurn, AreaType DEF IInv, TypeOK
<1>2. /\ SafeWave(search) \subseteq Cell \X (0 .. Area)
      /\ \A i, j \in 0 .. Area :
           <<c, i>> \in SafeWave(search) /\ <<c, j>> \in SafeWave(search) => i = j
  BY <1>1, SafeFacts
<1>3. /\ RiskyWave(search) \subseteq Cell \X (0 .. Area)
      /\ Flooded(RiskyWave(search)) \cap Flooded(SafeWave(search)) = {}
  BY <1>1, RiskyFacts
<1>4. gScore[c] < VeryHighCost
  <2> SUFFICES ASSUME ~(gScore[c] < VeryHighCost) PROVE FALSE
    OBVIOUS
  <2>1. gScore[c] - VeryHighCost \in 0 .. Area
    BY <1>1
  <2>2. <<c, gScore[c] - VeryHighCost>> \in RiskyWave(search)
    BY DEF Exact
  <2>3. c \in Flooded(RiskyWave(search))
    BY <1>1, <1>3, <2>1, <2>2, FloodedAt
  <2>4. c \in Flooded(SafeWave(search))
    BY <1>1, <1>2, FloodedAt
  <2> QED BY <1>3, <2>3, <2>4
<1>5. <<c, gScore[c]>> \in SafeWave(search) /\ gScore[c] \in 0 .. Area
  BY <1>1, <1>4 DEF Exact
<1> QED BY <1>2, <1>4, <1>5

LEMMA ExactRisky ==
    ASSUME BoardAssumption, AStarAssumption, CostsAssumption,
           IInv, Counted, Charged, NEW c \in seen, Exact(c),
           NEW k \in 0 .. Area, <<c, k>> \in RiskyWave(search)
    PROVE  gScore[c] = VeryHighCost + k
<1>1. /\ c \in Cell /\ gScore[c] \in Nat /\ VeryHighCost \in Nat /\ Area \in Nat
      /\ search \in ScenarioType
      /\ gScore[c] < VeryHighCost => gScore[c] <= Area
      /\ gScore[c] - VeryHighCost <= Area
  BY ScoreTellsTurn, AreaType DEF IInv, TypeOK
<1>2. SafeWave(search) \subseteq Cell \X (0 .. Area)
  BY <1>1, SafeFacts
<1>3. /\ RiskyWave(search) \subseteq Cell \X (0 .. Area)
      /\ \A i, j \in 0 .. Area :
           <<c, i>> \in RiskyWave(search) /\ <<c, j>> \in RiskyWave(search) => i = j
      /\ Flooded(RiskyWave(search)) \cap Flooded(SafeWave(search)) = {}
  BY <1>1, RiskyFacts
<1>4. ~(gScore[c] < VeryHighCost)
  <2> SUFFICES ASSUME gScore[c] < VeryHighCost PROVE FALSE
    OBVIOUS
  <2>1. gScore[c] \in 0 .. Area
    BY <1>1
  <2>2. <<c, gScore[c]>> \in SafeWave(search)
    BY DEF Exact
  <2>3. c \in Flooded(SafeWave(search))
    BY <1>1, <1>2, <2>1, <2>2, FloodedAt
  <2>4. c \in Flooded(RiskyWave(search))
    BY <1>1, <1>3, FloodedAt
  <2> QED BY <1>3, <2>3, <2>4
<1>5. /\ <<c, gScore[c] - VeryHighCost>> \in RiskyWave(search)
      /\ gScore[c] - VeryHighCost \in 0 .. Area
  BY <1>1, <1>4 DEF Exact
<1>6. gScore[c] - VeryHighCost = k
  BY <1>3, <1>5
<1> QED BY <1>1, <1>6

\* The distance to the goal: what the heuristic of a search on the board is.
ToAim(c) == Distance(c, search.aim)

LEMMA ToAimFacts ==
    ASSUME BoardAssumption, onBoard, NEW c \in Cell
    PROVE  /\ ToAim(c) \in Nat /\ ToAim(c) <= Width + Height - 2
           /\ \A n \in Cell : IsAdjacent(c, n) => ToAim(c) <= ToAim(n) + 1
<1> DEFINE a == search.aim
<1>1. /\ a[1] \in 0 .. Width - 1 /\ a[2] \in 0 .. Height - 1
      /\ c[1] \in 0 .. Width - 1 /\ c[2] \in 0 .. Height - 1
      /\ Width \in Nat /\ Height \in Nat
  BY DEF onBoard, Cell, BoardAssumption
<1> HIDE DEF a
<1>2. AbsDiff(c[1], a[1]) \in 0 .. Width - 1 /\ AbsDiff(c[2], a[2]) \in 0 .. Height - 1
  BY <1>1 DEF AbsDiff
<1>3. ToAim(c) = AbsDiff(c[1], a[1]) + AbsDiff(c[2], a[2])
  BY DEF ToAim, Distance, a
<1>4. ASSUME NEW n \in Cell, IsAdjacent(c, n) PROVE ToAim(c) <= ToAim(n) + 1
  <2>1. n[1] \in Int /\ n[2] \in Int
    BY <1>1 DEF Cell
  <2>2. ToAim(n) = AbsDiff(n[1], a[1]) + AbsDiff(n[2], a[2])
    BY DEF ToAim, Distance, a
  <2> QED BY <1>1, <1>3, <1>4, <2>1, <2>2 DEF AbsDiff, IsAdjacent
<1> QED BY <1>1, <1>2, <1>3, <1>4

LEMMA FScoreOf ==
    ASSUME BoardAssumption, AStarAssumption, CostsAssumption,
           IInv, onBoard, NEW c \in seen
    PROVE  FScore(c) = gScore[c] + ToAim(c)
<1>1. /\ c \in Cell /\ gScore[c] \in Nat /\ safety \in Nat
      /\ safety <= MaxIterations + 1 /\ gScore[c] <= safety + VeryHighCost
  BY DEF IInv, TypeOK, seen, ScoresBounded
<1>2. ToAim(c) \in Nat /\ ToAim(c) <= Width + Height - 2
  BY <1>1, ToAimFacts
<1>3. /\ MaxIterations \in Nat /\ VeryHighCost \in Nat /\ CoordMod \in Nat
      /\ Width \in Nat /\ Height \in Nat
      /\ MaxIterations + VeryHighCost + Width + Height < CoordMod
  BY DEF BoardAssumption, AStarAssumption, CostsAssumption
<1>4. gScore[c] + ToAim(c) \in 0 .. CoordMod - 1
  BY <1>1, <1>2, <1>3
<1>5. \A n \in 0 .. CoordMod - 1 : n % CoordMod = n
  BY <1>3
<1> QED BY <1>4, <1>5 DEF FScore, ToAim

\* What holds whenever the search for a goal on the board goes on.
OnTheWay ==
    /\ IInv /\ Counted /\ Charged /\ Relaxed /\ onBoard
    /\ \A c \in closedSet : Exact(c)

\* A step of a wave can also be taken by the search.
LEMMA MayReach ==
    ASSUME OnTheWay, NEW p \in closedSet, NEW c \in Cell, MayStep(search, p, c),
           search.vacated[c] < turns[p], c \notin closedSet
    PROVE  c \in openSet /\ gScore[c] <= gScore[p] + 1
<1>1. c \in GetNeighbors(p)
  BY DEF GetNeighbors, IndexIsSafe, MayStep
<1>2. Charge(p, c) = 0
  BY DEF Charge, MayStep
<1>3. c \in openSet /\ gScore[c] <= gScore[p] + 1 + Charge(p, c)
  BY <1>1 DEF OnTheWay, Relaxed
<1>4. gScore[p] \in Nat
  BY DEF OnTheWay, IInv, TypeOK
<1> QED BY <1>2, <1>3, <1>4

\* As long as the search has not come to a cell of the wave, it has an open
\* cell on the way there.
LEMMA SafePromise ==
    ASSUME BoardAssumption, AStarAssumption, CostsAssumption, OnTheWay
    PROVE  \A k \in 0 .. Area : \A c \in Cell \ closedSet :
              <<c, k>> \in SafeWave(search) =>
                \E w \in openSet : gScore[w] + ToAim(w) <= k + ToAim(c)
<1> DEFINE T == {k \in 0 .. Area : \A c \in Cell \ closedSet :
              <<c, k>> \in SafeWave(search) =>
                \E w \in openSet : gScore[w] + ToAim(w) <= k + ToAim(c)}
<1>0. /\ Area \in Nat /\ search \in ScenarioType /\ search.start \in Cell
      /\ IInv /\ Counted /\ Charged /\ onBoard
      /\ closedSet \subseteq Cell /\ openSet \subseteq Cell
      /\ gScore \in [Cell -> Nat] /\ search.vacated \in [Cell -> Nat]
  BY AreaType DEF OnTheWay, IInv, TypeOK, ScenarioType
<1>1. \A c \in Cell : \A k \in 0 .. Area : <<c, k>> \in SafeWave(search) =>
         \/ c = search.start /\ k = 0
         \/ /\ k >= 1 /\ search.vacated[c] <= k - 1
            /\ \E p \in Cell : /\ <<p, k - 1>> \in SafeWave(search)
                               /\ MayStep(search, p, c)
  BY <1>0, SafeFacts
<1>2. ASSUME NEW c \in Cell \ closedSet, c = search.start
      PROVE  \E w \in openSet : gScore[w] + ToAim(w) <= 0 + ToAim(c)
  <2>1. search.start \in openSet /\ gScore[search.start] = 0
    BY <1>2 DEF OnTheWay, IInv, SearchTree
  <2>2. ToAim(c) \in Nat
    BY <1>0, ToAimFacts
  <2> QED BY <1>2, <2>1, <2>2
<1>3. ASSUME NEW k \in 1 .. Area, k - 1 \in T, NEW c \in Cell \ closedSet,
             NEW p \in Cell, <<p, k - 1>> \in SafeWave(search),
             MayStep(search, p, c), search.vacated[c] <= k - 1
      PROVE  \E w \in openSet : gScore[w] + ToAim(w) <= k + ToAim(c)
  <2>1. /\ k \in Nat /\ k - 1 \in 0 .. Area /\ ToAim(c) \in Nat /\ ToAim(p) \in Nat
        /\ ToAim(p) <= ToAim(c) + 1
    BY <1>0, <1>3, ToAimFacts DEF MayStep
  <2>2. CASE p \notin closedSet
    <3>1. PICK w \in openSet : gScore[w] + ToAim(w) <= (k - 1) + ToAim(p)
      BY <1>3, <2>2
    <3>2. gScore[w] \in Nat /\ ToAim(w) \in Nat
      BY <1>0, ToAimFacts
    <3> QED BY <2>1, <3>1, <3>2
  <2>3. CASE p \in closedSet
    <3>0. p \in seen /\ Exact(p)
      BY <2>3 DEF OnTheWay, seen
    <3>1. gScore[p] = k - 1 /\ gScore[p] < VeryHighCost
      BY <1>0, <1>3, <2>1, <3>0, ExactSafe
    <3>2. turns[p] - 1 = k - 1 /\ turns[p] \in Nat
      BY <1>0, <2>3, <3>1, ScoreTellsTurn DEF seen
    <3>3. search.vacated[c] < turns[p]
      BY <1>0, <1>3, <2>1, <3>2
    <3>4. c \in openSet /\ gScore[c] <= gScore[p] + 1
      BY <1>3, <2>3, <3>3, MayReach
    <3>5. gScore[c] + ToAim(c) <= k + ToAim(c)
      BY <1>0, <2>1, <3>1, <3>4
    <3> QED BY <3>4, <3>5
  <2> QED BY <2>2, <2>3
<1>4. 0 \in T
  <2>1. \A c \in Cell : <<c, 0>> \in SafeWave(search) => c = search.start
    BY <1>0, <1>1
  <2> QED BY <1>0, <1>2, <2>1
<1>5. ASSUME NEW k \in 1 .. Area, k - 1 \in T PROVE k \in T
  <2>0. k \in 0 .. Area
    BY <1>0
  <2> SUFFICES ASSUME NEW c \in Cell \ closedSet, <<c, k>> \in SafeWave(search)
               PROVE  \E w \in openSet : gScore[w] + ToAim(w) <= k + ToAim(c)
    BY <2>0
  <2>1. k # 0
    BY <1>0
  <2>2. PICK p \in Cell : /\ <<p, k - 1>> \in SafeWave(search)
                          /\ MayStep(search, p, c) /\ search.vacated[c] <= k - 1
    BY <1>1, <2>0, <2>1
  <2> HIDE DEF T
  <2> QED BY <1>3, <1>5, <2>2
<1>6. \A k \in 0 .. Area : k \in T
  <2> HIDE DEF T
  <2> QED BY <1>0, <1>4, <1>5, BoundedInduction
<1> QED BY <1>6

LEMMA RiskyPromise ==
    ASSUME BoardAssumption, AStarAssumption, CostsAssumption, OnTheWay
    PROVE  \A k \in 0 .. Area : \A c \in Cell \ closedSet :
              <<c, k>> \in RiskyWave(search) =>
                \E w \in openSet : gScore[w] + ToAim(w) <= VeryHighCost + k + ToAim(c)
<1> DEFINE T == {k \in 0 .. Area : \A c \in Cell \ closedSet :
              <<c, k>> \in RiskyWave(search) =>
                \E w \in openSet : gScore[w] + ToAim(w) <= VeryHighCost + k + ToAim(c)}
<1>0. /\ Area \in Nat /\ search \in ScenarioType /\ search.start \in Cell
      /\ IInv /\ Counted /\ Charged /\ onBoard
      /\ VeryHighCost \in Nat
      /\ closedSet \subseteq Cell /\ openSet \subseteq Cell
      /\ gScore \in [Cell -> Nat] /\ search.vacated \in [Cell -> Nat]
  BY AreaType DEF AStarAssumption, OnTheWay, IInv, TypeOK, ScenarioType
<1>1. \A c \in Cell : \A k \in 0 .. Area : <<c, k>> \in RiskyWave(search) =>
         \/ c \in Risky(search) /\ k = 1
         \/ /\ k >= 1 /\ search.vacated[c] <= k - 1
            /\ \E p \in Cell : /\ <<p, k - 1>> \in RiskyWave(search)
                               /\ MayStep(search, p, c)
  BY <1>0, RiskyFacts
<1>2. ASSUME NEW c \in Cell \ closedSet, c \in Risky(search)
      PROVE  \E w \in openSet : gScore[w] + ToAim(w) <= VeryHighCost + 1 + ToAim(c)
  <2>1. /\ IsAdjacent(search.start, c) /\ c # search.neck
        /\ search.vacated[c] = 0 /\ gScore[search.start] = 0
        /\ turns[search.start] = 1
    BY <1>0, <1>2 DEF Risky, Charged, IInv, SearchTree
  <2>2. /\ ToAim(c) \in Nat /\ ToAim(search.start) \in Nat
        /\ ToAim(search.start) <= ToAim(c) + 1
    BY <1>0, <2>1, ToAimFacts
  <2>3. CASE search.start \notin closedSet
    <3>1. search.start \in openSet
      BY <1>0, <2>3 DEF IInv, SearchTree
    <3> QED BY <1>0, <2>1, <2>2, <3>1
  <2>4. CASE search.start \in closedSet
    <3>1. c \in GetNeighbors(search.start)
      BY <2>1 DEF GetNeighbors, IndexIsSafe
    <3>2. c \in openSet /\ gScore[c] <= 0 + 1 + Charge(search.start, c)
      BY <1>2, <2>1, <2>4, <3>1 DEF OnTheWay, Relaxed
    <3>3. Charge(search.start, c) \in {0, VeryHighCost}
      BY DEF Charge
    <3> QED BY <1>0, <2>2, <3>2, <3>3
  <2> QED BY <2>3, <2>4
<1>3. ASSUME NEW k \in 1 .. Area, k - 1 \in T, NEW c \in Cell \ closedSet,
             NEW p \in Cell, <<p, k - 1>> \in RiskyWave(search),
             MayStep(search, p, c), search.vacated[c] <= k - 1
      PROVE  \E w \in openSet : gScore[w] + ToAim(w) <= VeryHighCost + k + ToAim(c)
  <2>1. /\ k \in Nat /\ k - 1 \in 0 .. Area /\ ToAim(c) \in Nat /\ ToAim(p) \in Nat
        /\ ToAim(p) <= ToAim(c) + 1
    BY <1>0, <1>3, ToAimFacts DEF MayStep
  <2>2. CASE p \notin closedSet
    <3>1. PICK w \in openSet : gScore[w] + ToAim(w) <= VeryHighCost + (k - 1) + ToAim(p)
      BY <1>3, <2>2
    <3>2. gScore[w] \in Nat /\ ToAim(w) \in Nat
      BY <1>0, ToAimFacts
    <3> QED BY <2>1, <3>1, <3>2
  <2>3. CASE p \in closedSet
    <3>0. p \in seen /\ Exact(p)
      BY <2>3 DEF OnTheWay, seen
    <3>1. gScore[p] = VeryHighCost + (k - 1)
      BY <1>0, <1>3, <2>1, <3>0, ExactRisky
    <3>2. turns[p] - 1 = k - 1 /\ turns[p] \in Nat
      BY <1>0, <2>3, <3>1, ScoreTellsTurn DEF seen
    <3>3. search.vacated[c] < turns[p]
      BY <1>0, <1>3, <2>1, <3>2
    <3>4. c \in openSet /\ gScore[c] <= gScore[p] + 1
      BY <1>3, <2>3, <3>3, MayReach
    <3>5. gScore[c] + ToAim(c) <= VeryHighCost + k + ToAim(c)
      BY <1>0, <2>1, <3>1, <3>4
    <3> QED BY <3>4, <3>5
  <2> QED BY <2>2, <2>3
<1>4. 0 \in T
  <2>1. \A c \in Cell : <<c, 0>> \notin RiskyWave(search)
    BY <1>0, <1>1
  <2> QED BY <1>0, <2>1
<1>5. ASSUME NEW k \in 1 .. Area, k - 1 \in T PROVE k \in T
  <2>0. k \in 0 .. Area
    BY <1>0
  <2> SUFFICES ASSUME NEW c \in Cell \ closedSet, <<c, k>> \in RiskyWave(search)
               PROVE  \E w \in openSet : gScore[w] + ToAim(w) <= VeryHighCost + k + ToAim(c)
    BY <2>0
  <2>2. CASE c \in Risky(search) /\ k = 1
    BY <1>2, <2>2
  <2>3. CASE \E p \in Cell : /\ <<p, k - 1>> \in RiskyWave(search)
                             /\ MayStep(search, p, c) /\ search.vacated[c] <= k - 1
    <3> HIDE DEF T
    <3> QED BY <1>3, <1>5, <2>3
  <2> QED BY <1>1, <2>0, <2>2, <2>3
<1>6. \A k \in 0 .. Area : k \in T
  <2> HIDE DEF T
  <2> QED BY <1>0, <1>4, <1>5, BoundedInduction
<1> QED BY <1>6

\* The way that the search has found to an open cell is a way of the waves.
LEMMA OpenCellsAreWet ==
    ASSUME BoardAssumption, AStarAssumption, CostsAssumption, OnTheWay,
           NEW c \in openSet
    PROVE  /\ gScore[c] < VeryHighCost =>
                \E j \in 0 .. gScore[c] : <<c, j>> \in SafeWave(search)
           /\ gScore[c] >= VeryHighCost /\ c \notin Flooded(SafeWave(search)) =>
                \E j \in 0 .. gScore[c] - VeryHighCost : <<c, j>> \in RiskyWave(search)
<1> DEFINE p == cameFrom[c]
<1>0. /\ Area \in Nat /\ Area >= 1 /\ VeryHighCost \in Nat /\ Area < VeryHighCost
      /\ search \in ScenarioType /\ search.start \in Cell /\ NoCell \notin Cell
      /\ IInv /\ Counted /\ Charged
      /\ c \in Cell /\ c \in seen /\ gScore[c] \in Nat
      /\ closedSet \subseteq Cell
      /\ gScore \in [Cell -> Nat] /\ turns \in [Cell -> Nat]
      /\ search.vacated \in [Cell -> Nat]
  BY AreaType DEF AStarAssumption, CostsAssumption, OnTheWay, IInv, TypeOK,
                  ScenarioType, seen
<1>1. \A q, d \in Cell : \A i \in 0 .. Area - 1 :
        /\ <<q, i>> \in SafeWave(search) /\ MayStep(search, q, d)
        /\ search.vacated[d] <= i
        => \E j \in 0 .. i + 1 : <<d, j>> \in SafeWave(search)
  BY <1>0, SafeFacts
<1>2. \A q, d \in Cell : \A i \in 0 .. Area - 1 :
        /\ <<q, i>> \in RiskyWave(search) /\ MayStep(search, q, d) /\ search.vacated[d] <= i
        /\ d \notin Flooded(SafeWave(search))
        => \E j \in 0 .. i + 1 : <<d, j>> \in RiskyWave(search)
  BY <1>0, RiskyFacts
<1>3. CASE c = search.start
  <2>1. gScore[c] = 0 /\ <<c, 0>> \in SafeWave(search)
    BY <1>0, <1>3, SafeFacts DEF Charged
  <2> QED BY <1>0, <2>1
<1>4. CASE c # search.start
  <2>1. /\ p \in closedSet /\ p \in Cell /\ p \in seen /\ Exact(p)
        /\ gScore[c] = gScore[p] + 1 + Charge(p, c)
    BY <1>0, <1>4 DEF OnTheWay, IInv, SearchTree, Charged, seen
  <2>2. /\ IsAdjacent(p, c) /\ ~(p = search.start /\ c = search.neck)
        /\ turns[c] = turns[p] + 1 /\ search.vacated[c] < turns[c] - 1
    BY <1>0, <2>1 DEF IInv, ArrivalsSafe
  <2>3. /\ turns[p] \in Nat /\ turns[p] >= 1 /\ turns[p] - 1 <= Area - 1
        /\ gScore[p] \in Nat
        /\ gScore[p] = IF gScore[p] < VeryHighCost THEN turns[p] - 1
                       ELSE turns[p] - 1 + VeryHighCost
    BY <1>0, <2>1, ScoreTellsTurn
  <2>4. search.vacated[c] \in Nat /\ search.vacated[c] <= turns[p] - 1
    BY <1>0, <2>2, <2>3
  <2>5. CASE Charge(p, c) = 0
    <3>1. MayStep(search, p, c)
      BY <1>0, <2>2, <2>5 DEF Charge, MayStep
    <3>2. gScore[c] = gScore[p] + 1
      BY <2>1, <2>3, <2>5
    <3>3. CASE gScore[p] < VeryHighCost
      <4> PICK k \in 0 .. Area - 1 : k = gScore[p]
        BY <1>0, <2>3, <3>3
      <4>1. <<p, k>> \in SafeWave(search) /\ search.vacated[c] <= k
        BY <2>1, <2>3, <2>4, <3>3 DEF Exact
      <4>2. PICK j \in 0 .. k + 1 : <<c, j>> \in SafeWave(search)
        BY <1>0, <1>1, <2>1, <3>1, <4>1
      <4>3. gScore[c] < VeryHighCost /\ j \in 0 .. gScore[c]
        BY <1>0, <3>2
      <4> QED BY <1>0, <4>2, <4>3
    <3>4. CASE ~(gScore[p] < VeryHighCost)
      <4> PICK k \in 0 .. Area - 1 : k = gScore[p] - VeryHighCost
        BY <1>0, <2>3, <3>4
      <4>1. <<p, k>> \in RiskyWave(search) /\ search.vacated[c] <= k
        BY <1>0, <2>1, <2>3, <2>4, <3>4 DEF Exact
      <4>2. /\ gScore[c] - VeryHighCost = k + 1 /\ ~(gScore[c] < VeryHighCost)
        BY <1>0, <2>3, <3>2, <3>4
      <4>3. c \notin Flooded(SafeWave(search)) =>
              \E j \in 0 .. k + 1 : <<c, j>> \in RiskyWave(search)
        BY <1>0, <1>2, <2>1, <3>1, <4>1
      <4> QED BY <4>2, <4>3
    <3> QED BY <3>3, <3>4
  <2>6. CASE Charge(p, c) # 0
    <3>1. p = search.start /\ c \in search.danger /\ Charge(p, c) = VeryHighCost
      BY <2>6 DEF Charge
    <3>2. gScore[p] = 0 /\ turns[p] = 1
      BY <1>0, <3>1 DEF Charged, IInv, SearchTree
    <3>3. gScore[c] = 1 + VeryHighCost
      BY <1>0, <2>1, <3>1, <3>2
    <3>4. search.vacated[c] = 0
      BY <2>4, <3>2
    <3>5. c \notin Flooded(SafeWave(search)) => <<c, 1>> \in RiskyWave(search)
      <4> SUFFICES ASSUME c \notin Flooded(SafeWave(search))
                   PROVE  <<c, 1>> \in RiskyWave(search)
        OBVIOUS
      <4>1. c \in Risky(search)
        BY <2>2, <3>1, <3>4 DEF Risky
      <4> QED BY <1>0, <4>1, RiskyFacts
    <3>6. ~(gScore[c] < VeryHighCost) /\ 1 \in 0 .. gScore[c] - VeryHighCost
      BY <1>0, <3>3
    <3> QED BY <3>5, <3>6
  <2> QED BY <2>5, <2>6
<1> QED BY <1>3, <1>4

\* So the cell that is expanded next has the right score already.
LEMMA LowestIsExact ==
    ASSUME BoardAssumption, AStarAssumption, CostsAssumption, OnTheWay,
           NEW c \in Cell, Lowest(c)
    PROVE  Exact(c)
<1>0. /\ Area \in Nat /\ VeryHighCost \in Nat /\ Area < VeryHighCost
      /\ search \in ScenarioType /\ IInv /\ Counted /\ Charged /\ onBoard
      /\ c \in openSet /\ c \in seen /\ c \in Cell \ closedSet
      /\ openSet \subseteq seen /\ openSet \subseteq Cell
      /\ gScore \in [Cell -> Nat]
  BY AreaType DEF AStarAssumption, CostsAssumption, OnTheWay, IInv, TypeOK,
                  SearchTree, Lowest, seen
<1>1. /\ gScore[c] \in Nat /\ ToAim(c) \in Nat
      /\ gScore[c] < VeryHighCost => gScore[c] <= Area
      /\ gScore[c] - VeryHighCost <= Area
  BY <1>0, ScoreTellsTurn, ToAimFacts
<1>2. \A w \in openSet : gScore[c] + ToAim(c) <= gScore[w] + ToAim(w)
  <2> SUFFICES ASSUME NEW w \in openSet
               PROVE  gScore[c] + ToAim(c) <= gScore[w] + ToAim(w)
    OBVIOUS
  <2>1. FScore(c) <= FScore(w)
    BY DEF Lowest
  <2>2. FScore(c) = gScore[c] + ToAim(c) /\ FScore(w) = gScore[w] + ToAim(w)
    BY <1>0, FScoreOf
  <2> QED BY <2>1, <2>2
<1>3. ASSUME NEW k \in 0 .. Area, <<c, k>> \in SafeWave(search)
      PROVE  gScore[c] <= k
  <2>1. PICK w \in openSet : gScore[w] + ToAim(w) <= k + ToAim(c)
    BY <1>0, <1>3, SafePromise
  <2>2. gScore[w] \in Nat /\ ToAim(w) \in Nat
    BY <1>0, ToAimFacts
  <2> QED BY <1>1, <1>2, <2>1, <2>2
<1>4. ASSUME NEW k \in 0 .. Area, <<c, k>> \in RiskyWave(search)
      PROVE  gScore[c] <= VeryHighCost + k
  <2>1. PICK w \in openSet : gScore[w] + ToAim(w) <= VeryHighCost + k + ToAim(c)
    BY <1>0, <1>4, RiskyPromise
  <2>2. gScore[w] \in Nat /\ ToAim(w) \in Nat
    BY <1>0, ToAimFacts
  <2> QED BY <1>0, <1>1, <1>2, <2>1, <2>2
<1>5. CASE gScore[c] < VeryHighCost
  <2>1. PICK j \in 0 .. gScore[c] : <<c, j>> \in SafeWave(search)
    BY <1>0, <1>5, OpenCellsAreWet
  <2>2. j \in 0 .. Area
    BY <1>0, <1>1, <1>5
  <2>3. gScore[c] <= j
    BY <1>3, <2>1, <2>2
  <2>4. gScore[c] = j
    BY <1>1, <2>3
  <2> QED BY <1>5, <2>1, <2>4 DEF Exact
<1>6. CASE ~(gScore[c] < VeryHighCost)
  <2>1. c \notin Flooded(SafeWave(search))
    <3> SUFFICES ASSUME c \in Flooded(SafeWave(search)) PROVE FALSE
      OBVIOUS
    <3>1. SafeWave(search) \subseteq Cell \X (0 .. Area)
      BY <1>0, SafeFacts
    <3>2. PICK k \in 0 .. Area : <<c, k>> \in SafeWave(search)
      BY <3>1, FloodedAt
    <3>3. gScore[c] <= k
      BY <1>3, <3>2
    <3> QED BY <1>0, <1>1, <1>6, <3>3
  <2>2. PICK j \in 0 .. gScore[c] - VeryHighCost : <<c, j>> \in RiskyWave(search)
    BY <1>0, <1>1, <1>6, <2>1, OpenCellsAreWet
  <2>3. j \in 0 .. Area
    BY <1>0, <1>1
  <2>4. gScore[c] <= VeryHighCost + j
    BY <1>4, <2>2, <2>3
  <2>5. gScore[c] - VeryHighCost = j
    BY <1>0, <1>1, <1>6, <2>4
  <2> QED BY <1>6, <2>2, <2>5 DEF Exact
<1> QED BY <1>5, <1>6

\* The state in which shortestPath enters its loop,
LEMMA InitExactInv == ASSUME BoardAssumption, Init PROVE ExactInv
<1>1. /\ search.start \in Cell /\ search \in ScenarioType
      /\ openSet = {search.start} /\ closedSet = {} /\ seen = {search.start}
      /\ gScore[search.start] = 0 /\ turns[search.start] = 1
      /\ safety = 0 /\ pc = "search" /\ cur = NoCell
  <2>1. search \in ScenarioType
    BY AStarAssumption DEF Init
  <2> QED BY <2>1 DEF Init, ScenarioType, seen
<1>2. Counted
  BY <1>1, FS_EmptySet DEF Counted
<1>3. Charged
  BY <1>1 DEF Charged
<1> QED BY <1>1, <1>2, <1>3 DEF ExactInv, Relaxed, Outcome, ClosedExact

\* each cell expanded,
LEMMA ExpandExact ==
    ASSUME BoardAssumption, AStarAssumption, CostsAssumption,
           IInv, ExactInv, NEW x \in Cell, Expand(x)
    PROVE  ExactInv'
<1>1. Counted' /\ Charged' /\ Relaxed'
  BY ExpandScores DEF ExactInv
<1>2. /\ search' = search /\ closedSet' = closedSet \cup {x}
      /\ pc = "search" /\ pc' = "search" /\ cur' = cur /\ cur = NoCell
      /\ x # search.goal
  BY DEF Expand, pathVars, IInv, WalkInv
<1>3. Outcome'
  BY <1>2 DEF ExactInv, Outcome
<1>4. \A c \in closedSet' : c \in Cell /\ gScore'[c] = gScore[c]
  <2> DEFINE better == {n \in Reached(x) : TentativeGScore(x, n) < gScore[n]}
  <2>1. \A c \in closedSet' : c \in Cell /\ c \notin better
    BY <1>2 DEF Reached, IInv, TypeOK
  <2>2. gScore' = [n \in Cell |-> IF n \in better THEN TentativeGScore(x, n)
                                  ELSE gScore[n]]
    BY DEF Expand
  <2> HIDE DEF better
  <2> QED BY <2>1, <2>2
<1>5. ASSUME onBoard' PROVE ClosedExact'
  <2>1. onBoard
    BY <1>2, <1>5 DEF onBoard
  <2>2. OnTheWay /\ Lowest(x)
    BY <2>1 DEF OnTheWay, ExactInv, ClosedExact, Expand
  <2>3. \A c \in closedSet' : Exact(c)
    BY <1>2, <2>2, LowestIsExact DEF OnTheWay
  <2>4. \A c \in closedSet' : Exact(c)'
    BY <1>2, <1>4, <2>3 DEF Exact
  <2> QED BY <1>2, <2>4 DEF ClosedExact
<1> QED BY <1>1, <1>3, <1>5 DEF ExactInv

\* the goal when it is reached, and the walk back keep the scores exact.
LEMMA OtherExact ==
    ASSUME BoardAssumption, AStarAssumption, CostsAssumption,
           IInv, ExactInv, ReachGoal \/ WalkBack \/ ReturnPath \/ ReturnNone
    PROVE  ExactInv'
<1>1. /\ search' = search /\ openSet' = openSet /\ closedSet' = closedSet
      /\ cameFrom' = cameFrom /\ gScore' = gScore /\ turns' = turns
      /\ safety' = safety /\ seen' = seen
  BY DEF ReachGoal, WalkBack, ReturnPath, ReturnNone, mapVars, seen
<1>2. Counted' /\ Charged' /\ Relaxed'
  BY <1>1 DEF ExactInv, Counted, Charged, Charge, Relaxed, GetNeighbors, IndexIsSafe
<1>3. \A c : Exact(c)' <=> Exact(c)
  BY <1>1 DEF Exact
<1>4. onBoard' => ClosedExact'
  <2> SUFFICES ASSUME onBoard', cur' # NoCell PROVE Exact(search.goal)
    BY <1>1, <1>3 DEF ExactInv, ClosedExact, onBoard
  <2>1. onBoard
    BY <1>1 DEF onBoard
  <2>2. CASE ReachGoal
    <3>1. OnTheWay /\ Lowest(search.goal) /\ search.goal \in Cell
      BY <2>1, <2>2 DEF OnTheWay, ExactInv, ClosedExact, ReachGoal, onBoard
    <3> QED BY <3>1, LowestIsExact
  <2>3. CASE WalkBack \/ ReturnPath \/ ReturnNone
    <3>1. cur # NoCell
      BY <2>3 DEF WalkBack, ReturnPath, ReturnNone, pathVars, IInv, WalkInv
    <3> QED BY <2>1, <3>1 DEF ExactInv, ClosedExact
  <2> QED BY <2>2, <2>3
<1>5. Outcome'
  <2>1. CASE ReachGoal
    BY <1>1, <2>1 DEF ExactInv, Outcome, ReachGoal, Lowest, IInv, WalkInv
  <2>2. CASE WalkBack
    <3>1. /\ cur # NoCell /\ cur \in seen /\ cur \in Cell /\ pc' = "walk"
          /\ cur' = cameFrom[cur] /\ cur' # NoCell /\ first' = cur
          /\ first # NoCell => cameFrom[first] = cur
      BY <2>2 DEF WalkBack, IInv, WalkInv, TypeOK
    <3>2. /\ search.goal \in openSet /\ search.goal \notin closedSet
          /\ first = NoCell => cur = search.goal
          /\ first # NoCell =>
                /\ first \in seen
                /\ gScore[first] < VeryHighCost <=> gScore[search.goal] < VeryHighCost
      BY <3>1 DEF ExactInv, Outcome
    <3>3. gScore[cur] < VeryHighCost <=> gScore[search.goal] < VeryHighCost
      <4>1. CASE first = NoCell
        BY <3>2, <4>1
      <4>2. CASE first # NoCell
        <5>1. /\ first \in seen \ {search.start} /\ first \in Cell
              /\ cur # search.start /\ cameFrom[first] = cur
          BY <3>1, <3>2, <4>2 DEF IInv, SearchTree, TypeOK
        <5>2. gScore[first] = gScore[cur] + 1 + Charge(cur, first)
              /\ Charge(cur, first) = 0
          BY <5>1 DEF ExactInv, Charged, Charge
        <5>3. /\ VeryHighCost \in Nat /\ Area \in Nat /\ Area < VeryHighCost
              /\ turns[cur] \in Nat /\ turns[cur] >= 1
              /\ gScore[cur] \in Nat
              /\ gScore[cur] = IF gScore[cur] < VeryHighCost THEN turns[cur] - 1
                               ELSE turns[cur] - 1 + VeryHighCost
              /\ cur \in closedSet => turns[cur] - 1 <= Area - 1
          BY <3>1, ScoreTellsTurn, AreaType DEF ExactInv
        <5>4. cur \in closedSet
          BY <5>1 DEF IInv, SearchTree
        <5>5. gScore[first] < VeryHighCost <=> gScore[cur] < VeryHighCost
          BY <5>2, <5>3, <5>4
        <5> QED BY <3>2, <4>2, <5>5
      <4> QED BY <4>1, <4>2
    <3>4. cur # NoCell /\ cur \in seen
      BY <3>1
    <3> QED BY <1>1, <3>1, <3>2, <3>3, <3>4 DEF Outcome
  <2>3. CASE ReturnPath
    BY <1>1, <2>3 DEF ExactInv, Outcome, ReturnPath, pathVars, IInv, WalkInv
  <2>4. CASE ReturnNone
    <3>1. openSet = {}
      <4>1. safety <= Area /\ safety \in Nat /\ Area \in Nat
        BY CellsCounted DEF ExactInv, IInv, TypeOK
      <4> QED BY <2>4, <4>1 DEF ReturnNone, CostsAssumption, AStarAssumption
    <3> QED BY <1>1, <2>4, <3>1 DEF ExactInv, Outcome, ReturnNone, pathVars, IInv, WalkInv
  <2> QED BY <2>1, <2>2, <2>3, <2>4
<1> QED BY <1>2, <1>4, <1>5 DEF ExactInv

\* Every score that a cell is closed with is exact.
THEOREM ScoresAreExact == Spec => [](IInv /\ ExactInv)
<1>1. Init => ExactInv
  BY InitExactInv, BoardAssumption
<1>2. ASSUME IInv, ExactInv, [Next]_vars PROVE ExactInv'
  <2>1. ASSUME NEW c \in Cell, Expand(c) PROVE ExactInv'
    BY <1>2, <2>1, ExpandExact, BoardAssumption, AStarAssumption, CostsAssumption
  <2>2. CASE ReachGoal \/ WalkBack \/ ReturnPath \/ ReturnNone
    BY <1>2, <2>2, OtherExact, BoardAssumption, AStarAssumption, CostsAssumption
  <2>3. CASE UNCHANGED vars
    <3>1. /\ search' = search /\ openSet' = openSet /\ closedSet' = closedSet
          /\ cameFrom' = cameFrom /\ gScore' = gScore /\ turns' = turns
          /\ safety' = safety /\ seen' = seen
          /\ pc' = pc /\ cur' = cur /\ first' = first
      BY <2>3 DEF vars, mapVars, pathVars, seen
    <3>2. Counted' /\ Charged' /\ Relaxed' /\ Outcome'
      BY <1>2, <3>1 DEF ExactInv, Counted, Charged, Charge, Relaxed,
                        GetNeighbors, IndexIsSafe, Outcome
    <3>3. onBoard' => ClosedExact'
      BY <1>2, <3>1 DEF ExactInv, ClosedExact, Exact, onBoard
    <3> QED BY <3>2, <3>3 DEF ExactInv
  <2> QED BY <1>2, <2>1, <2>2, <2>3 DEF Next
<1> QED BY <1>1, <1>2, Invariance, PTL DEF Spec

\* Once the open set is empty, the waves come to no cell that was not closed.
LEMMA NoneIsRight ==
    ASSUME BoardAssumption, AStarAssumption, CostsAssumption,
           IInv, ExactInv, onBoard, openSet = {}
    PROVE  /\ search.goal \notin Flooded(SafeWave(search))
           /\ search.goal \notin Flooded(RiskyWave(search))
<1>1. OnTheWay /\ search \in ScenarioType /\ search.goal \in Cell \ closedSet
  BY DEF OnTheWay, ExactInv, ClosedExact, Outcome, IInv, TypeOK, onBoard
<1>2. /\ SafeWave(search) \subseteq Cell \X (0 .. Area)
      /\ RiskyWave(search) \subseteq Cell \X (0 .. Area)
  BY <1>1, SafeFacts, RiskyFacts
<1>3. \A k \in 0 .. Area : <<search.goal, k>> \notin SafeWave(search)
  BY <1>1, SafePromise
<1>4. \A k \in 0 .. Area : <<search.goal, k>> \notin RiskyWave(search)
  BY <1>1, RiskyPromise
<1> QED BY <1>2, <1>3, <1>4, FloodedAt

\* What a path that is returned says of the waves.
LEMMA PathIsRight ==
    ASSUME BoardAssumption, AStarAssumption, CostsAssumption,
           IInv, ExactInv, onBoard, found, size = turns[search.goal] - 1
    PROVE  /\ gScore[search.goal] < VeryHighCost =>
                <<search.goal, size>> \in SafeWave(search)
           /\ ~(gScore[search.goal] < VeryHighCost) =>
                <<search.goal, size>> \in RiskyWave(search)
           /\ search.goal \in Flooded(SafeWave(search)) <=>
                gScore[search.goal] < VeryHighCost
           /\ search.goal \in Flooded(RiskyWave(search)) <=>
                ~(gScore[search.goal] < VeryHighCost)
<1> DEFINE g == search.goal
<1>1. g \in seen /\ g \in Cell /\ Exact(g) /\ search \in ScenarioType
  BY DEF ExactInv, ClosedExact, Outcome, found, seen, onBoard, IInv, TypeOK
<1>2. /\ VeryHighCost \in Nat /\ gScore[g] \in Nat /\ turns[g] \in Nat
      /\ turns[g] >= 1 /\ turns[g] - 1 <= Area /\ Area \in Nat
      /\ gScore[g] = IF gScore[g] < VeryHighCost THEN turns[g] - 1
                     ELSE turns[g] - 1 + VeryHighCost
  BY <1>1, ScoreTellsTurn, AreaType DEF ExactInv
<1>3. /\ SafeWave(search) \subseteq Cell \X (0 .. Area)
      /\ RiskyWave(search) \subseteq Cell \X (0 .. Area)
      /\ Flooded(RiskyWave(search)) \cap Flooded(SafeWave(search)) = {}
  BY <1>1, SafeFacts, RiskyFacts
<1>4. CASE gScore[g] < VeryHighCost
  <2>1. <<g, size>> \in SafeWave(search) /\ size \in 0 .. Area
    BY <1>1, <1>2, <1>4 DEF Exact
  <2>2. g \in Flooded(SafeWave(search))
    BY <1>1, <1>3, <2>1, FloodedAt
  <2> QED BY <1>3, <1>4, <2>1, <2>2
<1>5. CASE ~(gScore[g] < VeryHighCost)
  <2>1. gScore[g] - VeryHighCost = size /\ size \in 0 .. Area
    BY <1>2, <1>5
  <2>2. <<g, size>> \in RiskyWave(search)
    BY <1>1, <1>5, <2>1 DEF Exact
  <2>3. g \in Flooded(RiskyWave(search))
    BY <1>1, <1>3, <2>1, <2>2, FloodedAt
  <2> QED BY <1>3, <1>5, <2>2, <2>3
<1> QED BY <1>4, <1>5

\* On every board, for every occupancy and whatever the order among equal
\* scores, shortestPath finds a path to a goal on the board exactly if one of
\* the waves comes there, and the path has the size that the wave says.
THEOREM SizesAreExact == Spec => []SizeIsExact
<1>1. ASSUME IInv, ExactInv, PathIsLegal PROVE SizeIsExact
  <2> SUFFICES ASSUME pc = "done", onBoard
               PROVE  IF search.goal \in Flooded(SafeWave(search))
                      THEN found /\ <<search.goal, size>> \in SafeWave(search)
                      ELSE IF search.goal \in Flooded(RiskyWave(search))
                      THEN found /\ <<search.goal, size>> \in RiskyWave(search)
                      ELSE ~found
    BY DEF SizeIsExact
  <2>1. CASE found
    <3>1. size = turns[search.goal] - 1
      BY <1>1, <2>1 DEF PathIsLegal
    <3> QED
      BY <1>1, <2>1, <3>1, PathIsRight, BoardAssumption, AStarAssumption, CostsAssumption
  <2>2. CASE ~found
    <3>1. openSet = {}
      BY <1>1, <2>2 DEF ExactInv, Outcome, found
    <3> QED
      BY <1>1, <2>2, <3>1, NoneIsRight, BoardAssumption, AStarAssumption, CostsAssumption
  <2> QED BY <2>1, <2>2
<1>2. IInv /\ ExactInv /\ PathIsLegal => SizeIsExact
  BY <1>1
<1> QED BY <1>2, ScoresAreExact, PathsAreLegal, PTL

\* A path that begins next to an equal or bigger snake's head is returned only
\* if every path does: the penalty of one first step outweighs every detour.
THEOREM DangerIsAvoided == Spec => []AvoidsDanger
<1>1. ASSUME IInv, ExactInv, PathIsLegal PROVE AvoidsDanger
  <2> SUFFICES ASSUME found, onBoard, first \in search.danger
               PROVE  search.goal \notin Flooded(SafeWave(search))
    BY DEF AvoidsDanger
  <2>1. /\ cur = search.start /\ size = turns[search.goal] - 1
        /\ first \in Cell /\ first # NoCell
    BY <1>1, AStarAssumption DEF PathIsLegal, IInv, TypeOK, ScenarioType
  <2>2. /\ cameFrom[first] = search.start /\ first # search.start
        /\ first \in seen
        /\ gScore[first] < VeryHighCost <=> gScore[search.goal] < VeryHighCost
    <3>1. cur # NoCell
      BY DEF found
    <3>2. cameFrom[first] = search.start
      BY <1>1, <2>1, <3>1 DEF IInv, WalkInv
    <3>3. search.start # NoCell
      BY <2>1, <3>1
    <3> QED BY <1>1, <2>1, <3>1, <3>2, <3>3 DEF IInv, SearchTree, ExactInv, Outcome
  <2>3. gScore[first] = 0 + 1 + VeryHighCost
    <3>1. Charge(search.start, first) = VeryHighCost
      BY DEF Charge
    <3> QED BY <1>1, <2>2, <3>1 DEF ExactInv, Charged
  <2>4. ~(gScore[search.goal] < VeryHighCost)
    BY <2>2, <2>3, AStarAssumption
  <2> QED
    BY <1>1, <2>1, <2>4, PathIsRight, BoardAssumption, AStarAssumption, CostsAssumption
<1>2. IInv /\ ExactInv /\ PathIsLegal => AvoidsDanger
  BY <1>1
<1> QED BY <1>2, ScoresAreExact, PathsAreLegal, PTL

HIDE AStarAssumption

-----------------------------------------------------------------------------
(* bestFood (BestFood), provided that no path is shorter than the distance *)

(* The inductive invariant *)

\* Of the foods looked at, best is the closest that is mine.
BestSoFar ==
    /\ best # NoFood => Mine(best)
    /\ \A f \in Food \ left :
          /\ Mine(f)
          /\ ~(raceAt = "enemies" /\ f = food)
          => best # NoFood /\ race.myPath[best] <= race.myPath[f]

\* What is left when the search is over is too far.
DoneLooking ==
    raceAt = "done" => \A f \in left : TooFar(f)

\* The food being raced for beats best, and the enemies dismissed lose it.
RaceSoFar ==
    raceAt = "enemies" =>
        /\ food \in Food \ left
        /\ Improves(food)
        /\ \A e \in Enemy \ rivals : ~EnemyWillWin(e, food)

FoodInv == FoodTypeOK /\ BestSoFar /\ DoneLooking /\ RaceSoFar

\* What RaceAssumption says of one race: distances and paths are numbers, and
\* no path is shorter than the distance.
LEMMA RaceFacts ==
    ASSUME NEW r \in Race
    PROVE  /\ r.toMe \in [Food -> Nat]
           /\ r.myPath \in [Food -> Nat]
           /\ r.toEnemy \in [Enemy -> [Food -> Nat]]
           /\ r.enemyPath \in [Enemy -> [Food -> Nat]]
           /\ r.myLength \in Nat
           /\ r.enemyLength \in [Enemy -> Nat]
           /\ \A f \in Food : r.myPath[f] # 0 => r.toMe[f] <= r.myPath[f]
           /\ \A e \in Enemy : \A f \in Food :
                r.enemyPath[e][f] # 0 => r.toEnemy[e][f] <= r.enemyPath[e][f]
BY RaceAssumption DEF RaceType

\* An enemy that is further from the food than my path is long does not win,
\* nor does one that is no closer than such an enemy.
LEMMA FarEnemyLoses ==
    ASSUME FoodTypeOK, NEW f \in Food, NEW e \in Enemy,
           race.toEnemy[e][f] > race.myPath[f]
    PROVE  ~EnemyWillWin(e, f)
<1>1. /\ race.myPath[f] \in Nat /\ race.enemyPath[e][f] \in Nat
      /\ race.toEnemy[e][f] \in Nat
      /\ race.enemyPath[e][f] # 0 => race.toEnemy[e][f] <= race.enemyPath[e][f]
  BY RaceFacts DEF FoodTypeOK
<1>2. race.enemyPath[e][f] # 0 => race.enemyPath[e][f] > race.myPath[f]
  BY <1>1
<1> QED BY <1>1, <1>2 DEF EnemyWillWin

\* Before the loop over the foods (movement.cpp:229-240) nothing is claimed.
THEOREM FoodInitInv == FoodInit => FoodInv
BY RaceAssumption
   DEF FoodInit, FoodInv, FoodTypeOK, BestSoFar, DoneLooking, RaceSoFar

\* Every turn of the two loops (movement.cpp:242-317) keeps the best food seen
\* the best: StopLooking and TakeFood leave the loops early, and what they
\* skip is further away than what was found.
THEOREM FoodStep == FoodInv /\ [FoodNext]_foodVars => FoodInv'
<1> SUFFICES ASSUME FoodInv, [FoodNext]_foodVars PROVE FoodInv'
  OBVIOUS
<1> USE DEF FoodInv
<1> USE RaceAssumption
<1>1. CASE StopLooking
  <2>1. FoodTypeOK'
    BY <1>1 DEF StopLooking, FoodTypeOK
  <2>2. BestSoFar'
    BY <1>1 DEF StopLooking, BestSoFar, Mine, EnemyWillWin, FoodTypeOK
  <2>3. \A f \in left : TooFar(f)
    <3> SUFFICES ASSUME NEW f \in left PROVE TooFar(f)
      OBVIOUS
    <3>1. PICK g \in Nearest(left, race.toMe) : TooFar(g)
      BY <1>1 DEF StopLooking
    <3>2. HasBest /\ race.toMe[g] <= race.toMe[f]
      BY <3>1 DEF Nearest, TooFar
    <3>3. /\ race.toMe[f] \in Nat /\ race.toMe[g] \in Nat
          /\ race.myPath[best] \in Nat
      BY RaceFacts, <3>2 DEF FoodTypeOK, Nearest, HasBest
    <3> QED BY <3>1, <3>2, <3>3 DEF TooFar
  <2>4. DoneLooking'
    BY <1>1, <2>3 DEF StopLooking, DoneLooking, TooFar, HasBest
  <2>5. RaceSoFar'
    BY <1>1 DEF StopLooking, RaceSoFar
  <2> QED BY <2>1, <2>2, <2>4, <2>5
<1>2. CASE PassOver
  <2> PICK f \in Nearest(left, race.toMe) :
        ~Improves(f) /\ left' = left \ {f}
    BY <1>2 DEF PassOver
  <2> f \in left /\ f \in Food
    BY DEF Nearest, FoodTypeOK
  <2>1. FoodTypeOK'
    BY <1>2 DEF PassOver, FoodTypeOK
  <2>2. Mine(f) => best # NoFood /\ race.myPath[best] <= race.myPath[f]
    <3>1. /\ race.myPath[f] \in Nat
          /\ best # NoFood => race.myPath[best] \in Nat
      BY RaceFacts DEF FoodTypeOK
    <3> QED BY <3>1 DEF Improves, HasBest, Mine
  <2>3. BestSoFar'
    BY <1>2, <2>2 DEF PassOver, BestSoFar, Mine, EnemyWillWin
  <2>4. DoneLooking' /\ RaceSoFar'
    BY <1>2 DEF PassOver, DoneLooking, RaceSoFar
  <2> QED BY <2>1, <2>3, <2>4
<1>3. CASE LookAtEnemies
  <2> PICK f \in Nearest(left, race.toMe) :
        Improves(f) /\ left' = left \ {f} /\ food' = f
    BY <1>3 DEF LookAtEnemies
  <2> f \in left /\ f \in Food
    BY DEF Nearest, FoodTypeOK
  <2>1. FoodTypeOK'
    BY <1>3 DEF LookAtEnemies, FoodTypeOK
  <2>2. BestSoFar'
    BY <1>3 DEF LookAtEnemies, BestSoFar, Mine, EnemyWillWin
  <2>3. DoneLooking'
    BY <1>3 DEF LookAtEnemies, DoneLooking
  <2>4. RaceSoFar'
    BY <1>3 DEF LookAtEnemies, RaceSoFar, Improves, HasBest
  <2> QED BY <2>1, <2>2, <2>3, <2>4
<1>4. CASE EnemyLoses
  <2> PICK e \in NextRivals :
        ~EnemyWillWin(e, food) /\ rivals' = rivals \ {e}
    BY <1>4 DEF EnemyLoses
  <2>1. FoodTypeOK'
    BY <1>4 DEF EnemyLoses, FoodTypeOK
  <2>2. BestSoFar'
    BY <1>4 DEF EnemyLoses, BestSoFar, Mine, EnemyWillWin
  <2>3. DoneLooking'
    BY <1>4 DEF EnemyLoses, DoneLooking
  <2>4. RaceSoFar'
    BY <1>4 DEF EnemyLoses, RaceSoFar, Improves, HasBest, EnemyWillWin
  <2> QED BY <2>1, <2>2, <2>3, <2>4
<1>5. CASE EnemyWins
  <2>1. FoodTypeOK'
    BY <1>5 DEF EnemyWins, FoodTypeOK
  <2>2. ~Mine(food)
    BY <1>5 DEF EnemyWins, NextRivals, Nearest, Mine, FoodTypeOK
  <2>3. BestSoFar'
    BY <1>5, <2>2 DEF EnemyWins, BestSoFar, Mine, EnemyWillWin
  <2>4. DoneLooking' /\ RaceSoFar'
    BY <1>5 DEF EnemyWins, DoneLooking, RaceSoFar
  <2> QED BY <2>1, <2>3, <2>4
<1>6. CASE TakeFood
  <2> food \in Food /\ Improves(food)
    BY <1>6 DEF TakeFood, FoodTypeOK, RaceSoFar
  <2>1. FoodTypeOK'
    BY <1>6 DEF TakeFood, FoodTypeOK
  <2>2. ASSUME NEW e \in rivals PROVE ~EnemyWillWin(e, food)
    <3>1. PICK r \in NextRivals : EnemyTooFar(r)
      BY <1>6, <2>2 DEF TakeFood
    <3>2. r \in Enemy /\ e \in Enemy
      BY <3>1 DEF NextRivals, Nearest, FoodTypeOK
    <3>3. race.toEnemy[r][food] <= race.toEnemy[e][food]
      BY <3>2 DEF NextRivals, Nearest
    <3>4. /\ race.toEnemy[r][food] \in Nat /\ race.toEnemy[e][food] \in Nat
          /\ race.myPath[food] \in Nat
      BY <3>2, RaceFacts DEF FoodTypeOK
    <3>5. race.toEnemy[e][food] > race.myPath[food]
      BY <3>1, <3>3, <3>4 DEF EnemyTooFar
    <3> QED BY <3>2, <3>5, FarEnemyLoses
  <2>3. Mine(food)
    BY <1>6, <2>2 DEF TakeFood, RaceSoFar, Mine, Improves
  <2>4. ASSUME NEW f \in Food \ left, Mine(f)
        PROVE  race.myPath[food] <= race.myPath[f]
    <3>1. /\ race.myPath[f] \in Nat /\ race.myPath[food] \in Nat
          /\ best # NoFood => race.myPath[best] \in Nat
      BY RaceFacts DEF FoodTypeOK
    <3>2. f # food => best # NoFood /\ race.myPath[best] <= race.myPath[f]
      BY <2>4 DEF BestSoFar
    <3>3. best # NoFood => race.myPath[food] < race.myPath[best]
      BY DEF Improves, HasBest
    <3> QED BY <3>1, <3>2, <3>3
  <2>5. BestSoFar'
    BY <1>6, <2>3, <2>4 DEF TakeFood, BestSoFar, Mine, EnemyWillWin
  <2>6. DoneLooking' /\ RaceSoFar'
    BY <1>6 DEF TakeFood, DoneLooking, RaceSoFar
  <2> QED BY <2>1, <2>5, <2>6
<1>7. CASE UNCHANGED foodVars
  BY <1>7 DEF foodVars, FoodTypeOK, BestSoFar, DoneLooking, RaceSoFar, Mine,
              EnemyWillWin, Improves, HasBest, TooFar
<1> QED BY <1>1, <1>2, <1>3, <1>4, <1>5, <1>6, <1>7 DEF FoodNext

\* A food that is too far away cannot beat the best, since no path to it is
\* shorter than the distance.
THEOREM FoodInvSuffices == FoodInv => BestFoodIsBest
<1> SUFFICES ASSUME FoodInv, raceAt = "done" PROVE BestFoodIsBest
  BY DEF BestFoodIsBest
<1> USE DEF FoodInv
<1>1. ASSUME NEW f \in Food, Mine(f)
      PROVE  best # NoFood /\ race.myPath[best] <= race.myPath[f]
  <2>1. CASE f \in left
    <3>1. TooFar(f)
      BY <2>1 DEF DoneLooking
    <3>2. /\ best \in Food
          /\ race.myPath[best] \in Nat /\ race.myPath[f] \in Nat
          /\ race.toMe[f] \in Nat
          /\ race.toMe[f] <= race.myPath[f]
      BY <1>1, <3>1, RaceFacts DEF FoodTypeOK, TooFar, HasBest, Mine
    <3> QED BY <3>1, <3>2 DEF TooFar, HasBest
  <2>2. CASE f \notin left
    BY <1>1, <2>2 DEF BestSoFar
  <2> QED BY <2>1, <2>2
<1> QED BY <1>1 DEF BestFoodIsBest, BestSoFar

\* For any foods, enemies, distances and paths, bestFood returns the path to
\* a food that no enemy wins and to which no other such food is closer, or
\* none if there is none (movement.cpp:227-320).
THEOREM BestFoodFound == FoodSpec => []BestFoodIsBest
<1>1. FoodSpec => []FoodInv
  BY FoodInitInv, FoodStep, PTL DEF FoodSpec
<1> QED BY <1>1, FoodInvSuffices, PTL

-----------------------------------------------------------------------------
(* couldEndUpCornerAdjacentToBiggerSnake (CornerCheck) *)

\* The snakes do not change, and the verdict is on the direction asked about.
CornerInv ==
    /\ me[1] \in Cell /\ enemy[1] \in Cell
    /\ Len(me) \in Nat /\ Len(enemy) \in Nat
    /\ asked \in Direction \cup {"none"}
    /\ asked # "none" => verdict = CouldEndUpCornerAdjacent(asked)

\* The snakes are asked about before there is a verdict.
LEMMA InitCornerInv == CornerInit => CornerInv
BY CornerAssumption DEF CornerInit, CornerInv, Direction

\* The verdict on a direction is what the check says of the same position.
LEMMA CornerStep == CornerInv /\ [CornerNext]_cornerVars => CornerInv'
<1> SUFFICES ASSUME CornerInv, [CornerNext]_cornerVars PROVE CornerInv'
  OBVIOUS
<1>1. CASE CornerNext
  BY <1>1 DEF CornerNext, Ask, CornerInv, CouldEndUpCornerAdjacent, SpaceIsOpen,
              TooBig, Destinations, DangerPoints, At
<1>2. CASE UNCHANGED cornerVars
  BY <1>2 DEF cornerVars, CornerInv, CouldEndUpCornerAdjacent, SpaceIsOpen,
              TooBig, Destinations, DangerPoints, At
<1> QED BY <1>1, <1>2

\* Cells are pairs of coordinates on the board.
LEMMA CellFacts ==
    ASSUME NEW c \in Cell
    PROVE  /\ c = <<c[1], c[2]>>
           /\ c[1] \in Int /\ 0 <= c[1] /\ c[1] < Width
           /\ c[2] \in Int /\ 0 <= c[2] /\ c[2] < Height
<1>1. Width \in Int /\ Height \in Int
  BY BoardAssumption
<1>2. /\ c = <<c[1], c[2]>>
      /\ c[1] \in 0 .. Width - 1 /\ c[2] \in 0 .. Height - 1
  BY DEF Cell
<1> QED BY <1>1, <1>2

\* Wrapped coordinates are off the board.
LEMMA SizeFacts ==
    /\ Width \in Int /\ Height \in Int /\ CoordMod \in Int
    /\ CoordMod > Width + 3 /\ CoordMod > Height + 3
BY BoardAssumption, CornerAssumption

\* What a cell beyond the corner of my next cell looks like from a position.
Beyond(dir, d) ==
    LET to == CoordAfterMove(me[1], dir)
    IN /\ AbsDiff(d[1], to[1]) = 1 /\ AbsDiff(d[2], to[2]) = 1
       /\ Distance(d, me[1]) = 3
From(d) == IsAdjacent(enemy[1], d) /\ Distance(enemy[1], me[1]) = 4

\* Going up, right or down, the two destinations of the check are the cells
\* beyond the corners, if they are on the board ...
LEMMA DestinationsRight ==
    ASSUME CornerInv, NEW dir \in {"Up", "Right", "Down"}, NEW d \in Cell
    PROVE  Beyond(dir, d) <=> \E k \in {1, 2} : d = Destinations(dir)[k]
<1> DEFINE x == me[1][1]
           y == me[1][2]
<1>1. /\ x \in Int /\ 0 <= x /\ x < Width /\ y \in Int /\ 0 <= y /\ y < Height
      /\ Width \in Int /\ Height \in Int /\ CoordMod \in Int
      /\ CoordMod > Width + 3 /\ CoordMod > Height + 3
      /\ d = <<d[1], d[2]>>
      /\ d[1] \in Int /\ 0 <= d[1] /\ d[1] < Width
      /\ d[2] \in Int /\ 0 <= d[2] /\ d[2] < Height
  BY CellFacts, SizeFacts DEF CornerInv
<1> HIDE DEF x, y
<1>2. CASE dir = "Up"
  <2>1. Beyond(dir, d) <=> (d[1] = x - 1 \/ d[1] = x + 1) /\ d[2] = y - 2
    BY <1>1, <1>2 DEF Beyond, CoordAfterMove, AbsDiff, Distance, Dec, x, y
  <2>2. /\ d = Destinations(dir)[1] <=> d[1] = x - 1 /\ d[2] = y - 2
        /\ d = Destinations(dir)[2] <=> d[1] = x + 1 /\ d[2] = y - 2
    BY <1>1, <1>2 DEF Destinations, At, Wrap, x, y
  <2> QED BY <2>1, <2>2
<1>3. CASE dir = "Right"
  <2>1. Beyond(dir, d) <=> d[1] = x + 2 /\ (d[2] = y - 1 \/ d[2] = y + 1)
    BY <1>1, <1>3 DEF Beyond, CoordAfterMove, AbsDiff, Distance, Inc, x, y
  <2>2. /\ d = Destinations(dir)[1] <=> d[1] = x + 2 /\ d[2] = y - 1
        /\ d = Destinations(dir)[2] <=> d[1] = x + 2 /\ d[2] = y + 1
    BY <1>1, <1>3 DEF Destinations, At, Wrap, x, y
  <2> QED BY <2>1, <2>2
<1>4. CASE dir = "Down"
  <2>1. Beyond(dir, d) <=> (d[1] = x - 1 \/ d[1] = x + 1) /\ d[2] = y + 2
    BY <1>1, <1>4 DEF Beyond, CoordAfterMove, AbsDiff, Distance, Inc, x, y
  <2>2. /\ d = Destinations(dir)[1] <=> d[1] = x + 1 /\ d[2] = y + 2
        /\ d = Destinations(dir)[2] <=> d[1] = x - 1 /\ d[2] = y + 2
    BY <1>1, <1>4 DEF Destinations, At, Wrap, x, y
  <2> QED BY <2>1, <2>2
<1> QED BY <1>2, <1>3, <1>4

\* ... and an enemy's head is at one of the points watched for a destination
\* exactly if it can enter that cell from further away.
LEMMA PointsRight ==
    ASSUME CornerInv, NEW dir \in {"Up", "Right", "Down"}, NEW k \in {1, 2},
           NEW d \in Cell, d = Destinations(dir)[k]
    PROVE  From(d) <=> enemy[1] \in DangerPoints(dir)[k]
<1> DEFINE x == me[1][1]
           y == me[1][2]
           e == enemy[1]
<1>1. /\ x \in Int /\ 0 <= x /\ x < Width /\ y \in Int /\ 0 <= y /\ y < Height
      /\ Width \in Int /\ Height \in Int /\ CoordMod \in Int
      /\ CoordMod > Width + 3 /\ CoordMod > Height + 3
  BY CellFacts, SizeFacts DEF CornerInv
<1>2. /\ d[1] \in Int /\ 0 <= d[1] /\ d[1] < Width
      /\ d[2] \in Int /\ 0 <= d[2] /\ d[2] < Height
  BY CellFacts
<1>3. /\ e = <<e[1], e[2]>>
      /\ e[1] \in Int /\ 0 <= e[1] /\ e[1] < Width
      /\ e[2] \in Int /\ 0 <= e[2] /\ e[2] < Height
  BY CellFacts DEF CornerInv
<1>4. From(d) <=> /\ \/ AbsDiff(e[1], d[1]) = 1 /\ e[2] = d[2]
                     \/ AbsDiff(e[2], d[2]) = 1 /\ e[1] = d[1]
                  /\ AbsDiff(e[1], x) + AbsDiff(e[2], y) = 4
  BY DEF From, IsAdjacent, Distance
<1>5. \A a, b \in -3 .. 3 :
        e = At(a, b) <=> e[1] = x + a /\ e[2] = y + b
  BY <1>1, <1>3 DEF At, Wrap
<1> HIDE DEF x, y, e
<1>6. CASE dir = "Up" /\ k = 1
  <2>1. d[1] = x - 1 /\ d[2] = y - 2
    BY <1>1, <1>2, <1>6 DEF Destinations, At, Wrap, x, y
  <2>2. From(d) <=> \/ e[1] = x - 2 /\ e[2] = y - 2
                    \/ e[1] = x - 1 /\ e[2] = y - 3
    BY <1>1, <1>3, <1>4, <2>1 DEF AbsDiff
  <2> QED BY <1>1, <1>3, <1>5, <1>6, <2>2 DEF DangerPoints, e
<1>7. CASE dir = "Up" /\ k = 2
  <2>1. d[1] = x + 1 /\ d[2] = y - 2
    BY <1>1, <1>2, <1>7 DEF Destinations, At, Wrap, x, y
  <2>2. From(d) <=> \/ e[1] = x + 1 /\ e[2] = y - 3
                    \/ e[1] = x + 2 /\ e[2] = y - 2
    BY <1>1, <1>3, <1>4, <2>1 DEF AbsDiff
  <2> QED BY <1>1, <1>3, <1>5, <1>7, <2>2 DEF DangerPoints, e
<1>8. CASE dir = "Right" /\ k = 1
  <2>1. d[1] = x + 2 /\ d[2] = y - 1
    BY <1>1, <1>2, <1>8 DEF Destinations, At, Wrap, x, y
  <2>2. From(d) <=> \/ e[1] = x + 2 /\ e[2] = y - 2
                    \/ e[1] = x + 3 /\ e[2] = y - 1
    BY <1>1, <1>3, <1>4, <2>1 DEF AbsDiff
  <2> QED BY <1>1, <1>3, <1>5, <1>8, <2>2 DEF DangerPoints, e
<1>9. CASE dir = "Right" /\ k = 2
  <2>1. d[1] = x + 2 /\ d[2] = y + 1
    BY <1>1, <1>2, <1>9 DEF Destinations, At, Wrap, x, y
  <2>2. From(d) <=> \/ e[1] = x + 3 /\ e[2] = y + 1
                    \/ e[1] = x + 2 /\ e[2] = y + 2
    BY <1>1, <1>3, <1>4, <2>1 DEF AbsDiff
  <2> QED BY <1>1, <1>3, <1>5, <1>9, <2>2 DEF DangerPoints, e
<1>10. CASE dir = "Down" /\ k = 1
  <2>1. d[1] = x + 1 /\ d[2] = y + 2
    BY <1>1, <1>2, <1>10 DEF Destinations, At, Wrap, x, y
  <2>2. From(d) <=> \/ e[1] = x + 2 /\ e[2] = y + 2
                    \/ e[1] = x + 1 /\ e[2] = y + 3
    BY <1>1, <1>3, <1>4, <2>1 DEF AbsDiff
  <2> QED BY <1>1, <1>3, <1>5, <1>10, <2>2 DEF DangerPoints, e
<1>11. CASE dir = "Down" /\ k = 2
  <2>1. d[1] = x - 1 /\ d[2] = y + 2
    BY <1>1, <1>2, <1>11 DEF Destinations, At, Wrap, x, y
  <2>2. From(d) <=> \/ e[1] = x - 1 /\ e[2] = y + 3
                    \/ e[1] = x - 2 /\ e[2] = y + 2
    BY <1>1, <1>3, <1>4, <2>1 DEF AbsDiff
  <2> QED BY <1>1, <1>3, <1>5, <1>11, <2>2 DEF DangerPoints, e
<1> QED BY <1>6, <1>7, <1>8, <1>9, <1>10, <1>11

\* On every board and for any two snakes, going up, right or down is judged
\* dangerous exactly if an enemy too big to eat can come to a cell that touches
\* the corner of mine (snakelib.cpp:541-628).
THEOREM ZoneIsWatched == CornerSpec => []ZoneWatched
<1>1. ASSUME CornerInv, NEW dir \in {"Up", "Right", "Down"}
      PROVE  CouldEndUpCornerAdjacent(dir) <=> InDanger(dir)
  <2>1. InDanger(dir) <=>
          \E d \in Cell : /\ Beyond(dir, d) /\ vacated[d] = 0
                          /\ Len(enemy) >= Len(me) /\ From(d)
    BY DEF InDanger, Beyond, From
  <2>2. CouldEndUpCornerAdjacent(dir) <=>
          \E k \in {1, 2} :
             /\ ~OutOfBounds(Destinations(dir)[k])
             /\ vacated[Destinations(dir)[k]] = 0
             /\ Len(enemy) >= Len(me)
             /\ enemy[1] \in DangerPoints(dir)[k]
    BY <1>1 DEF CouldEndUpCornerAdjacent, SpaceIsOpen, TurnsUntilVacant,
                TooBig, CornerInv
  <2>3. \A k \in {1, 2} : ~OutOfBounds(Destinations(dir)[k])
                            <=> Destinations(dir)[k] \in Cell
    <3> SUFFICES ASSUME NEW k \in {1, 2}
                 PROVE  ~OutOfBounds(Destinations(dir)[k])
                          <=> Destinations(dir)[k] \in Cell
      OBVIOUS
    <3>1. \A a, b \in -2 .. 2 : /\ At(a, b) = <<At(a, b)[1], At(a, b)[2]>>
                               /\ At(a, b)[1] \in Nat /\ At(a, b)[2] \in Nat
      <4> DEFINE x == me[1][1]
                 y == me[1][2]
      <4>1. /\ x \in Int /\ 0 <= x /\ x < Width
            /\ y \in Int /\ 0 <= y /\ y < Height
            /\ Width \in Int /\ Height \in Int /\ CoordMod \in Int
            /\ CoordMod > Width + 3 /\ CoordMod > Height + 3
        BY <1>1, CellFacts, SizeFacts DEF CornerInv
      <4> SUFFICES ASSUME NEW a \in -2 .. 2, NEW b \in -2 .. 2
                   PROVE  Wrap(x + a) \in Nat /\ Wrap(y + b) \in Nat
        BY DEF At
      <4> HIDE DEF x, y
      <4>2. Wrap(x + a) \in Nat
        BY <4>1 DEF Wrap
      <4>3. Wrap(y + b) \in Nat
        BY <4>1 DEF Wrap
      <4> QED BY <4>2, <4>3
    <3>2. \E a, b \in -2 .. 2 : Destinations(dir)[k] = At(a, b)
      BY DEF Destinations
    <3> QED BY <3>1, <3>2, SizeFacts DEF OutOfBounds, Cell
  <2>4. ASSUME InDanger(dir) PROVE CouldEndUpCornerAdjacent(dir)
    <3>1. PICK d \in Cell : /\ Beyond(dir, d) /\ vacated[d] = 0
                            /\ Len(enemy) >= Len(me) /\ From(d)
      BY <2>1, <2>4
    <3>2. PICK k \in {1, 2} : d = Destinations(dir)[k]
      BY <1>1, <3>1, DestinationsRight
    <3>3. enemy[1] \in DangerPoints(dir)[k]
      BY <1>1, <3>1, <3>2, PointsRight
    <3> QED BY <2>2, <2>3, <3>1, <3>2, <3>3
  <2>5. ASSUME CouldEndUpCornerAdjacent(dir) PROVE InDanger(dir)
    <3>1. PICK k \in {1, 2} :
             /\ Destinations(dir)[k] \in Cell
             /\ vacated[Destinations(dir)[k]] = 0
             /\ Len(enemy) >= Len(me)
             /\ enemy[1] \in DangerPoints(dir)[k]
      BY <2>2, <2>3, <2>5
    <3>2. Beyond(dir, Destinations(dir)[k])
      BY <1>1, <3>1, DestinationsRight
    <3>3. From(Destinations(dir)[k])
      BY <1>1, <3>1, PointsRight
    <3> QED BY <2>1, <3>1, <3>2, <3>3
  <2> QED BY <2>4, <2>5
<1>2. CornerInv => ZoneWatched
  <2> SUFFICES ASSUME CornerInv, asked \in {"Up", "Right", "Down"}
               PROVE  verdict <=> InDanger(asked)
    BY DEF ZoneWatched
  <2> QED BY <1>1 DEF CornerInv
<1>3. CornerSpec => []CornerInv
  BY InitCornerInv, CornerStep, PTL DEF CornerSpec
<1> QED BY <1>2, <1>3, PTL

-----------------------------------------------------------------------------
(* the kill tunnel (Movement) *)

\* The sums and differences of uint32_t that the tunnel is looked through with.
LEMMA WrapsAround ==
    ASSUME BoardAssumption, NEW n \in Int, -CoordMod <= n, n < CoordMod
    PROVE  n % CoordMod = IF n < 0 THEN n + CoordMod ELSE n
BY DEF BoardAssumption

\* One cell ahead is where a move leads, and two cells ahead where two moves do,
\* as long as the first stays on the board.
LEMMA OneAhead ==
    ASSUME BoardAssumption, NEW c \in Cell, NEW d \in Direction
    PROVE  /\ Ahead(c, d, 1) = CoordAfterMove(c, d)
           /\ ~OutOfBounds(CoordAfterMove(c, d)) =>
                 /\ CoordAfterMove(c, d) \in Cell
                 /\ Ahead(c, d, 2) = CoordAfterMove(CoordAfterMove(c, d), d)
<1> PICK x \in 0 .. Width - 1, y \in 0 .. Height - 1 : c = <<x, y>>
  BY DEF Cell
<1>1. /\ x \in Int /\ y \in Int /\ Width \in Nat /\ Height \in Nat /\ CoordMod \in Nat
      /\ 0 <= x /\ x < Width /\ 0 <= y /\ y < Height /\ Width + 1 < CoordMod
      /\ Height + 1 < CoordMod
  BY DEF BoardAssumption
<1>2. ASSUME NEW z \in {x, y}, NEW i \in {1, 2}
      PROVE  /\ (z + i) % CoordMod = z + i
             /\ (z - i) % CoordMod = IF z < i THEN z - i + CoordMod ELSE z - i
  <2>1. /\ z + i \in Int /\ -CoordMod <= z + i /\ z + i < CoordMod /\ ~(z + i < 0)
        /\ z - i \in Int /\ -CoordMod <= z - i /\ z - i < CoordMod
        /\ z - i < 0 <=> z < i
    BY <1>1
  <2> QED BY <2>1, WrapsAround
<1>3. /\ (x + 1) % CoordMod = x + 1 /\ (x + 2) % CoordMod = x + 2
      /\ (y + 1) % CoordMod = y + 1 /\ (y + 2) % CoordMod = y + 2
  BY <1>2
<1>4. /\ (x - 1) % CoordMod = IF x = 0 THEN CoordMod - 1 ELSE x - 1
      /\ (y - 1) % CoordMod = IF y = 0 THEN CoordMod - 1 ELSE y - 1
      /\ x # 0 => (x - 2) % CoordMod = IF x = 1 THEN CoordMod - 1 ELSE x - 2
      /\ y # 0 => (y - 2) % CoordMod = IF y = 1 THEN CoordMod - 1 ELSE y - 2
  BY <1>1, <1>2
<1>5. CASE d = "Right"
  BY <1>1, <1>3, <1>5 DEF Ahead, CoordAfterMove, Inc, OutOfBounds, Cell
<1>6. CASE d = "Down"
  BY <1>1, <1>3, <1>6 DEF Ahead, CoordAfterMove, Inc, OutOfBounds, Cell
<1>7. CASE d = "Left"
  BY <1>1, <1>4, <1>7 DEF Ahead, CoordAfterMove, Dec, OutOfBounds, Cell
<1>8. CASE d = "Up"
  BY <1>1, <1>4, <1>8 DEF Ahead, CoordAfterMove, Dec, OutOfBounds, Cell
<1> QED BY <1>5, <1>6, <1>7, <1>8 DEF Direction

\* An open way leads to two cells in a row that are on the board and vacant.
LEMMA OpenAhead ==
    ASSUME BoardAssumption, NEW v, NEW c \in Cell, NEW d \in OpenWays(c, 2, v)
    PROVE  LET one == CoordAfterMove(c, d)
               two == CoordAfterMove(one, d)
           IN /\ d \in Direction
              /\ one \in Cell /\ v.vacated[one] = 0
              /\ two \in Cell /\ v.vacated[two] = 0
<1> DEFINE one == CoordAfterMove(c, d)
           two == CoordAfterMove(one, d)
<1>1. d \in Direction /\ IsCellOk(Ahead(c, d, 1), v) /\ IsCellOk(Ahead(c, d, 2), v)
  BY DEF OpenWays
<1>2. one = Ahead(c, d, 1)
  BY <1>1, OneAhead
<1>3. ~OutOfBounds(one) /\ v.vacated[one] = 0
  BY <1>1, <1>2 DEF IsCellOk, TurnsUntilVacant
<1>4. one \in Cell /\ two = Ahead(c, d, 2)
  BY <1>1, <1>3, OneAhead
<1>5. ~OutOfBounds(two) /\ v.vacated[two] = 0
  BY <1>1, <1>4 DEF IsCellOk, TurnsUntilVacant
<1>6. two \in Cell
  BY <1>1, <1>4, <1>5, OneAhead
<1> QED BY <1>1, <1>3, <1>4, <1>5, <1>6

\* lastDirection is one of the open ways, if there is one.
LEMMA LastWayIsOpen ==
    ASSUME NEW ways \in SUBSET Direction, ways # {}, NEW before
    PROVE  LastWay(ways, before) \in ways
<1> DEFINE Places == {i \in 1 .. 4 : LookingOrder[i] \in ways}
<1>1. Places \in SUBSET (1 .. 4) /\ Places # {}
  <2>1. \A d \in Direction : \E i \in 1 .. 4 : LookingOrder[i] = d
    <3>1. /\ LookingOrder[1] = "Up" /\ LookingOrder[2] = "Down"
          /\ LookingOrder[3] = "Left" /\ LookingOrder[4] = "Right"
      BY DEF LookingOrder
    <3> QED BY <3>1 DEF Direction
  <2> QED BY <2>1
<1>2. Max(Places) \in Places
  <2> HIDE DEF Places
  <2> QED BY <1>1, MaxIsIn
<1> QED BY <1>2 DEF LastWay, LastOpen

\* What holds in every step of the walk through the tunnel: it is on the board,
\* and when it has taken a step, the next in lastDirection is to a vacant cell.
Walks(v) ==
    {w \in [cell : Cell, path : Seq(Cell), ways : SUBSET Direction, way : Direction] :
        /\ w.ways = OpenWays(w.cell, 2, v)
        /\ w.ways # {} => w.way \in w.ways
        /\ w.path # <<>> =>
              /\ Last(w.path) = w.cell
              /\ CoordAfterMove(w.cell, w.way) \in Cell
              /\ v.vacated[CoordAfterMove(w.cell, w.way)] = 0}

\* The walk begins so,
LEMMA WalkStarts ==
    ASSUME NEW v, NEW c \in Cell
    PROVE  [cell |-> c, path |-> <<>>, ways |-> OpenWays(c, 2, v),
            way |-> LastWay(OpenWays(c, 2, v), "Up")] \in Walks(v)
<1> DEFINE ways == OpenWays(c, 2, v)
<1>1. ways \in SUBSET Direction
  BY DEF OpenWays
<1>2. ways # {} => LastWay(ways, "Up") \in ways
  <2> HIDE DEF ways
  <2> QED BY <1>1, LastWayIsOpen
<1>3. LastWay(ways, "Up") \in Direction
  <2>1. ways = {} => LastWay(ways, "Up") = "Up"
    BY DEF LastWay
  <2> QED BY <1>1, <1>2, <2>1 DEF Direction
<1>4. <<>> \in Seq(Cell)
  OBVIOUS
<1> QED BY <1>1, <1>2, <1>3, <1>4 DEF Walks

\* goes on so,
LEMMA WalkGoesOn ==
    ASSUME BoardAssumption, NEW v, NEW w \in Walks(v), Cardinality(w.ways) = 1
    PROVE  WalkOn(w, 2, v) \in Walks(v)
<1> DEFINE c == CoordAfterMove(w.cell, w.way)
           next == CoordAfterMove(c, w.way)
           ways == OpenWays(c, 2, v)
           way == LastWay(ways, w.way)
           path == Append(w.path, c)
<1>1. w.way \in OpenWays(w.cell, 2, v) /\ w.cell \in Cell /\ w.path \in Seq(Cell)
  <2>1. w.ways # {}
    BY FS_EmptySet
  <2> QED BY <2>1 DEF Walks
<1>2. /\ w.way \in Direction
      /\ c \in Cell /\ next \in Cell /\ v.vacated[next] = 0
  BY <1>1, OpenAhead
<1>3. ways \in SUBSET Direction
  BY DEF OpenWays
<1>4. ways # {} => way \in ways
  <2> HIDE DEF ways
  <2> QED BY <1>3, LastWayIsOpen
<1>5. ways = {} => way = w.way
  BY DEF LastWay
<1>6. path \in Seq(Cell) /\ Last(path) = c
  <2> HIDE DEF c
  <2> QED BY <1>1, <1>2 DEF Last
<1>7. CoordAfterMove(c, way) \in Cell /\ v.vacated[CoordAfterMove(c, way)] = 0
  <2>1. CASE ways = {}
    BY <1>2, <1>5, <2>1
  <2>2. CASE ways # {}
    <3> HIDE DEF c, way
    <3> QED BY <1>2, <1>4, <2>2, OpenAhead
  <2> QED BY <2>1, <2>2
<1>8. WalkOn(w, 2, v) = [cell |-> c, path |-> path, ways |-> ways, way |-> way]
  BY DEF WalkOn
<1> HIDE DEF c, path, way
<1>9. ways = OpenWays(c, 2, v) /\ way \in Direction
  BY <1>2, <1>3, <1>4, <1>5
<1> HIDE DEF ways
<1> QED BY <1>2, <1>3, <1>4, <1>6, <1>7, <1>8, <1>9 DEF Walks

\* and so ends so.
LEMMA WalkIsFine ==
    ASSUME BoardAssumption, NEW v, NEW head \in Cell
    PROVE  TunnelWalk(head, 2, v) \in Walks(v)
<1> DEFINE n == Width * Height
           start == [cell |-> head, path |-> <<>>, ways |-> OpenWays(head, 2, v),
                     way |-> LastWay(OpenWays(head, 2, v), "Up")]
           S == Walks(v)
           onward(w) == IF Cardinality(w.ways) # 1 THEN w ELSE WalkOn(w, 2, v)
           step == [w \in S |-> onward(w)]
           IsWalk(f) == f = [k \in 0 .. n |-> IF k = 0 THEN start ELSE onward(f[k - 1])]
           walk == CHOOSE f : IsWalk(f)
<1>1. n \in Nat
  BY DEF BoardAssumption
<1>2. start \in S
  BY WalkStarts
<1>3. step \in [S -> S]
  BY WalkGoesOn
<1>4. TunnelWalk(head, 2, v) = walk[n]
  BY DEF TunnelWalk
<1> HIDE DEF n, start, S
<1> DEFINE steps == [k \in 1 .. n |-> step]
<1>5. PICK f \in [0 .. n -> S] : Iterating(f, n, start, steps)
  <2> HIDE DEF step
  <2>1. steps \in [1 .. n -> [S -> S]]
    BY <1>3
  <2> HIDE DEF steps
  <2> QED BY <1>1, <1>2, <2>1, IterationExists
<1>6. \A k \in 1 .. n : k - 1 \in 0 .. n /\ f[k - 1] \in S /\ step[f[k - 1]] = onward(f[k - 1])
  BY <1>1
<1> HIDE DEF step, onward
<1>7. IsWalk(f)
  <2>1. \A k \in 0 .. n : f[k] = IF k = 0 THEN start ELSE onward(f[k - 1])
    <3>1. \A k \in 0 .. n : k = 0 \/ k \in 1 .. n
      BY <1>1
    <3>2. \A k \in 1 .. n : steps[k] = step
      OBVIOUS
    <3> QED BY <1>5, <1>6, <3>1, <3>2 DEF Iterating
  <2> QED BY <2>1
<1>8. IsWalk(walk)
  <2> HIDE DEF IsWalk
  <2> QED BY <1>7
<1>9. /\ walk[0] = start
      /\ \A k \in 1 .. n : walk[k] = onward(walk[k - 1])
  <2> HIDE DEF walk
  <2> QED BY <1>1, <1>8
<1> HIDE DEF walk
<1>10. \A k \in 0 .. n : walk[k] \in S
  <2> DEFINE T == {j \in 0 .. n : walk[j] \in S}
  <2>1. 0 \in T
    BY <1>1, <1>2, <1>9
  <2>2. \A k \in 1 .. n : k - 1 \in T => k \in T
    <3> SUFFICES ASSUME NEW k \in 1 .. n, walk[k - 1] \in S PROVE walk[k] \in S
      BY <1>1
    <3>1. onward(walk[k - 1]) \in S
      BY <1>3 DEF step
    <3> QED BY <1>9, <3>1
  <2>3. \A k \in 0 .. n : k \in T
    <3> HIDE DEF T
    <3> QED BY <1>1, <2>1, <2>2, BoundedInduction
  <2> QED BY <2>3
<1>11. n \in 0 .. n
  BY <1>1
<1> QED BY <1>4, <1>10, <1>11 DEF S

\* Where the walk ends after more than two steps, the next cell in lastDirection
\* is on the board and vacant, on every board and for any two snakes: Terminator
\* never searches a path to a wall or into a body (movement.cpp:130-177).
THEOREM KillTargetsAreOpen == CornerSpec => []KillTargetIsOpen
<1>1. CornerInv => KillTargetIsOpen
  <2> SUFFICES ASSUME CornerInv PROVE KillTargetIsOpen
    OBVIOUS
  <2> DEFINE walk == TunnelWalk(enemy[1], 2, view)
  <2>1. walk \in Walks(view)
    BY BoardAssumption, WalkIsFine DEF CornerInv
  <2>2. view.vacated = vacated
    BY DEF view
  <2> HIDE DEF walk
  <2>3. HasKillTarget(walk, 2) => /\ KillTarget(walk) \in Cell
                                  /\ vacated[KillTarget(walk)] = 0
    <3> SUFFICES ASSUME HasKillTarget(walk, 2)
                 PROVE  KillTarget(walk) \in Cell /\ vacated[KillTarget(walk)] = 0
      OBVIOUS
    <3>1. walk.path # <<>>
      BY DEF HasKillTarget
    <3>2. /\ Last(walk.path) = walk.cell
          /\ CoordAfterMove(walk.cell, walk.way) \in Cell
          /\ view.vacated[CoordAfterMove(walk.cell, walk.way)] = 0
      BY <2>1, <3>1 DEF Walks
    <3> QED BY <2>2, <3>2 DEF KillTarget
  <2> QED BY <2>3 DEF KillTargetIsOpen, walk
<1> QED BY <1>1, InitCornerInv, CornerStep, PTL DEF CornerSpec
=============================================================================
