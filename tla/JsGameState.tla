---------------------------- MODULE JsGameState ----------------------------
(***************************************************************************)
(* The game state of the JavaScript algorithms (util/game_state.js).  Its  *)
(* turn, newStateAfterMoves, moves the snakes one after another in a copy, *)
(* keeps the copy's caches up to date as it goes and removes a snake at    *)
(* once when it dies, after which _buildCaches makes all caches again.     *)
(*                                                                         *)
(* A state is a record                                                     *)
(*   order, parts  _world.snakes.data and snakes, whose parts agree        *)
(*   you           _world.you and mySnake, or Nobody                       *)
(*   enemies       the ids in enemies                                      *)
(*   food          food and _world.food.data                               *)
(*   grid          _gridCache: the snake in each cell, or Nobody           *)
(*   vacated       map                                                     *)
(*   threw         has newStateAfterMoves thrown a TypeError?              *)
(***************************************************************************)
EXTENDS Occupancy

Nobody == "nobody"

PartsInOrder(order, parts) == [i \in 1 .. Len(order) |-> parts[order[i]]]

\* _addSnakePart for all snakes, mine last once more: the last writer stays
AddParts(grid, parts, s) ==
    [c \in Cell |-> IF c \in Range(parts[s]) THEN s ELSE grid[c]]
FilledGrid(order, parts, you) ==
    FoldLeft(LAMBDA grid, s : AddParts(grid, parts, s),
             [c \in Cell |-> Nobody],
             order \o IF you = Nobody THEN <<>> ELSE <<you>>)

\* _buildCaches, which adds to enemies what _addSnake finds: all but me
BuildCaches(js) ==
    [js EXCEPT !.grid = FilledGrid(js.order, js.parts, js.you),
               !.vacated = VacatedMap(PartsInOrder(js.order, js.parts)),
               !.enemies = @ \o IF js.you = Nobody THEN <<>>
                                ELSE RemoveFirst(js.order, js.you)]

\* the constructor
NewGameState(order, parts, you, food) ==
    BuildCaches([order |-> order, parts |-> parts, you |-> you,
                 enemies |-> <<>>, food |-> food, grid |-> <<>>,
                 vacated |-> <<>>, threw |-> FALSE])

\* findIndex and splice take the first of that id
RemoveSnake(js, s) ==
    BuildCaches([js EXCEPT
        !.you = IF @ = s THEN Nobody ELSE @,
        !.enemies = RemoveFirst(@, s),
        !.order = RemoveFirst(@, s),
        !.parts = [t \in DOMAIN @ \ {s} |-> @[t]]])

\* MapInfo.incrementalUpdate for a snake that has moved
MutantIncrementalUpdate(vacated, parts, ate) ==
    FoldLeft(LAMBDA v, i : [v EXCEPT ![parts[i]] = IF @ > 0 THEN @ - 1 ELSE 0],
             Vacate(vacated, parts[1], Len(parts) - 1),
             [i \in 1 .. Len(parts) - 1 |-> i + 1])
IncrementalUpdate(vacated, parts, ate) ==
    LET entered == Vacate(vacated, parts[1], Len(parts) - 1)
    IN IF ate THEN entered
       ELSE FoldLeft(LAMBDA v, i : [v EXCEPT ![parts[i]] =
                                       IF @ > 0 THEN @ - 1 ELSE 0],
                     entered, [i \in 1 .. Len(parts) - 1 |-> i + 1])

\* the head is entered before the end of the tail is cleared
MoveInGrid(grid, s, to, removed, tail) ==
    LET entered == [grid EXCEPT ![to] = s]
    IN IF entered[removed] = s /\ tail # removed
       THEN [entered EXCEPT ![removed] = Nobody] ELSE entered

MoveParts(js, s, to) ==
    LET ate == to \in js.food
        moved == <<to>> \o Front(js.parts[s])
        parts == IF ate THEN Append(moved, Last(moved)) ELSE moved
    IN [js EXCEPT
          !.parts[s] = parts,
          !.grid = MoveInGrid(@, s, to, Last(js.parts[s]), Last(moved)),
          !.food = @ \ {to},
          !.vacated = IncrementalUpdate(@, parts, ate)]

\* One move of the list; whether the way is free is asked of the old map.  A
\* snake that is listed twice and has died by its first move has no head.
MutantMoveSnake(vacatedBefore, js, s, dir) ==
    LET to == CoordAfterMove(js.parts[s][1], dir)
    IN IF OutOfBounds(to) \/ js.vacated[to] > 0
       THEN RemoveSnake(js, s) ELSE MoveParts(js, s, to)
MoveSnake(vacatedBefore, js, s, dir) ==
    IF s \notin DOMAIN js.parts THEN [js EXCEPT !.threw = TRUE]
    ELSE LET to == CoordAfterMove(js.parts[s][1], dir)
         IN IF OutOfBounds(to) \/ vacatedBefore[to] > 0
            THEN RemoveSnake(js, s) ELSE MoveParts(js, s, to)

\* the inner loop of the head-on collisions; the length of a snake that the
\* same loop has removed is a property of undefined
MeetHeadOn(js, s, pos, other) ==
    IF other = s \/ other \notin DOMAIN js.parts THEN js
    ELSE IF js.parts[other][1] # pos THEN js
    ELSE IF s \notin DOMAIN js.parts THEN [js EXCEPT !.threw = TRUE]
    ELSE LET mine == Len(js.parts[s])
             theirs == Len(js.parts[other])
             survived == IF mine <= theirs THEN RemoveSnake(js, s) ELSE js
         IN IF theirs <= mine THEN RemoveSnake(survived, other) ELSE survived
HeadOnCollisions(js) ==
    FoldLeft(LAMBDA outer, s :
                IF s \notin DOMAIN outer.parts THEN outer
                ELSE FoldLeft(LAMBDA inner, other :
                                 MeetHeadOn(inner, s, outer.parts[s][1], other),
                              outer, outer.order),
             js, js.order)

\* my move comes first, then those of enemies (simulator.js)
NewStateAfterMoves(js, dir) ==
    LET copy == NewGameState(js.order, js.parts, js.you, js.food)
        moved == FoldLeft(LAMBDA acc, s :
                             MoveSnake(js.vacated, acc, s, dir[s]),
                          copy, <<js.you>> \o js.enemies)
        settled == HeadOnCollisions(moved)
    IN [settled EXCEPT !.food = {f \in @ : settled.grid[f] = Nobody}]
=============================================================================
