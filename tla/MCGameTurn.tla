----------------------------- MODULE MCGameTurn -----------------------------
(***************************************************************************)
(* Turns of real games, as the algorithms see them before they move.       *)
(***************************************************************************)
EXTENDS GameTurn, Movement, JsGameState, TLC

\* Nobody stands for null and undefined, which are no snakes.
ASSUME NobodyAssumption == Nobody \notin Snake

\* The two other snakes differ in nothing but their names.
Symmetry == Permutations(Snake \ {Me})

\* the GameState of the simulation's own snake
others == Without(order, {Me})
view == [me      |-> bodies[Me],
         enemies |-> [i \in DOMAIN others |-> bodies[others[i]]],
         vacated |-> VacatedMap([i \in DOMAIN order |-> bodies[order[i]]])]

ISurvive(dir) == Me \in DOMAIN ApplyMoves(World, dir).parts

\* What the map says of the cells around a head is what the turn then does: a
\* move that is called suicidal is one that no answer of the others makes
\* good, except for turning onto the neck of two parts, which the game forbids;
\* a move that is called safe is one that no answer of the others spoils
\* (movement.cpp:22-34, snakelib.hpp:546-569 against snakelib.cpp:275-438).
MovesJudgedRight ==
    Me \in DOMAIN bodies =>
        LET mine(d) == {dir \in [DOMAIN bodies -> Direction] : dir[Me] = d}
            alive == [d \in Direction |-> {ISurvive(dir) : dir \in mine(d)}]
        IN /\ NotImmediatelySuicidalMoves(view) =
                {d \in Direction : /\ TRUE \in alive[d]
                                   /\ ~Is180(Destination(view, d), view)}
           /\ SafeMoves(view) = {d \in NotImmediatelySuicidalMoves(view) :
                                    FALSE \notin alive[d]}

-----------------------------------------------------------------------------
(* the same turn in the JavaScript game state *)

Js == NewGameState(order, bodies, Me, food)

headsAt(dir, c) ==
    {s \in DOMAIN bodies : CoordAfterMove(bodies[s][1], dir[s]) = c}

\* The turn of the JavaScript algorithms, which moves the snakes one after
\* another and removes the dead as it goes, comes to what the rules say, and
\* so to what applyMoves says, as long as no three heads meet and no two meet
\* at a piece of food (game_state.js:144-246).
JsTurnFollowsRules ==
    Me \in DOMAIN bodies =>
        \A dir \in [DOMAIN bodies -> Direction] :
            LET js == NewStateAfterMoves(Js, dir)
            IN (\A c \in Cell : Cardinality(headsAt(dir, c)) <=
                                   IF c \in food THEN 1 ELSE 2)
                 => /\ ~js.threw
                    /\ js.parts = Rules!BodiesAfter(dir)
                    /\ js.food = Rules!FoodAfter(dir)
                    /\ js.you = Me <=> Me \in DOMAIN js.parts
                    /\ Range(js.order) = DOMAIN js.parts

\* The caches that were kept up to date during the turn are those that would
\* be built from its result, except for the count of a cell in which three
\* parts or more were stacked (incrementalUpdate counts it down for each of
\* them), and for the grid's cell of a head that has come to where the end of a
\* tail was: the end clears it when it is its own, or when a snake that died
\* in between has let _buildCaches write the tail over the head; and unless two
\* have died, the enemies are those that are left (game_state.js:145-203,
\* 286-327, 438-446).
JsCachesFresh ==
    Me \in DOMAIN bodies =>
        \A dir \in [DOMAIN bodies -> Direction] :
            LET js == NewStateAfterMoves(Js, dir)
                moves == <<Me>> \o Js.enemies
                left == {i \in DOMAIN moves : moves[i] \in DOMAIN js.parts}
                stacked == {c \in Cell : \E s \in DOMAIN bodies :
                    Cardinality({i \in DOMAIN bodies[s] : bodies[s][i] = c}) > 2}
                cleared == {Last(bodies[moves[k]]) : k \in {l \in left :
                    \E i \in left :
                       /\ js.parts[moves[i]][1] = Last(bodies[moves[l]])
                       /\ i = l \/ (1 < i /\ \E j \in i + 1 .. l - 1 : j \notin left)}}
            IN ~js.threw =>
                 /\ \A c \in Cell \ stacked : js.vacated[c] =
                       VacatedMap(PartsInOrder(js.order, js.parts))[c]
                 /\ \A c \in Cell \ cleared : js.grid[c] =
                       FilledGrid(js.order, js.parts, js.you)[c]
                 /\ js.you = Me /\ Len(js.order) >= Len(order) - 1 =>
                       Range(js.enemies) = Range(js.order) \ {Me}
=============================================================================
