------------------------------- MODULE Rollout -------------------------------
(***************************************************************************)
(* Simulation::next (simulator.cpp) on real boards: the turns of one branch*)
(* and the Future it keeps, from which scoreFuture reads who dies when and *)
(* who eats when.                                                          *)
(***************************************************************************)
EXTENDS GameTurn

CONSTANTS FirstMoves,  \* the prefixes that branches are tried with
          MaxTurns     \* maxTurns

ASSUME RolloutAssumption ==
    FirstMoves \subseteq Seq(Direction) /\ MaxTurns \in Nat

VARIABLES firstMoves,   \* _branch.firstMoves
          move,         \* _result.move
          turns,        \* _result.turns, which _turn is equal to
          obituaries,   \* _result.obituaries
          foodsEaten    \* _result.foodsEaten

rolloutVars == <<vars, firstMoves, move, turns, obituaries, foodsEaten>>

RolloutInit ==
    /\ Init
    /\ firstMoves \in FirstMoves
    /\ move = "Left"
    /\ turns = 0
    /\ obituaries = <<>>
    /\ foodsEaten = <<>>

\* getMyMove: the prefix first, then whatever the algorithm says
MyMoves == IF turns < Len(firstMoves) THEN {firstMoves[turns + 1]}
           ELSE Direction

MutantResultMove(dir) == IF turns = 1 THEN dir ELSE move
ResultMove(dir) == IF turns = 0 THEN dir ELSE move

\* updateObituaries, after the turn from the bodies old to the bodies new
MutantUpdateObituaries(old, new) ==
    [s \in DOMAIN obituaries \cup (Snake \ DOMAIN new) |-> turns + 1]
UpdateObituaries(old, new) ==
    LET lost == DOMAIN old \ DOMAIN new
    IN [s \in DOMAIN obituaries \cup lost |->
           IF s \in lost THEN turns + 1 ELSE obituaries[s]]

\* Map::getSnake after Map::update: the last part of a snake leaves no mark
MutantAt(new, s, p) == p = Last(new[s])
At(new, s, p) == p \in Range(Front(new[s])) /\ p # Last(new[s])

\* updateFoodsEaten: one entry for every piece of the old food in whose cell
\* the snake is now
Meals(s) == IF s \in DOMAIN foodsEaten THEN foodsEaten[s] ELSE <<>>

Under(new, oldFood, s) == {f \in oldFood : At(new, s, f)}
UpdateFoodsEaten(new, oldFood) ==
    LET fed == {s \in DOMAIN new : Under(new, oldFood, s) # {}}
        entries(s) == [i \in 1 .. Cardinality(Under(new, oldFood, s)) |-> turns + 1]
    IN [s \in DOMAIN foodsEaten \cup fed |->
           IF s \in fed THEN Meals(s) \o entries(s) ELSE foodsEaten[s]]

\* Simulation::next; the loop of runSimulationBranches ends with a loss or
\* after maxTurns, but not before the first turn
PlayTurn ==
    /\ Me \in DOMAIN bodies
    /\ turns = 0 \/ turns < MaxTurns
    /\ \E dir \in [DOMAIN bodies -> Direction] :
          /\ dir[Me] \in MyMoves
          /\ ApplyTurn(dir)
          /\ move' = ResultMove(dir[Me])
    /\ turns' = turns + 1
    /\ obituaries' = UpdateObituaries(bodies, bodies')
    /\ foodsEaten' = UpdateFoodsEaten(bodies', food)
    /\ UNCHANGED firstMoves

RolloutSpec == RolloutInit /\ [][PlayTurn]_rolloutVars

-----------------------------------------------------------------------------
(* Properties *)

\* A future tells the truth about the game, from which scoreFuture infers
\* who starves and who dies: it has an obituary for exactly the snakes that
\* are gone; a snake has grown by the meals recorded, so that what
\* updateFoodsEaten infers from the map agrees with what eatFoodOrDie did,
\* whoever else went for the same food; and no meal is recorded out of order,
\* or in the turn of the snake's death or later (simulator.hpp:97-125).
MealsAgree ==
    \A s \in DOMAIN bodies : Len(bodies[s]) = StartLength + Len(Meals(s))

MealsInOrder ==
    \A s \in DOMAIN foodsEaten :
        /\ foodsEaten[s] \in Seq(1 .. turns) \ {<<>>}
        /\ \A i, j \in DOMAIN foodsEaten[s] :
              i < j => foodsEaten[s][i] < foodsEaten[s][j]
        /\ s \in DOMAIN obituaries =>
              Last(foodsEaten[s]) < obituaries[s]

ObituariesAgree ==
    /\ DOMAIN obituaries = Snake \ DOMAIN bodies
    /\ Range(obituaries) \subseteq 1 .. turns

FutureExact == MealsAgree /\ MealsInOrder /\ ObituariesAgree

\* The turn of an obituary or of a meal is never revised by later turns.
RecordsStand ==
    [][/\ \A s \in DOMAIN obituaries :
             s \in DOMAIN obituaries' /\ obituaries'[s] = obituaries[s]
       /\ \A s \in DOMAIN foodsEaten :
             s \in DOMAIN foodsEaten' /\ IsPrefix(foodsEaten[s], foodsEaten'[s])
      ]_rolloutVars

\* The body remembers the way it came: as long as it reaches back to the
\* start, its first step is the move the future will be chosen for, and its
\* first steps are those of the prefix (simulator.cpp:248-256).
AnswerLeadsHere ==
    Me \in DOMAIN bodies /\ turns \in 1 .. StartLength - 1 =>
        LET way(i) == bodies[Me][turns + 1 - i]
        IN /\ way(1) = CoordAfterMove(way(0), move)
           /\ \A i \in 1 .. turns : i <= Len(firstMoves) =>
                 way(i) = CoordAfterMove(way(i - 1), firstMoves[i])

RolloutInv ==
    /\ GameInv
    /\ turns \in Nat /\ firstMoves \in Seq(Direction)
    /\ FutureExact
    /\ AnswerLeadsHere
=============================================================================
