----------------------------- MODULE JsRollout -----------------------------
(***************************************************************************)
(* simulate of util/simulator.js: one branch of Minority Report, turn by   *)
(* turn.  The list of enemies of the state that a turn has left decides who*)
(* moves in the next one.                                                  *)
(*                                                                         *)
(* An exception leaves the generator, runSimulations and the move handler: *)
(* the request is answered with an error.                                  *)
(***************************************************************************)
EXTENDS JsGameState

CONSTANTS Snake, Me, StartLength, MaxFood,
          FirstMoves  \* the values of firstMoves

VARIABLES js,          \* currentState
          firstMoves,
          turn,
          obituaries,
          foodsEaten,
          moves,       \* simulatedMoves
          reason       \* terminationReason: "null", "LOSS", or "TypeError"

vars == <<js, firstMoves, turn, obituaries, foodsEaten, moves, reason>>

StartBodies ==
    {[s \in Snake |-> [i \in 1 .. StartLength |-> at[s]]] :
        at \in Injection(Snake, Cell)}

Init ==
    /\ \E order \in SetToSeqs(Snake), parts \in StartBodies,
          food \in UNION {kSubset(k, Cell) : k \in 0 .. MaxFood} :
          /\ \A s \in Snake : parts[s][1] \notin food
          /\ js = NewGameState(order, parts, Me, food)
    /\ firstMoves \in FirstMoves
    /\ turn = 0
    /\ obituaries = <<>>
    /\ foodsEaten = <<>>
    /\ moves = <<>>
    /\ reason = "null"

\* getMyMove
MyMoves == IF turn < Len(firstMoves) THEN {firstMoves[turn + 1]}
           ELSE Direction

\* updateObituaries
UpdateObituaries(next) ==
    [s \in DOMAIN js.parts \ DOMAIN next.parts |-> turn + 1] @@ obituaries

\* updateFoodsEaten, which reads the grid cache
UpdateFoodsEaten(next) ==
    LET under(s) == {f \in js.food : next.grid[f] = s}
        meals(s) == IF s \in DOMAIN foodsEaten THEN foodsEaten[s] ELSE <<>>
    IN [s \in {next.grid[f] : f \in js.food} \ {Nobody} |->
           meals(s) \o [i \in 1 .. Cardinality(under(s)) |-> turn + 1]]
       @@ foodsEaten

\* perspective(enemy) has no mySnake if the enemy is not on the board, and
\* the enemy's algorithm asks that for its head
AsksTheDead == \E s \in Range(js.enemies) : s \notin DOMAIN js.parts

Throw ==
    /\ turn' = turn + 1
    /\ reason' = "TypeError"
    /\ UNCHANGED <<js, firstMoves, obituaries, foodsEaten, moves>>

PlayTurn(dir) ==
    LET next == NewStateAfterMoves(js, dir)
    IN IF next.threw THEN Throw
       ELSE /\ turn' = turn + 1
            /\ moves' = Append(moves, dir[Me])
            /\ obituaries' = UpdateObituaries(next)
            /\ foodsEaten' = UpdateFoodsEaten(next)
            /\ js' = next
            /\ reason' = IF next.you = Nobody THEN "LOSS" ELSE "null"
            /\ UNCHANGED firstMoves

Next ==
    /\ reason = "null"
    /\ \/ AsksTheDead /\ Throw
       \/ /\ ~AsksTheDead
          /\ \E dir \in [DOMAIN js.parts -> Direction] :
                dir[Me] \in MyMoves /\ PlayTurn(dir)

Spec == Init /\ [][Next]_vars

-----------------------------------------------------------------------------
\* "If an enemy died then remove from enemies" (game_state.js:307): nobody is
\* among the enemies of a state who is not on its board.
DeadAreNoEnemies == Range(js.enemies) \subseteq DOMAIN js.parts
=============================================================================
