------------------------------ MODULE BestFood ------------------------------
(***************************************************************************)
(* bestFood of movement.cpp: the food with the shortest path that no enemy *)
(* reaches before me.  The food and, for each piece, the enemies are sorted*)
(* by their distance, so that both loops may stop early; std::sort leaves  *)
(* open which of two at the same distance comes first.                     *)
(***************************************************************************)
EXTENDS Integers, FiniteSets

CONSTANTS Food, Enemy,  \* indices of state.food() and state.enemies()
          NoFood,       \* Path::none()
          Race          \* the distances, paths and lengths, see RaceType

\* A path of 0 stands for none.
RaceType ==
    [toMe        : [Food -> Nat],             \* distance from my head
     myPath      : [Food -> Nat],             \* size of shortestPath
     toEnemy     : [Enemy -> [Food -> Nat]],
     enemyPath   : [Enemy -> [Food -> Nat]],
     myLength    : Nat,
     enemyLength : [Enemy -> Nat]]

\* A path has at least as many steps as the distance (PathsCoverDistance).
ASSUME RaceAssumption ==
    /\ NoFood \notin Food
    /\ Race \subseteq RaceType
    /\ \A r \in Race : \A f \in Food :
          /\ r.myPath[f] # 0 => r.toMe[f] <= r.myPath[f]
          /\ \A e \in Enemy :
                r.enemyPath[e][f] # 0 => r.toEnemy[e][f] <= r.enemyPath[e][f]

VARIABLES race,
          left,     \* the rest of sortedFood
          best,     \* the food that the path best leads to
          food,     \* the food whose enemies are being looked at
          rivals,   \* the rest of sortedEnemies
          raceAt    \* "foods", "enemies" or "done"

foodVars == <<race, left, best, food, rivals, raceAt>>

FoodInit ==
    /\ race \in Race
    /\ left = Food
    /\ best = NoFood
    /\ food = NoFood
    /\ rivals = {}
    /\ raceAt = "foods"

Nearest(set, distance) ==
    {x \in set : \A y \in set : distance[x] <= distance[y]}

HasBest == best # NoFood

MutantTooFar(f) == HasBest /\ race.toMe[f] + 1 >= race.myPath[best]
TooFar(f) == HasBest /\ race.toMe[f] >= race.myPath[best]

Improves(f) ==
    race.myPath[f] # 0 /\ (HasBest => race.myPath[f] < race.myPath[best])

EnemyTooFar(e) == race.toEnemy[e][food] > race.myPath[food]

EnemyWillWin(e, f) ==
    /\ race.enemyPath[e][f] # 0
    /\ IF race.enemyPath[e][f] = race.myPath[f]
         THEN race.myLength < race.enemyLength[e]
         ELSE race.enemyPath[e][f] < race.myPath[f]

\* the loop over sortedFood ends
StopLooking ==
    /\ raceAt = "foods"
    /\ left = {} \/ \E f \in Nearest(left, race.toMe) : TooFar(f)
    /\ raceAt' = "done"
    /\ UNCHANGED <<race, left, best, food, rivals>>

PassOver ==
    /\ raceAt = "foods"
    /\ \E f \in Nearest(left, race.toMe) :
          /\ ~TooFar(f) /\ ~Improves(f)
          /\ left' = left \ {f}
    /\ UNCHANGED <<race, best, food, rivals, raceAt>>

LookAtEnemies ==
    /\ raceAt = "foods"
    /\ \E f \in Nearest(left, race.toMe) :
          /\ ~TooFar(f) /\ Improves(f)
          /\ left' = left \ {f}
          /\ food' = f
    /\ rivals' = Enemy
    /\ raceAt' = "enemies"
    /\ UNCHANGED <<race, best>>

\* the enemies that may be at the front of sortedEnemies
NextRivals == Nearest(rivals, [e \in Enemy |-> race.toEnemy[e][food]])

EnemyLoses ==
    /\ raceAt = "enemies"
    /\ \E e \in NextRivals :
          /\ ~EnemyTooFar(e) /\ ~EnemyWillWin(e, food)
          /\ rivals' = rivals \ {e}
    /\ UNCHANGED <<race, left, best, food, raceAt>>

EnemyWins ==
    /\ raceAt = "enemies"
    /\ \E e \in NextRivals : ~EnemyTooFar(e) /\ EnemyWillWin(e, food)
    /\ raceAt' = "foods"
    /\ UNCHANGED <<race, left, best, food, rivals>>

TakeFood ==
    /\ raceAt = "enemies"
    /\ rivals = {} \/ \E e \in NextRivals : EnemyTooFar(e)
    /\ best' = food
    /\ raceAt' = "foods"
    /\ UNCHANGED <<race, left, food, rivals>>

FoodNext ==
    \/ StopLooking \/ PassOver \/ LookAtEnemies
    \/ EnemyLoses \/ EnemyWins \/ TakeFood

FoodSpec == FoodInit /\ [][FoodNext]_foodVars

-----------------------------------------------------------------------------
(* Properties *)

FoodTypeOK ==
    /\ race \in Race
    /\ left \subseteq Food
    /\ best \in Food \cup {NoFood}
    /\ food \in Food \cup {NoFood}
    /\ rivals \subseteq Enemy
    /\ raceAt \in {"foods", "enemies", "done"}
    /\ raceAt = "enemies" => food \in Food

\* As util/movement.js:35-76 says without sorting and without stopping early:
\* a food that I can reach and that no enemy wins.
Mine(f) == race.myPath[f] # 0 /\ \A e \in Enemy : ~EnemyWillWin(e, f)

\* The loops over the sorted food and the sorted enemies stop early without
\* missing anything: what is found is a food that no enemy wins, none of
\* those is closer, and nothing is found only if there is none
\* (movement.cpp:242-317).
BestFoodIsBest ==
    raceAt = "done" =>
        /\ best = NoFood => \A f \in Food : ~Mine(f)
        /\ best # NoFood => /\ Mine(best)
                            /\ \A f \in Food : Mine(f) =>
                                  race.myPath[best] <= race.myPath[f]
=============================================================================
