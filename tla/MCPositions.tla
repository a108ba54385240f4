----------------------------- MODULE MCPositions -----------------------------
(***************************************************************************)
(* Questions that algorithms ask about one position: the corner check of   *)
(* scoreFuture and the kill tunnel of Terminator, for every position of    *)
(* two snakes on the board, and the best food of Cautious, for all small   *)
(* distances and paths.                                                    *)
(***************************************************************************)
EXTENDS CornerCheck, Movement, BestFood

CONSTANTS MyLengths, EnemyLengths,
          Reach,     \* the distances of food
          FarAway,   \* the distance of what is not there
          OneFood,   \* the food for which all enemies race
          OneEnemy   \* the enemy who races for all food

\* a distance and a path: none, the shortest possible, or with a detour
Legs == UNION {{<<d, p>> : p \in {0, d, d + 2}} : d \in Reach}

\* all races of some enemies for some foods
Races(foods, enemies) ==
    LET leg(legs, f) == IF f \in foods THEN legs[f] ELSE <<FarAway, 0>>
        theirs(legs, e) == IF e \in enemies THEN legs[e]
                           ELSE [f \in foods |-> <<FarAway, 0>>]
    IN {[toMe |-> [f \in Food |-> leg(r[1], f)[1]],
         myPath |-> [f \in Food |-> leg(r[1], f)[2]],
         toEnemy |-> [e \in Enemy |->
                        [f \in Food |-> leg(theirs(r[2], e), f)[1]]],
         enemyPath |-> [e \in Enemy |->
                          [f \in Food |-> leg(theirs(r[2], e), f)[2]]],
         myLength |-> 2,
         enemyLength |-> [e \in Enemy |-> IF e \in r[3] THEN 3 ELSE 2]] :
           r \in [foods -> Legs] \X [enemies -> [foods -> Legs]]
                  \X SUBSET enemies}

MCMyBodies == UNION {BodiesOfLength(n) : n \in MyLengths}
MCEnemyBodies == UNION {BodiesOfLength(n) : n \in EnemyLengths}
MCRace == Races(Food, OneEnemy) \cup Races(OneFood, Enemy)

MCInit ==
    \/ /\ CornerInit
       /\ race = NoFood /\ left = {} /\ best = NoFood /\ food = NoFood
       /\ rivals = {} /\ raceAt = "none"
    \/ /\ FoodInit
       /\ me = <<>> /\ enemy = <<>> /\ vacated = <<>>
       /\ asked = "nothing" /\ verdict = FALSE

MCNext ==
    \/ Ask /\ UNCHANGED foodVars
    \/ FoodNext /\ UNCHANGED cornerVars

MCSpec == MCInit /\ [][MCNext]_<<cornerVars, foodVars>>

-----------------------------------------------------------------------------
\* my GameState, in which Terminator walks from the enemy's head
view == [me |-> me, enemies |-> <<enemy>>, vacated |-> vacated]

\* The cell that Terminator goes for is on the board and open, although the
\* walk may go back where it came from until it is stopped, and although
\* lastDirection is kept when no way is open at its end
\* (movement.cpp:130-177, called with a range of 2).
KillTargetIsOpen ==
    asked = "none" =>
        LET walk == TunnelWalk(enemy[1], 2, view)
        IN HasKillTarget(walk, 2) => /\ KillTarget(walk) \in Cell
                                     /\ vacated[KillTarget(walk)] = 0
=============================================================================
