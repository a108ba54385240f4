------------------------------ MODULE BestMove ------------------------------
(***************************************************************************)
(* bestMove and scoreFuture of simulator.cpp: every future gets a score;   *)
(* of each key (one of my algorithms with a prefix of moves) the worst and *)
(* the best score are kept; the key whose worst score is best is followed, *)
(* unless that is hopeless: then the key with the best score of all.       *)
(*                                                                         *)
(* One step scores one future.  The two maps are walked in hash order,     *)
(* which decides only between equal scores: the choice is left open.       *)
(* Scores are added in uint32_t and compared as int; lemma Scores of       *)
(* Decision_proofs shows that they fit, so they are plain numbers here.    *)
(***************************************************************************)
EXTENDS Integers, FiniteSets

CONSTANTS Key, Direction,
          NoDirection,  \* MaybeDirection::none()
          Futures,      \* what the vector of futures may contain
          Situation,    \* the states a move may be asked for in
          MaxFutures,   \* bound on the number of futures
          NoLimit,      \* survivalScore of a future that does not end
          MaxLife,      \* bound on the length of futures and of snakes
          MaxMurder,    \* bound on murderScore
          MaxInt        \* the largest int

\* What scoreFuture reads of a Future.  A turn of 0 stands for never; murder
\* is what the obituaries of other snakes add up to.
FutureType ==
    [key : Key, move : Direction, turns : Nat,
     death : 0 .. MaxLife, meal : Nat, murder : 0 .. MaxMurder]

\* What it reads of the GameState, and the argument preferred of bestMove.
SituationType ==
    [health : 0 .. 100, length : 0 .. MaxLife,
     spaces : [Direction -> Nat],   \* getSpacesUp and the like
     corner : SUBSET Direction,     \* couldEndUpCornerAdjacentToBiggerSnake
     preferred : Direction \cup {NoDirection}]

ASSUME BestMoveAssumption ==
    /\ Futures \subseteq FutureType
    /\ Situation \subseteq SituationType
    /\ MaxFutures \in Nat
    /\ NoDirection \notin Direction
    /\ NoLimit \in Nat /\ MaxLife \in Nat /\ MaxMurder \in Nat /\ MaxInt \in Nat
    /\ MaxLife >= 100
    /\ NoLimit > 100 * MaxLife + 500
    /\ MaxInt >= NoLimit + MaxMurder + 10500

VARIABLES state,   \* what this call is asked about
          futures, \* the futures looked at so far
          worst,   \* worstScores: the source of each key's worst score
          best,    \* bestScores
          result,  \* the source of the decision
          pc       \* "loop", "done" or "crashed"

vars == <<state, futures, worst, best, result, pc>>

Init ==
    /\ state \in Situation
    /\ futures = {}
    /\ worst = [k \in {} |-> 0]
    /\ best = [k \in {} |-> 0]
    /\ result = {}
    /\ pc = "loop"

-----------------------------------------------------------------------------
(* scoreFuture *)

\* "a big number that indicates starvation"
NextFood(f) == IF f.meal = 0 THEN 1000 ELSE f.meal
starves(f) == NextFood(f) > state.health

\* getFoodScore: the health at that time, IDEAL_HEALTH_AT_FOOD_TIME being 100
FoodScore(f) ==
    LET healthAtFoodTime == state.health - f.meal
        diff == healthAtFoodTime - 100
        inverseDiff == 100 - (IF diff < 0 THEN -diff ELSE diff)
    IN IF f.meal = 0 THEN 0
       ELSE inverseDiff * (IF diff < 0 THEN 100 ELSE 200)

tooSmall(f) ==
    /\ ~starves(f)
    /\ f.death = 0
    /\ state.spaces[f.move] < state.length

\* the limits that survivalScore is lowered to
Limits(f) ==
    {100 * t : t \in {u \in {state.health} : starves(f)}
                  \cup {u \in {f.death} : f.death > 0}
                  \cup {u \in {state.spaces[f.move]} : tooSmall(f)}
                  \cup {u \in {10} : f.move \in state.corner}}
dies(f) == Limits(f) # {}

Bonus(f) == IF f.move = state.preferred THEN 500 ELSE 0

SurvivalScore(f) ==
    IF dies(f) THEN CHOOSE s \in Limits(f) : \A t \in Limits(f) : s <= t
    ELSE NoLimit

MutantScoreFuture(f) == SurvivalScore(f) + FoodScore(f) + f.murder + Bonus(f)
ScoreFuture(f) ==
    IF dies(f) THEN SurvivalScore(f) + Bonus(f)
    ELSE SurvivalScore(f) + FoodScore(f) + f.murder + Bonus(f)

-----------------------------------------------------------------------------
(* bestMove *)

keys == DOMAIN worst

\* "Should never have a zero move future, but if there is don't crash."
SkipFuture(f) ==
    /\ pc = "loop"
    /\ Cardinality(futures) < MaxFutures
    /\ f.turns = 0
    /\ futures' = futures \cup {f}
    /\ UNCHANGED <<state, worst, best, result, pc>>

\* scores[key] = future, if it is the key's first or wins against the other
Keep(scores, f, wins) ==
    IF wins
    THEN [k \in DOMAIN scores \cup {f.key} |-> IF k = f.key THEN f ELSE scores[k]]
    ELSE scores

MutantIsWorse(f) ==
    f.key \in keys => ScoreFuture(f) > ScoreFuture(worst[f.key])
IsWorse(f) == f.key \in keys => ScoreFuture(f) < ScoreFuture(worst[f.key])
IsBetter(f) == f.key \in keys => ScoreFuture(f) > ScoreFuture(best[f.key])

ConsiderFuture(f) ==
    /\ pc = "loop"
    /\ Cardinality(futures) < MaxFutures
    /\ f.turns > 0
    /\ futures' = futures \cup {f}
    /\ worst' = Keep(worst, f, IsWorse(f))
    /\ best' = Keep(best, f, IsBetter(f))
    /\ UNCHANGED <<state, result, pc>>

Highest(scores, k) ==
    \A j \in keys : ScoreFuture(scores[j]) <= ScoreFuture(scores[k])

TakingChances(score) == score < 1500

Decide ==
    /\ pc = "loop"
    /\ \E k, j \in keys :
          /\ Highest(worst, k)
          /\ Highest(best, j)
          /\ result' = {IF TakingChances(ScoreFuture(worst[k])) THEN best[j]
                        ELSE worst[k]}
    /\ pc' = "done"
    /\ UNCHANGED <<state, futures, worst, best>>

\* directionScoreToString prints the name of the source, here a null pointer
DecideWithoutFuture ==
    /\ pc = "loop"
    /\ keys = {}
    /\ pc' = "crashed"
    /\ UNCHANGED <<state, futures, worst, best, result>>

Next ==
    \/ \E f \in Futures : SkipFuture(f) \/ ConsiderFuture(f)
    \/ Decide
    \/ DecideWithoutFuture

Spec == Init /\ [][Next]_vars

-----------------------------------------------------------------------------
(* Properties *)

played == {f \in futures : f.turns > 0}
of(k) == {f \in played : f.key = k}
groups == {f.key : f \in played}

\* How long a future promises life, at a hundred a turn: until it starves,
\* dies, or has run out of a space smaller than its body; ten turns with a bad
\* corner; for good otherwise.
life(f) == SurvivalScore(f)

atLeast(k, score) == \A f \in of(k) : ScoreFuture(f) >= score

\* The decision does not depend on the order of the futures or of the maps:
\* it is a future whose key can count on a score of 1500 and on no less than
\* any other key can, or the best of all if no key can count on 1500.
ChoiceIsMaximin ==
    \A r \in result :
        /\ r \in played
        /\ \/ /\ ScoreFuture(r) >= 1500
              /\ atLeast(r.key, ScoreFuture(r))
              /\ \A k \in groups : \E f \in of(k) :
                    ScoreFuture(f) <= ScoreFuture(r)
           \/ /\ \A k \in groups : ~atLeast(k, 1500)
              /\ \A f \in played : ScoreFuture(f) <= ScoreFuture(r)

\* Food, kills and the preferred direction never outweigh life: the key
\* followed lives to turn ten whatever happens, and in its worst future lives
\* no more than five turns less than another key in its own; or else every
\* key may be dead by turn fifteen, and one of the longest lives is followed.
LifeComesFirst ==
    \A r \in result :
        \/ /\ \A f \in of(r.key) : life(f) >= 1000
           /\ \A k \in groups : \E g \in of(k) :
                 \A f \in of(r.key) : life(g) <= life(f) + 500
        \/ /\ \A k \in groups : \E g \in of(k) : life(g) < 1500
           /\ \A f \in played : life(f) <= life(r) + 500

-----------------------------------------------------------------------------
(* The inductive invariant *)

TypeOK ==
    /\ state \in Situation
    /\ futures \subseteq Futures
    /\ worst \in [groups -> played]
    /\ best \in [groups -> played]
    /\ result \subseteq played
    /\ pc \in {"loop", "done", "crashed"}
    /\ pc = "loop" => result = {}

\* The maps hold the extremes of what has been looked at.
ExtremesKept ==
    \A k \in groups :
        /\ worst[k].key = k /\ best[k].key = k
        /\ \A f \in of(k) : /\ ScoreFuture(worst[k]) <= ScoreFuture(f)
                            /\ ScoreFuture(f) <= ScoreFuture(best[k])

IInv == TypeOK /\ ExtremesKept /\ ChoiceIsMaximin
=============================================================================
