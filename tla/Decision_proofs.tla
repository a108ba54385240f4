-------------------------- MODULE Decision_proofs ---------------------------
(***************************************************************************)
(* Proofs about bestMove, for any keys, futures and number of directions,  *)
(* and about the rounds of runSimulationBranches, for any number of branches *)
(* and turns.                                                              *)
(***************************************************************************)
EXTENDS BestMove, Rounds, TLAPS

(* bestMove (BestMove) *)

USE BestMoveAssumption

\* One of up to four limits is the lowest.
LEMMA LowestOf ==
    ASSUME NEW a \in Nat, NEW b \in Nat, NEW c \in Nat, NEW d \in Nat,
           NEW L \in SUBSET {a, b, c, d}, L # {}
    PROVE  \E s \in L : \A t \in L : s <= t
<1>1. a \in L \/ b \in L \/ c \in L \/ d \in L
    <2>1. PICK x : x \in L
        OBVIOUS
    <2> QED
        BY <2>1
<1>2. \A t \in L : t = a \/ t = b \/ t = c \/ t = d
    OBVIOUS
<1> DEFINE below(x, y) == y \in L => x <= y
           lowest(x) == /\ x \in L /\ below(x, a) /\ below(x, b)
                        /\ below(x, c) /\ below(x, d)
<1>3. lowest(a) \/ lowest(b) \/ lowest(c) \/ lowest(d)
    BY <1>1
<1>4. \A s : lowest(s) => s \in L /\ \A t \in L : s <= t
    BY <1>2
<1> QED
    BY <1>3, <1>4

\* A future's score is what its life is worth, with at most five hundred more
\* if it dies and with all the rest if it does not; no sum exceeds what an int
\* can hold (simulator.cpp:470-573).
LEMMA Scores ==
    ASSUME state \in SituationType, NEW f \in Futures
    PROVE  /\ life(f) \in Nat
           /\ ScoreFuture(f) \in 0 .. MaxInt
           /\ dies(f) => /\ life(f) <= 100 * MaxLife
                         /\ life(f) <= ScoreFuture(f)
                         /\ ScoreFuture(f) <= life(f) + 500
           /\ ~dies(f) => /\ life(f) = NoLimit
                          /\ ScoreFuture(f) >= NoLimit
<1>1. /\ state.health \in 0 .. 100
      /\ state.length \in 0 .. MaxLife
      /\ state.spaces \in [Direction -> Nat]
      /\ f \in FutureType
    BY DEF SituationType
<1>2. /\ f.death \in 0 .. MaxLife /\ f.meal \in Nat
      /\ f.murder \in 0 .. MaxMurder /\ f.move \in Direction
    BY <1>1 DEF FutureType
<1>3. Bonus(f) \in {0, 500}
    BY DEF Bonus
<1>4. CASE dies(f)
    <2> DEFINE Turns == {u \in {state.health} : starves(f)}
                  \cup {u \in {f.death} : f.death > 0}
                  \cup {u \in {state.spaces[f.move]} : tooSmall(f)}
                  \cup {u \in {10} : f.move \in state.corner}
    <2>1. Limits(f) \subseteq {100 * state.health, 100 * f.death,
                               100 * state.spaces[f.move], 100 * 10}
        BY DEF Limits
    <2>2. /\ 100 * state.health \in Nat /\ 100 * f.death \in Nat
          /\ 100 * state.spaces[f.move] \in Nat /\ 100 * 10 \in Nat
        BY <1>1, <1>2
    <2>3. \E s \in Limits(f) : \A t \in Limits(f) : s <= t
        BY <1>4, <2>1, <2>2, LowestOf DEF dies
    <2>4. SurvivalScore(f) \in Limits(f)
        BY <1>4, <2>3 DEF SurvivalScore
    <2>5. PICK t \in Turns : SurvivalScore(f) = 100 * t
        BY <2>4 DEF Limits
    <2>6. t \in 0 .. MaxLife
        BY <1>1, <1>2 DEF tooSmall
    <2>7. ScoreFuture(f) = 100 * t + Bonus(f)
        BY <1>4, <2>5 DEF ScoreFuture
    <2> QED
        BY <1>3, <1>4, <2>5, <2>6, <2>7 DEF life
<1>5. CASE ~dies(f)
    <2>1. ~starves(f)
        BY <1>5 DEF dies, Limits
    <2>2. f.meal > 0 /\ f.meal <= state.health
        BY <1>1, <1>2, <2>1 DEF starves, NextFood
    <2>3. FoodScore(f) = (state.health - f.meal) * 100
        BY <1>1, <1>2, <2>2 DEF FoodScore
    <2>4. FoodScore(f) \in Int /\ 0 <= FoodScore(f) /\ FoodScore(f) <= 10000
        <3> DEFINE h == state.health
                   m == f.meal
        <3>1. h \in Int /\ m \in Int /\ h <= 100 /\ m >= 0 /\ m <= h
            BY <1>1, <1>2, <2>2
        <3> HIDE DEF h, m
        <3>2. (h - m) * 100 \in Int /\ 0 <= (h - m) * 100 /\ (h - m) * 100 <= 10000
            BY <3>1
        <3>3. FoodScore(f) = (h - m) * 100
            BY <2>3 DEF h, m
        <3> QED
            BY <3>2, <3>3
    <2>5. /\ SurvivalScore(f) = NoLimit
          /\ ScoreFuture(f) = NoLimit + FoodScore(f) + f.murder + Bonus(f)
        BY <1>5 DEF SurvivalScore, ScoreFuture
    <2>6. ScoreFuture(f) \in 0 .. MaxInt /\ ScoreFuture(f) >= NoLimit
        <3> DEFINE e == FoodScore(f)
                   m == f.murder
                   b == Bonus(f)
        <3>1. /\ e \in Int /\ e >= 0 /\ e <= 10000
              /\ m \in Int /\ m >= 0 /\ m <= MaxMurder
              /\ b \in Int /\ b >= 0 /\ b <= 500
            BY <1>2, <1>3, <2>4
        <3> HIDE DEF e, m, b
        <3>2. /\ NoLimit + e + m + b \in 0 .. MaxInt
              /\ NoLimit + e + m + b >= NoLimit
            BY <3>1
        <3>3. ScoreFuture(f) = NoLimit + e + m + b
            BY <2>5 DEF e, m, b
        <3> QED
            BY <3>2, <3>3
    <2> QED
        BY <1>5, <2>5, <2>6 DEF life
<1> QED
    BY <1>4, <1>5

-----------------------------------------------------------------------------
\* Before the first future nothing is kept and nothing decided.
LEMMA InitIInv == Init => IInv
BY DEF Init, IInv, TypeOK, ExtremesKept, ChoiceIsMaximin, groups, played

\* The loop over the futures (simulator.cpp:634-676) keeps the worst and the
\* best future of every key seen.
LEMMA ConsiderStep ==
    ASSUME IInv, NEW f \in Futures, ConsiderFuture(f)
    PROVE  IInv'
<1>1. /\ pc = "loop" /\ f.turns > 0
      /\ futures' = futures \cup {f}
      /\ worst' = Keep(worst, f, IsWorse(f))
      /\ best' = Keep(best, f, IsBetter(f))
      /\ UNCHANGED <<state, result, pc>>
    BY DEF ConsiderFuture
<1>2. /\ played' = played \cup {f}
      /\ groups' = groups \cup {f.key}
    BY <1>1 DEF played, groups
<1>3. \A g : ScoreFuture(g)' = ScoreFuture(g)
    BY <1>1 DEF ScoreFuture, SurvivalScore, dies, Limits, starves, tooSmall,
                FoodScore, Bonus, NextFood
<1>4. \A g \in Futures : ScoreFuture(g) \in Int
    BY Scores DEF IInv, TypeOK
<1>5. /\ worst \in [groups -> played] /\ best \in [groups -> played]
      /\ played \subseteq Futures
    BY DEF IInv, TypeOK, played
<1>6. worst' \in [groups' -> played'] /\ best' \in [groups' -> played']
    BY <1>1, <1>2, <1>5 DEF Keep, IsWorse, IsBetter, keys
<1>7. TypeOK'
    BY <1>1, <1>6 DEF IInv, TypeOK
<1>8. ASSUME NEW k \in groups'
      PROVE  /\ worst'[k].key = k /\ best'[k].key = k
             /\ \A g \in of(k)' : /\ ScoreFuture(worst'[k]) <= ScoreFuture(g)
                                  /\ ScoreFuture(g) <= ScoreFuture(best'[k])
    <2>1. of(k)' = of(k) \cup {g \in {f} : g.key = k}
        BY <1>2 DEF of
    <2>2. CASE k # f.key
        BY <1>1, <1>2, <1>5, <2>1, <2>2 DEF IInv, ExtremesKept, Keep
    <2>3. CASE k = f.key /\ k \notin groups
        <3>1. of(k) = {}
            BY <2>3 DEF of, groups
        <3>2. worst'[k] = f /\ best'[k] = f
            BY <1>1, <1>5, <2>3 DEF Keep, IsWorse, IsBetter, keys
        <3> QED
            BY <1>4, <2>1, <2>3, <3>1, <3>2
    <2>4. CASE k = f.key /\ k \in groups
        <3>1. /\ worst'[k] = IF ScoreFuture(f) < ScoreFuture(worst[k]) THEN f
                             ELSE worst[k]
              /\ best'[k] = IF ScoreFuture(f) > ScoreFuture(best[k]) THEN f
                            ELSE best[k]
            BY <1>1, <1>5, <2>4 DEF Keep, IsWorse, IsBetter, keys
        <3>2. of(k) \subseteq Futures /\ worst[k] \in Futures /\ best[k] \in Futures
            BY <1>5, <2>4 DEF of
        <3> QED
            BY <1>4, <2>1, <2>4, <3>1, <3>2 DEF IInv, ExtremesKept
    <2> QED
        BY <1>2, <2>2, <2>3, <2>4
<1>9. ExtremesKept'
    BY <1>3, <1>8 DEF ExtremesKept
<1>10. ChoiceIsMaximin'
    BY <1>1 DEF IInv, TypeOK, ChoiceIsMaximin
<1> QED
    BY <1>7, <1>9, <1>10 DEF IInv

\* Of the kept extremes the decision (simulator.cpp:678-719) takes the maximin.
LEMMA DecideStep == IInv /\ Decide => IInv'
<1> SUFFICES ASSUME IInv, Decide PROVE IInv'
    OBVIOUS
<1>1. PICK k \in keys, j \in keys :
         /\ Highest(worst, k)
         /\ Highest(best, j)
         /\ result' = {IF TakingChances(ScoreFuture(worst[k])) THEN best[j]
                       ELSE worst[k]}
    BY DEF Decide
<1>2. pc' = "done" /\ UNCHANGED <<state, futures, worst, best>>
    BY DEF Decide
<1>3. /\ played' = played /\ groups' = groups
      /\ \A g : of(g)' = of(g)
      /\ \A g : ScoreFuture(g)' = ScoreFuture(g)
    BY <1>2 DEF played, groups, of, ScoreFuture, SurvivalScore, dies, Limits,
                starves, tooSmall, FoodScore, Bonus, NextFood
<1>4. /\ \A g \in played : ScoreFuture(g) \in Int /\ g.key \in groups
      /\ \A g \in groups : worst[g] \in of(g) /\ best[g] \in of(g)
      /\ \A g \in groups : of(g) \subseteq played
      /\ keys = groups
    BY Scores DEF IInv, TypeOK, ExtremesKept, played, groups, of, keys
<1>5. \A g \in groups : \A f \in of(g) :
         /\ ScoreFuture(worst[g]) <= ScoreFuture(f)
         /\ ScoreFuture(f) <= ScoreFuture(best[g])
    BY DEF IInv, ExtremesKept
<1>6. TypeOK'
    BY <1>1, <1>2, <1>3, <1>4 DEF IInv, TypeOK
<1>7. ExtremesKept'
    BY <1>2, <1>3 DEF IInv, ExtremesKept
<1>8. CASE TakingChances(ScoreFuture(worst[k]))
    <2>1. result' = {best[j]}
        BY <1>1, <1>8
    <2>2. \A g \in groups : ~atLeast(g, 1500)
        BY <1>1, <1>4, <1>8 DEF Highest, TakingChances, atLeast
    <2>3. \A f \in played : f \in of(f.key)
        BY DEF of
    <2>4. \A f \in played : ScoreFuture(f) <= ScoreFuture(best[j])
        BY <1>1, <1>4, <1>5, <2>3 DEF Highest
    <2> QED
        BY <1>3, <1>4, <1>6, <1>7, <2>1, <2>2, <2>4
           DEF IInv, ChoiceIsMaximin, atLeast
<1>9. CASE ~TakingChances(ScoreFuture(worst[k]))
    <2>1. result' = {worst[k]} /\ worst[k].key = k
        BY <1>1, <1>4, <1>9 DEF of
    <2>2. ScoreFuture(worst[k]) >= 1500
        BY <1>4, <1>9 DEF TakingChances
    <2>3. atLeast(k, ScoreFuture(worst[k]))
        BY <1>4, <1>5 DEF atLeast
    <2>4. \A g \in groups : \E f \in of(g) :
             ScoreFuture(f) <= ScoreFuture(worst[k])
        BY <1>1, <1>4 DEF Highest
    <2> QED
        BY <1>3, <1>4, <1>6, <1>7, <2>1, <2>2, <2>3, <2>4
           DEF IInv, ChoiceIsMaximin, atLeast
<1> QED
    BY <1>8, <1>9

\* Passing over a future without a move and deciding without any disturb nothing.
LEMMA OtherStep ==
    ASSUME IInv,
           \/ \E f \in Futures : SkipFuture(f)
           \/ DecideWithoutFuture
           \/ UNCHANGED vars
    PROVE  IInv'
<1>1. played' = played /\ UNCHANGED <<state, worst, best, result>>
    BY DEF SkipFuture, DecideWithoutFuture, vars, played
<1>2. /\ groups' = groups
      /\ \A k : of(k)' = of(k)
      /\ \A g : ScoreFuture(g)' = ScoreFuture(g)
    BY <1>1 DEF groups, of, ScoreFuture, SurvivalScore, dies, Limits,
                starves, tooSmall, FoodScore, Bonus, NextFood
<1>3. TypeOK'
    BY <1>1, <1>2 DEF IInv, TypeOK, SkipFuture, DecideWithoutFuture, vars
<1>4. ExtremesKept' /\ ChoiceIsMaximin'
    BY <1>1, <1>2 DEF IInv, ExtremesKept, ChoiceIsMaximin, atLeast
<1> QED
    BY <1>3, <1>4 DEF IInv

\* Every step of bestMove keeps the inductive invariant.
LEMMA Inductive == IInv /\ [Next]_vars => IInv'
BY ConsiderStep, DecideStep, OtherStep DEF Next

\* The maps hold the worst and the best future of each key, and what is decided
\* from them is right.
THEOREM Invariance == Spec => []IInv
BY InitIInv, Inductive, PTL DEF Spec

\* Each variable keeps its type, and the sources are futures that were played.
THEOREM TypeCorrect == Spec => []TypeOK
<1>1. IInv => TypeOK
    BY DEF IInv
<1> QED
    BY <1>1, Invariance, PTL

\* The decision is a maximin, or the best of all when nothing can be counted on
\* (simulator.cpp:683-714).
THEOREM ChoosesMaximin == Spec => []ChoiceIsMaximin
<1>1. IInv => ChoiceIsMaximin
    BY DEF IInv
<1> QED
    BY <1>1, Invariance, PTL

\* Food, kills and the preferred direction weigh less than six turns of life
\* (simulator.cpp:484-573).
THEOREM PutsLifeFirst == Spec => []LifeComesFirst
<1>1. ASSUME IInv PROVE LifeComesFirst
    <2> SUFFICES ASSUME NEW r \in result
                 PROVE  \/ /\ \A f \in of(r.key) : life(f) >= 1000
                           /\ \A k \in groups : \E g \in of(k) :
                                 \A f \in of(r.key) : life(g) <= life(f) + 500
                        \/ /\ \A k \in groups : \E g \in of(k) : life(g) < 1500
                           /\ \A f \in played : life(f) <= life(r) + 500
        BY DEF LifeComesFirst
    <2>1. \A f \in played : /\ life(f) \in Nat /\ ScoreFuture(f) \in Nat
                            /\ life(f) <= NoLimit
                            /\ life(f) <= ScoreFuture(f)
                            /\ ScoreFuture(f) <= life(f) + 500
                               \/ life(f) = NoLimit
        BY <1>1, Scores DEF IInv, TypeOK, played
    <2>2. \A k : of(k) \subseteq played
        BY DEF of
    <2>3. r \in played
        BY <1>1 DEF IInv, TypeOK
    <2>4. CASE /\ ScoreFuture(r) >= 1500
               /\ atLeast(r.key, ScoreFuture(r))
               /\ \A k \in groups : \E f \in of(k) :
                     ScoreFuture(f) <= ScoreFuture(r)
        <3>1. \A f \in of(r.key) : ScoreFuture(f) >= ScoreFuture(r)
            BY <2>4 DEF atLeast
        <3>2. \A f \in of(r.key) : life(f) >= 1000
            BY <2>1, <2>2, <2>3, <2>4, <3>1
        <3>3. ASSUME NEW k \in groups
              PROVE  \E g \in of(k) :
                        \A f \in of(r.key) : life(g) <= life(f) + 500
            <4>1. PICK g \in of(k) : ScoreFuture(g) <= ScoreFuture(r)
                BY <2>4
            <4> QED
                BY <2>1, <2>2, <2>3, <3>1, <4>1
        <3> QED
            BY <3>2, <3>3
    <2>5. CASE /\ \A k \in groups : ~atLeast(k, 1500)
               /\ \A f \in played : ScoreFuture(f) <= ScoreFuture(r)
        <3>1. \A k \in groups : \E g \in of(k) : life(g) < 1500
            BY <2>1, <2>2, <2>5 DEF atLeast
        <3>2. \A f \in played : life(f) <= life(r) + 500
            BY <2>1, <2>3, <2>5
        <3> QED
            BY <3>1, <3>2
    <2> QED
        BY <1>1, <2>4, <2>5 DEF IInv, ChoiceIsMaximin
<1> QED
    BY <1>1, Invariance, PTL

HIDE BestMoveAssumption

-----------------------------------------------------------------------------
(* runSimulationBranches (Rounds) *)

(* The inductive invariant *)

\* the number of turns that a simulation which is still running has played
roundsOf(s) == IF phase = "for" /\ cursor <= s THEN turn - 1 ELSE turn

RunningInv ==
    /\ phase = "for" => turn > 0
    /\ phase # "for" => phase = "while" \/ completed = Sim
    /\ \A s \in Sim \ completed : turns[s] = roundsOf(s)
    /\ \A s \in Sim \ completed : reason[s] = "Unknown" /\ late[s] = 0
    /\ phase = "while" /\ turn = 0 => completed = {}

CompletedInv ==
    /\ \A s \in completed : turns[s] > 0 /\ turns[s] <= roundsOf(s)
    /\ \A s \in Sim : late[s] <= 1
    /\ phase # "done" => \A s \in Sim : reason[s] \in {"Unknown", "Loss"}

\* A branch that ended without a loss ended for a reason that ends the others
\* when their next turn is played, if not before.
EndedInv ==
    \A u \in completed : ~lost(u) =>
        /\ timeUp \/ turns[u] >= MaxTurns
        /\ \A s \in Sim : turns[s] <= turns[u] + 1
        /\ \A s \in Sim \ completed : turns[s] <= turns[u]

\* Some branch plays in every round.
PlayedInv ==
    /\ phase = "for" => \E s \in Sim :
                          \/ turns[s] = turn
                          \/ s \notin completed /\ cursor <= s
    /\ phase # "for" => turn = 0 \/ \E s \in Sim : turns[s] = turn

ReasonInv == phase = "done" => ReasonsHonest

RoundsInv ==
    /\ RoundsTypeOK /\ RunningInv /\ CompletedInv
    /\ EndedInv /\ PlayedInv /\ ReasonInv

USE RoundsAssumption DEF Unfinished

\* Before the first round nothing has been played.
LEMMA RoundsInitInv == RoundsInit => RoundsInv
<1> SUFFICES ASSUME RoundsInit PROVE RoundsInv
    OBVIOUS
<1>1. RoundsTypeOK
    <2>1. turn \in Nat /\ cursor \in 0 .. Sims /\ completed \subseteq Sim
        BY DEF RoundsInit
    <2>2. turns \in [Sim -> Nat] /\ late \in [Sim -> Nat]
        BY DEF RoundsInit
    <2>3. reason \in [Sim -> {"Unknown", "Loss", "MaxTurns", "OutOfTime"}]
        BY DEF RoundsInit
    <2>4. timeUp \in BOOLEAN /\ phase \in {"while", "for", "coerce", "done"}
        BY DEF RoundsInit
    <2> QED
        BY <2>1, <2>2, <2>3, <2>4 DEF RoundsTypeOK
<1>2. CompletedInv /\ PlayedInv /\ ReasonInv /\ EndedInv
    BY DEF RoundsInit, CompletedInv, PlayedInv, ReasonInv, EndedInv
<1>3. \A s \in Sim : roundsOf(s) = 0
    BY DEF RoundsInit, roundsOf
<1>4. RunningInv
    BY <1>3 DEF RoundsInit, RunningInv
<1> QED
    BY <1>1, <1>2, <1>4 DEF RoundsInv

\* A turn of one branch keeps the branches in step.
LEMMA PlayTurnStep == RoundsInv /\ PlayTurn => RoundsInv'
<1> SUFFICES ASSUME RoundsInv, PlayTurn PROVE RoundsInv'
    OBVIOUS
<1>1. PICK loss \in BOOLEAN :
          /\ reason' = IF loss THEN [reason EXCEPT ![cursor] = "Loss"]
                       ELSE reason
          /\ completed' = IF Ends(loss) THEN completed \cup {cursor}
                          ELSE completed
    BY DEF PlayTurn, simNumber
<1>2. /\ phase = "for" /\ phase' = "for" /\ turn' = turn /\ timeUp' = timeUp
      /\ cursor \in Sim /\ cursor \notin completed /\ cursor' = cursor + 1
      /\ turns' = [turns EXCEPT ![cursor] = @ + 1]
      /\ late' = [late EXCEPT ![cursor] = IF timeUp THEN @ + 1 ELSE @]
    BY DEF PlayTurn, Played
<1>3. /\ turn \in Nat /\ turn > 0 /\ cursor \in Nat
      /\ turns \in [Sim -> Nat] /\ late \in [Sim -> Nat]
      /\ completed \subseteq Sim
      /\ reason \in [Sim -> {"Unknown", "Loss", "MaxTurns", "OutOfTime"}]
    BY <1>2 DEF RoundsInv, RoundsTypeOK, RunningInv
<1>4. turns[cursor] = turn - 1 /\ turns'[cursor] = turn
    BY <1>2, <1>3 DEF RoundsInv, RunningInv, roundsOf
<1>5. \A s \in Sim : s # cursor =>
          /\ turns'[s] = turns[s] /\ late'[s] = late[s]
          /\ reason'[s] = reason[s]
          /\ s \in completed' <=> s \in completed
    BY <1>1, <1>2, <1>3
<1>6. /\ reason[cursor] = "Unknown" /\ late[cursor] = 0
      /\ cursor \in completed' <=> Ends(loss)
      /\ reason'[cursor] = IF loss THEN "Loss" ELSE "Unknown"
      /\ late'[cursor] = IF timeUp THEN 1 ELSE 0
    BY <1>1, <1>2, <1>3 DEF RoundsInv, RunningInv
<1>7. RoundsTypeOK'
    BY <1>1, <1>2, <1>3 DEF RoundsInv, RoundsTypeOK, Sim
<1>8. completed' \subseteq Sim /\ Sim \subseteq Nat
    BY <1>1, <1>2, <1>3 DEF Sim
<1>9. RunningInv'
    <2>1. ASSUME NEW s \in Sim, s \notin completed'
          PROVE  /\ turns'[s] = roundsOf(s)'
                 /\ reason'[s] = "Unknown" /\ late'[s] = 0
        <3>1. CASE s = cursor
            BY <1>2, <1>3, <1>4, <1>6, <2>1, <3>1 DEF Ends, roundsOf
        <3>2. CASE s # cursor
            BY <1>2, <1>3, <1>5, <1>8, <2>1, <3>2
               DEF RoundsInv, RunningInv, roundsOf
        <3> QED
            BY <3>1, <3>2
    <2> QED
        BY <1>2, <1>3, <2>1 DEF RunningInv
<1>10. \A s \in Sim : turns[s] <= turn /\ turns'[s] <= turn
    <2>1. ASSUME NEW s \in Sim PROVE turns[s] <= turn
        <3>1. turns[s] <= roundsOf(s)
            BY <1>3 DEF RoundsInv, RunningInv, CompletedInv, roundsOf
        <3> QED
            BY <1>3, <3>1 DEF roundsOf
    <2> QED
        BY <1>3, <1>4, <1>5, <2>1
<1>11. CompletedInv'
    <2>1. ASSUME NEW s \in completed'
          PROVE  turns'[s] > 0 /\ turns'[s] <= roundsOf(s)'
        <3>1. CASE s = cursor
            BY <1>2, <1>3, <1>4, <3>1 DEF roundsOf
        <3>2. CASE s # cursor
            BY <1>2, <1>3, <1>5, <1>8, <2>1, <3>2
               DEF RoundsInv, CompletedInv, roundsOf
        <3> QED
            BY <3>1, <3>2
    <2>2. \A s \in Sim : late'[s] <= 1
        BY <1>5, <1>6 DEF RoundsInv, CompletedInv
    <2>3. \A s \in Sim : reason'[s] \in {"Unknown", "Loss"}
        BY <1>2, <1>5, <1>6 DEF RoundsInv, CompletedInv
    <2> QED
        BY <2>1, <2>2, <2>3 DEF CompletedInv
<1>12. EndedInv'
    <2> SUFFICES ASSUME NEW u \in completed', reason'[u] # "Loss"
                 PROVE  /\ timeUp \/ turns'[u] >= MaxTurns
                        /\ \A s \in Sim : turns'[s] <= turns'[u] + 1
                        /\ \A s \in Sim \ completed' : turns'[s] <= turns'[u]
        BY <1>2 DEF EndedInv, lost
    <2>1. CASE u = cursor
        <3>1. timeUp \/ turn >= MaxTurns
            BY <1>6, <2>1 DEF Ends
        <3> QED
            BY <1>3, <1>4, <1>7, <1>10, <2>1, <3>1 DEF RoundsTypeOK
    <2>2. CASE u # cursor
        <3>1. u \in completed /\ reason[u] # "Loss" /\ turns'[u] = turns[u]
              /\ u \in Sim
            BY <1>5, <1>8, <2>2
        <3>2. /\ timeUp \/ turns[u] >= MaxTurns
              /\ \A s \in Sim : turns[s] <= turns[u] + 1
              /\ \A s \in Sim \ completed : turns[s] <= turns[u]
            BY <3>1 DEF RoundsInv, EndedInv, lost
        <3>3. turn <= turns[u] + 1
            BY <1>2, <1>3, <1>4, <3>1, <3>2
        <3>4. Ends(loss)
            BY <1>3, <1>10, <3>1, <3>2 DEF Ends
        <3> QED
            BY <1>3, <1>4, <1>5, <1>6, <3>1, <3>2, <3>3, <3>4
    <2> QED
        BY <2>1, <2>2
<1>13. PlayedInv'
    <2>1. cursor \in Sim /\ turns'[cursor] = turn' /\ phase' = "for"
        BY <1>2, <1>4
    <2> QED
        BY <2>1 DEF PlayedInv
<1>14. ReasonInv'
    BY <1>2 DEF ReasonInv
<1> QED
    BY <1>7, <1>9, <1>11, <1>12, <1>13, <1>14 DEF RoundsInv

\* The reasons reported in the end are true.
LEMMA CoerceStep == RoundsInv /\ CoerceReasons => RoundsInv'
<1> SUFFICES ASSUME RoundsInv, CoerceReasons PROVE RoundsInv'
    OBVIOUS
<1>1. /\ phase = "coerce" /\ phase' = "done" /\ completed = Sim
      /\ reason' = [s \in Sim |-> Coerced(s)]
      /\ UNCHANGED <<turn, cursor, turns, completed, timeUp, late>>
    BY DEF CoerceReasons, RoundsInv, RunningInv
<1>2. /\ turn \in Nat /\ turns \in [Sim -> Nat]
      /\ \A s \in Sim : reason[s] \in {"Unknown", "Loss"}
    BY <1>1 DEF RoundsInv, RoundsTypeOK, CompletedInv
<1>3. \A s \in Sim :
          reason'[s] = IF reason[s] = "Loss" THEN "Loss"
                       ELSE IF turn >= MaxTurns THEN "MaxTurns"
                       ELSE "OutOfTime"
    BY <1>1, <1>2 DEF Coerced
<1>4. RoundsTypeOK'
    BY <1>1, <1>3 DEF RoundsInv, RoundsTypeOK, Coerced
<1>5. \A s \in Sim : turns[s] <= turn
    BY <1>1, <1>2 DEF RoundsInv, CompletedInv, roundsOf
<1>6. EndedInv'
    <2>1. \A s \in Sim : lost(s)' <=> lost(s)
        BY <1>3 DEF lost
    <2> QED
        BY <1>1, <2>1 DEF RoundsInv, EndedInv
<1>7. ReasonInv'
    <2> SUFFICES ASSUME NEW s \in Sim
                 PROVE  \/ reason'[s] = "Loss" /\ turns[s] <= turn
                        \/ /\ reason'[s] = "MaxTurns"
                           /\ turns[s] >= MaxTurns - 1
                        \/ /\ reason'[s] = "OutOfTime" /\ timeUp
                           /\ turns[s] < MaxTurns
        BY <1>1 DEF ReasonInv, ReasonsHonest
    <2>1. CASE reason[s] = "Loss"
        BY <1>3, <1>5, <2>1
    <2>2. CASE reason[s] # "Loss" /\ turn >= MaxTurns
        <3>1. PICK u \in Sim : turn = 0 \/ turns[u] = turn
            BY <1>1 DEF RoundsInv, PlayedInv
        <3>2. turns[u] <= turns[s] + 1
            BY <1>1, <2>2 DEF RoundsInv, EndedInv, lost
        <3>3. turns[s] >= turn - 1
            BY <1>2, <3>1, <3>2
        <3> QED
            BY <1>2, <1>3, <2>2, <3>3
    <2>3. CASE reason[s] # "Loss" /\ turn < MaxTurns
        <3>1. timeUp \/ turns[s] >= MaxTurns
            BY <1>1, <2>3 DEF RoundsInv, EndedInv, lost
        <3> QED
            BY <1>2, <1>3, <1>5, <2>3, <3>1
    <2> QED
        BY <1>2, <2>1, <2>2, <2>3
<1>8. RunningInv' /\ CompletedInv' /\ PlayedInv'
    BY <1>1, <1>2 DEF RoundsInv, RunningInv, CompletedInv, PlayedInv, roundsOf
<1> QED
    BY <1>4, <1>6, <1>7, <1>8 DEF RoundsInv

\* The steps between the rounds, and time, change nothing that was played.
LEMMA OtherRoundsStep ==
    RoundsInv /\ (BeginRound \/ LeaveRounds \/ EndRound \/ SkipCompleted
             \/ TimePasses) => RoundsInv'
<1> SUFFICES ASSUME RoundsInv, BeginRound \/ LeaveRounds \/ EndRound
                          \/ SkipCompleted \/ TimePasses
             PROVE  RoundsInv'
    OBVIOUS
<1>1. /\ turn \in Nat /\ turns \in [Sim -> Nat] /\ cursor \in 0 .. Sims
      /\ completed \subseteq Sim
    BY DEF RoundsInv, RoundsTypeOK
<1>2. UNCHANGED <<turns, reason, completed, late>>
    BY DEF BeginRound, LeaveRounds, EndRound, SkipCompleted, TimePasses
<1>3. RoundsTypeOK'
    <2>1. turn' \in Nat /\ cursor' \in 0 .. Sims
        BY <1>1 DEF BeginRound, LeaveRounds, EndRound, SkipCompleted,
                    TimePasses, Sim
    <2>2. timeUp' \in BOOLEAN /\ phase' \in {"while", "for", "coerce", "done"}
        BY DEF RoundsInv, RoundsTypeOK, BeginRound, LeaveRounds, EndRound,
               SkipCompleted, TimePasses
    <2> QED
        BY <1>2, <2>1, <2>2 DEF RoundsInv, RoundsTypeOK
<1>4. EndedInv'
    BY <1>2 DEF RoundsInv, EndedInv, lost, BeginRound, LeaveRounds, EndRound,
                SkipCompleted, TimePasses
<1>5. ReasonInv'
    BY <1>2 DEF RoundsInv, ReasonInv, ReasonsHonest, BeginRound, LeaveRounds,
                EndRound, SkipCompleted, TimePasses
<1>6. \A s \in completed : roundsOf(s) \in Int /\ roundsOf(s)' >= roundsOf(s)
    BY <1>1 DEF roundsOf, Sim, BeginRound, LeaveRounds, EndRound,
                SkipCompleted, TimePasses
<1>7. ASSUME NEW s \in Sim, s \notin completed
      PROVE  roundsOf(s)' = roundsOf(s)
    <2>1. s \in Nat /\ s < Sims
        BY DEF Sim
    <2>2. CASE SkipCompleted
        BY <1>1, <1>7, <2>1, <2>2 DEF SkipCompleted, roundsOf
    <2>3. CASE BeginRound
        BY <1>1, <2>1, <2>3 DEF BeginRound, roundsOf
    <2>4. CASE EndRound
        BY <1>1, <2>1, <2>4 DEF EndRound, roundsOf
    <2>5. CASE LeaveRounds \/ TimePasses
        BY <2>5 DEF LeaveRounds, TimePasses, roundsOf
    <2> QED
        BY <2>2, <2>3, <2>4, <2>5
<1>8. CompletedInv'
    <2>1. \A s \in completed : turns[s] \in Nat /\ roundsOf(s)' \in Int
        BY <1>1, <1>3 DEF roundsOf, RoundsTypeOK
    <2> QED
        BY <1>2, <1>6, <2>1 DEF RoundsInv, CompletedInv, BeginRound,
                                LeaveRounds, EndRound, SkipCompleted, TimePasses
<1>9. RunningInv'
    BY <1>1, <1>2, <1>7 DEF RoundsInv, RunningInv, BeginRound, LeaveRounds,
                            EndRound, SkipCompleted, TimePasses
<1>10. PlayedInv'
    <2>1. \A s \in Sim : s \in Nat /\ s < Sims
        BY DEF Sim
    <2>2. PlayedInv
        BY DEF RoundsInv
    <2>3. CASE SkipCompleted
        <3>1. PICK s \in Sim : \/ turns[s] = turn
                               \/ s \notin completed /\ cursor <= s
            BY <2>2, <2>3 DEF PlayedInv, SkipCompleted
        <3>2. \/ turns'[s] = turn'
              \/ s \notin completed' /\ cursor' <= s
            BY <1>1, <2>1, <2>3, <3>1 DEF SkipCompleted
        <3>3. phase' = "for"
            BY <2>3 DEF SkipCompleted
        <3> QED
            BY <3>2, <3>3 DEF PlayedInv
    <2>4. CASE BeginRound
        <3>1. PICK s \in Sim : s \notin completed
            BY <1>1, <2>4 DEF BeginRound
        <3> QED
            BY <2>1, <2>4, <3>1 DEF BeginRound, PlayedInv
    <2>5. CASE EndRound
        BY <1>1, <2>1, <2>2, <2>5 DEF PlayedInv, EndRound
    <2>6. CASE LeaveRounds \/ TimePasses
        BY <2>2, <2>6 DEF PlayedInv, LeaveRounds, TimePasses
    <2> QED
        BY <2>3, <2>4, <2>5, <2>6
<1> QED
    BY <1>3, <1>4, <1>5, <1>8, <1>9, <1>10 DEF RoundsInv

\* No step leaves the invariant.
LEMMA RoundsInductive == RoundsInv /\ [RoundsNext]_roundsVars => RoundsInv'
<1>1. CASE UNCHANGED roundsVars
    BY <1>1 DEF roundsVars, RoundsInv, RoundsTypeOK, RunningInv, CompletedInv,
                EndedInv,
                PlayedInv, ReasonInv, ReasonsHonest, lost, roundsOf
<1> QED
    BY <1>1, PlayTurnStep, CoerceStep, OtherRoundsStep DEF RoundsNext, Run

\* The inductive invariant: how far the running and the ended branches are,
\* and why the latter ended.
THEOREM RoundsInvariance == RoundsSpec => []RoundsInv
BY RoundsInitInv, RoundsInductive, PTL DEF RoundsSpec

\* The locals of runSimulationBranches keep their types.
THEOREM RoundsTypeCorrect == RoundsSpec => []RoundsTypeOK
<1>1. RoundsInv => RoundsTypeOK
    BY DEF RoundsInv
<1> QED
    BY <1>1, RoundsInvariance, PTL

\* No branch is more than a turn ahead of one that was not lost.
THEOREM BranchesInLockstep == RoundsSpec => []Lockstep
<1>1. ASSUME RoundsInv PROVE Lockstep
    <2> SUFFICES ASSUME NEW s \in Sim, NEW u \in Sim, ~lost(u)
                 PROVE  turns[s] <= turns[u] + 1
        BY DEF Lockstep
    <2>1. CASE u \in completed
        BY <1>1, <2>1 DEF RoundsInv, EndedInv
    <2>2. CASE u \notin completed
        <3>1. turn \in Nat /\ turns[s] \in Nat /\ turns[u] = roundsOf(u)
            BY <1>1, <2>2 DEF RoundsInv, RoundsTypeOK, RunningInv
        <3>2. turns[s] <= roundsOf(s)
            BY <1>1, <3>1 DEF RoundsInv, RunningInv, CompletedInv, roundsOf
        <3> QED
            BY <3>1, <3>2 DEF roundsOf
    <2> QED
        BY <2>1, <2>2
<1> QED
    BY <1>1, RoundsInvariance, PTL

\* Every future has a first move.
THEOREM NoFutureWithoutMove == RoundsSpec => []NoZeroMoveFuture
<1>1. RoundsInv => NoZeroMoveFuture
    BY DEF RoundsInv, RunningInv, CompletedInv, NoZeroMoveFuture
<1> QED
    BY <1>1, RoundsInvariance, PTL

\* A branch plays at most one turn after the time limit.
THEOREM OverrunBounded == RoundsSpec => []BoundedOverrun
<1>1. RoundsInv => BoundedOverrun
    BY DEF RoundsInv, CompletedInv, BoundedOverrun
<1> QED
    BY <1>1, RoundsInvariance, PTL

\* The reason reported for each branch is true of it.
THEOREM ReasonsAreHonest == RoundsSpec => []ReasonsHonest
<1>1. RoundsInv => ReasonsHonest
    BY DEF RoundsInv, ReasonInv, ReasonsHonest
<1> QED
    BY <1>1, RoundsInvariance, PTL
=============================================================================
