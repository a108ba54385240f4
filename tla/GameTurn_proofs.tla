--------------------------- MODULE GameTurn_proofs ---------------------------
(***************************************************************************)
(* Proofs about applyMoves, for every board, any number of snakes and every*)
(* order of them in the vector: the loops, which are folds over the vector,*)
(* come to what the rules say, and the invariants follow from the rules.   *)
(* Then what a GameState's map says of the cells around a head; and the    *)
(* turn of the JavaScript game state, which comes to the same rules.       *)
(***************************************************************************)
EXTENDS MCGameTurn, Induction, SequenceTheorems, FiniteSetTheorems

\* What the order in the vector gives: its length, and each snake a place.
LEMMA InOrderFacts ==
    ASSUME NEW D, NEW seq, InOrder(seq, D)
    PROVE  LET n == Len(seq)
           IN /\ n \in Nat
              /\ seq \in [1 .. n -> D]
              /\ \A i, j \in 1 .. n : seq[i] = seq[j] => i = j
              /\ \A s \in D : \E i \in 1 .. n : seq[i] = s
BY DEF InOrder

SomeLengths(w) ==
    /\ DOMAIN w.parts \subseteq Snake
    /\ \A s \in DOMAIN w.parts : LengthOf(w, s) \in Nat

Beaten(w, D, s) ==
    \E r \in D \ {s} : HeadOf(w, r) = HeadOf(w, s) /\ LengthOf(w, s) <= LengthOf(w, r)

ContestInv(w, f, met, acc) ==
    LET here == {s \in met : HeadOf(w, s) = f}
    IN /\ acc \in [best : Snake \cup {NoSnake}, dead : SUBSET Snake]
       /\ acc.best = NoSnake => here = {}
       /\ acc.best # NoSnake =>
             /\ acc.best \in here
             /\ \A r \in here : LengthOf(w, r) <= LengthOf(w, acc.best)
       /\ acc.dead = {s \in here : Beaten(w, met, s)}

\* One step of the inner loop of eatFoodOrDie keeps what is known of the
\* snakes met at this food.
LEMMA MeetAtFoodStep ==
    ASSUME NEW w, NEW f, NEW met, NEW acc, SomeLengths(w),
           met \subseteq DOMAIN w.parts, ContestInv(w, f, met, acc),
           NEW s \in DOMAIN w.parts, s \notin met
    PROVE  ContestInv(w, f, met \cup {s}, MeetAtFood(w, f, acc, s))
<1> DEFINE here == {r \in met : HeadOf(w, r) = f}
           now == {r \in met \cup {s} : HeadOf(w, r) = f}
           next == MeetAtFood(w, f, acc, s)
<1>0. s \in Snake /\ s # NoSnake /\ NoSnake \notin met
  BY GameAssumption DEF SomeLengths
<1>1. CASE HeadOf(w, s) # f
  <2>1. now = here /\ next = acc
    BY <1>1 DEF MeetAtFood
  <2>2. \A r \in here : Beaten(w, met \cup {s}, r) <=> Beaten(w, met, r)
    BY <1>1 DEF Beaten
  <2> QED BY <2>1, <2>2 DEF ContestInv
<1>2. CASE HeadOf(w, s) = f /\ acc.best = NoSnake
  <2>1. now = {s} /\ next = [acc EXCEPT !.best = s] /\ acc.dead = {}
    BY <1>2 DEF MeetAtFood, ContestInv
  <2>2. ~Beaten(w, met \cup {s}, s)
    BY <1>2, <1>0 DEF Beaten, ContestInv
  <2> QED BY <1>0, <2>1, <2>2 DEF ContestInv, SomeLengths
<1>3. CASE HeadOf(w, s) = f /\ acc.best # NoSnake
  <2> DEFINE b == acc.best
  <2>1. /\ b \in here /\ b # s /\ now = here \cup {s}
        /\ \A r \in here : LengthOf(w, r) <= LengthOf(w, b)
        /\ \A r \in now : LengthOf(w, r) \in Nat /\ HeadOf(w, r) = f
    BY <1>3 DEF ContestInv, SomeLengths
  <2>2. \A r \in here : Beaten(w, met \cup {s}, r) <=>
                           Beaten(w, met, r) \/ LengthOf(w, r) <= LengthOf(w, s)
    BY <1>3 DEF Beaten
  <2>3. Beaten(w, met \cup {s}, s) <=> LengthOf(w, s) <= LengthOf(w, b)
    BY <1>3, <2>1 DEF Beaten
  <2>4. \A r \in here \ {b} : Beaten(w, met, r)
    BY <2>1 DEF Beaten
  <2>5. acc.dead = {r \in here : Beaten(w, met, r)}
    BY DEF ContestInv
  <2>6. CASE LengthOf(w, b) > LengthOf(w, s)
    <3>1. next = [acc EXCEPT !.dead = @ \cup {s}]
      BY <1>3, <2>6 DEF MeetAtFood
    <3>2. ~(LengthOf(w, b) <= LengthOf(w, s)) /\ LengthOf(w, s) <= LengthOf(w, b)
      BY <2>1, <2>6
    <3>3. next.dead = {r \in now : Beaten(w, met \cup {s}, r)}
      BY <3>1, <3>2, <2>1, <2>2, <2>3, <2>4, <2>5 DEF ContestInv
    <3> QED BY <1>0, <1>3, <2>1, <3>1, <3>2, <3>3 DEF ContestInv
  <2>7. CASE LengthOf(w, b) = LengthOf(w, s)
    <3>1. next = [acc EXCEPT !.dead = @ \cup {s, b}]
      BY <1>3, <2>1, <2>7 DEF MeetAtFood
    <3>2. LengthOf(w, b) <= LengthOf(w, s) /\ LengthOf(w, s) <= LengthOf(w, b)
      BY <2>1, <2>7
    <3>3. next.dead = {r \in now : Beaten(w, met \cup {s}, r)}
      BY <3>1, <3>2, <2>1, <2>2, <2>3, <2>4, <2>5 DEF ContestInv
    <3> QED BY <1>0, <1>3, <2>1, <3>1, <3>2, <3>3 DEF ContestInv
  <2>8. CASE LengthOf(w, b) < LengthOf(w, s)
    <3>1. next = [best |-> s, dead |-> acc.dead \cup {b}]
      BY <1>3, <2>1, <2>8 DEF MeetAtFood
    <3>2. ~(LengthOf(w, s) <= LengthOf(w, b)) /\ LengthOf(w, b) <= LengthOf(w, s)
      BY <2>1, <2>8
    <3>3. next.dead = {r \in now : Beaten(w, met \cup {s}, r)}
      BY <3>1, <3>2, <2>1, <2>2, <2>3, <2>4, <2>5 DEF ContestInv
    <3>4. \A r \in now : LengthOf(w, r) <= LengthOf(w, s)
      BY <2>1, <3>2
    <3> QED BY <1>0, <1>3, <2>1, <3>1, <3>3, <3>4 DEF ContestInv
  <2> QED BY <2>1, <2>6, <2>7, <2>8
<1> QED BY <1>1, <1>2, <1>3

\* The snakes met after k steps of a loop over the vector.
Met(seq, k) == {seq[i] : i \in 1 .. k}

\* The next step of such a loop meets one snake more.
LEMMA MetGrows ==
    ASSUME NEW n \in Nat, NEW D, NEW seq \in [1 .. n -> D],
           \A i, j \in 1 .. n : seq[i] = seq[j] => i = j
    PROVE  /\ Met(seq, 0) = {}
           /\ \A k \in 1 .. n : /\ Met(seq, k) = Met(seq, k - 1) \cup {seq[k]}
                                /\ Met(seq, k - 1) \subseteq D
                                /\ seq[k] \in D /\ seq[k] \notin Met(seq, k - 1)
<1>1. Met(seq, 0) = {}
  BY DEF Met
<1>2. ASSUME NEW k \in 1 .. n
      PROVE  /\ Met(seq, k) = Met(seq, k - 1) \cup {seq[k]}
             /\ Met(seq, k - 1) \subseteq D
             /\ seq[k] \in D /\ seq[k] \notin Met(seq, k - 1)
  <2>1. 1 .. k = (1 .. (k - 1)) \cup {k} /\ 1 .. (k - 1) \subseteq 1 .. n
        /\ k \notin 1 .. (k - 1)
    OBVIOUS
  <2> QED BY <2>1 DEF Met
<1> QED BY <1>1, <1>2

\* When eatFoodOrDie is done with a piece of food, a longest of the snakes
\* there is the best eater, and the dead are those beaten there.
LEMMA ContestOutcome ==
    ASSUME NEW w, NEW f, SomeLengths(w), InOrder(w.order, DOMAIN w.parts)
    PROVE  ContestInv(w, f, DOMAIN w.parts, ContestFood(w, f))
<1> DEFINE D == DOMAIN w.parts
           S == [best : Snake \cup {NoSnake}, dead : SUBSET Snake]
           base == [best |-> NoSnake, dead |-> {}]
<1>0. PICK n \in Nat : n = Len(w.order)
  BY InOrderFacts
<1>1. /\ w.order \in [1 .. n -> D]
      /\ \A i, j \in 1 .. n : w.order[i] = w.order[j] => i = j
      /\ \A s \in D : \E i \in 1 .. n : w.order[i] = s
  BY <1>0, InOrderFacts
<1>10. Met(w.order, n) = D
  BY <1>1 DEF Met
<1> DEFINE step == [k \in 1 .. n |-> [a \in S |-> MeetAtFood(w, f, a, w.order[k])]]
           IsFold(g) == g = [s \in SUBSET (1 .. n) |-> IF s = {} THEN base
                    ELSE MeetAtFood(w, f, g[s \ {Max(s)}], w.order[Max(s)])]
           it == CHOOSE g : IsFold(g)
<1>2. ASSUME NEW a \in S, NEW k \in 1 .. n
      PROVE  MeetAtFood(w, f, a, w.order[k]) \in S
  BY <1>1 DEF MeetAtFood, SomeLengths
<1>3. PICK g \in [SUBSET (1 .. n) -> S] : Folding(g, n, base, step)
  <2>1. base \in S /\ step \in [1 .. n -> [S -> S]]
    BY <1>2
  <2> HIDE DEF S, base, step
  <2> QED BY <2>1, FoldExists
<1>4. IsFold(g)
  <2>1. ASSUME NEW s \in SUBSET (1 .. n), s # {}
        PROVE  step[Max(s)][g[s \ {Max(s)}]]
                 = MeetAtFood(w, f, g[s \ {Max(s)}], w.order[Max(s)])
    <3>1. Max(s) \in 1 .. n /\ g[s \ {Max(s)}] \in S
      BY <2>1, MaxIsIn
    <3> QED BY <3>1
  <2> HIDE DEF step
  <2> QED BY <1>3, <2>1 DEF Folding
<1>5. IsFold(it)
  <2> HIDE DEF IsFold
  <2> QED BY <1>4
<1>6. ContestFood(w, f) = it[1 .. n]
  BY <1>1 DEF ContestFood, FoldLeft, MapThenFoldSet
<1> HIDE DEF it
<1> DEFINE met(k) == Met(w.order, k)
           T == {k \in 0 .. n : ContestInv(w, f, met(k), it[1 .. k])}
<1>m. /\ met(0) = {}
      /\ \A k \in 1 .. n : /\ met(k) = met(k - 1) \cup {w.order[k]}
                           /\ met(k - 1) \subseteq D
                           /\ w.order[k] \in D /\ w.order[k] \notin met(k - 1)
  BY <1>1, MetGrows
<1>7. 0 \in T
  <2>1. it[1 .. 0] = base
    BY <1>5
  <2>2. ContestInv(w, f, {}, base)
    BY DEF ContestInv
  <2> HIDE DEF met
  <2> QED BY <1>m, <2>1, <2>2
<1>8. ASSUME NEW k \in 1 .. n, k - 1 \in T PROVE k \in T
  <2>1. it[1 .. k] = MeetAtFood(w, f, it[1 .. (k - 1)], w.order[k])
    BY <1>5, Segments
  <2>2. ContestInv(w, f, met(k - 1), it[1 .. (k - 1)])
    BY <1>8
  <2>3. /\ met(k) = met(k - 1) \cup {w.order[k]} /\ met(k - 1) \subseteq D
        /\ w.order[k] \in D /\ w.order[k] \notin met(k - 1)
    BY <1>m
  <2>4. ContestInv(w, f, met(k), it[1 .. k])
    <3> HIDE DEF met
    <3> QED BY <2>1, <2>2, <2>3, MeetAtFoodStep
  <2> QED BY <2>4
<1>9. n \in T
  <2> HIDE DEF T
  <2> QED BY <1>7, <1>8, BoundedInduction
<1> QED BY <1>6, <1>9, <1>10

-----------------------------------------------------------------------------
(* the loop over headCells of markCrashersDead *)

HeadsInv(w, met, acc) ==
    /\ DOMAIN acc.at = {HeadOf(w, s) : s \in met}
    /\ \A s \in met : LET best == acc.at[HeadOf(w, s)]
                      IN /\ best \in met /\ HeadOf(w, best) = HeadOf(w, s)
                         /\ LengthOf(w, s) <= LengthOf(w, best)
    /\ acc.dead = w.dead \cup {s \in met : Beaten(w, met, s)}

\* One step of the loop over headCells in markCrashersDead keeps what is
\* known of the snakes met.
LEMMA MeetHeadsStep ==
    ASSUME NEW w, NEW met, NEW C, NEW acc, SomeLengths(w),
           NEW G, acc \in [at : [C -> Snake], dead : SUBSET G],
           met \subseteq DOMAIN w.parts, HeadsInv(w, met, acc),
           NEW s \in DOMAIN w.parts, s \notin met
    PROVE  HeadsInv(w, met \cup {s}, MeetHeads(w, acc, s))
<1> DEFINE c == HeadOf(w, s)
           other == acc.at[c]
           next == MeetHeads(w, acc, s)
           now == met \cup {s}
<1>1. /\ \A r \in now : LengthOf(w, r) \in Nat
      /\ C = {HeadOf(w, r) : r \in met}
      /\ s \in Snake
  BY DEF SomeLengths, HeadsInv
<1>2. CASE c \notin DOMAIN acc.at
  <2>1. next.at = Put(acc.at, c, s)
        /\ next.dead = acc.dead
    BY <1>2 DEF MeetHeads, Put
  <2>2. \A r \in met : HeadOf(w, r) # c /\ HeadOf(w, r) \in C
    BY <1>1, <1>2
  <2>3. /\ \A r \in met : Beaten(w, now, r) <=> Beaten(w, met, r)
        /\ ~Beaten(w, now, s)
    BY <2>2 DEF Beaten
  <2>4. next.dead = w.dead \cup {r \in now : Beaten(w, now, r)}
    BY <2>1, <2>3 DEF HeadsInv
  <2>5. DOMAIN next.at = {HeadOf(w, r) : r \in now}
    BY <1>1, <2>1 DEF Put
  <2>6. next.at[c] = s /\ \A r \in met : next.at[HeadOf(w, r)] = acc.at[HeadOf(w, r)]
    BY <1>2, <2>1, <2>2 DEF Put
  <2> HIDE DEF next, c
  <2>7. \A r \in now : LET best == next.at[HeadOf(w, r)]
                       IN /\ best \in now /\ HeadOf(w, best) = HeadOf(w, r)
                          /\ LengthOf(w, r) <= LengthOf(w, best)
    BY <1>1, <2>6 DEF HeadsInv, c
  <2> QED BY <2>4, <2>5, <2>7 DEF HeadsInv, next
<1>3. CASE c \in DOMAIN acc.at
  <2>1. PICK r \in met : HeadOf(w, r) = c
    BY <1>1, <1>3
  <2>2. /\ other \in met /\ HeadOf(w, other) = c /\ other # s
        /\ \A q \in met : HeadOf(w, q) = c => LengthOf(w, q) <= LengthOf(w, other)
    BY <2>1 DEF HeadsInv
  <2>3. \A q \in met : Beaten(w, now, q) <=>
           \/ Beaten(w, met, q)
           \/ HeadOf(w, q) = c /\ LengthOf(w, q) <= LengthOf(w, s)
    BY DEF Beaten
  <2>4. Beaten(w, now, s) <=> LengthOf(w, s) <= LengthOf(w, other)
    BY <1>1, <2>2 DEF Beaten
  <2>5. \A q \in met \ {other} : HeadOf(w, q) = c => Beaten(w, met, q)
    BY <2>2 DEF Beaten
  <2>6. acc.dead = w.dead \cup {q \in met : Beaten(w, met, q)}
    BY DEF HeadsInv
  <2>7. {HeadOf(w, q) : q \in now} = C
    BY <1>1, <2>1
  <2>8. LengthOf(w, s) \in Nat /\ LengthOf(w, other) \in Nat
    BY <1>1, <2>2
  <2>9. CASE LengthOf(w, s) < LengthOf(w, other)
    <3>1. next.at = acc.at /\ next.dead = acc.dead \cup {s}
      BY <1>3, <2>9 DEF MeetHeads
    <3>2. LengthOf(w, s) <= LengthOf(w, other) /\ ~(LengthOf(w, other) <= LengthOf(w, s))
      BY <2>8, <2>9
    <3> HIDE DEF next, c
    <3>3. next.dead = w.dead \cup {q \in now : Beaten(w, now, q)}
      BY <3>1, <3>2, <2>3, <2>4, <2>5, <2>6, <2>2
    <3> QED BY <3>1, <3>2, <3>3, <2>7, <2>2, <1>1 DEF HeadsInv, next, c
  <2>10. CASE LengthOf(w, s) = LengthOf(w, other)
    <3>1. next.at = acc.at /\ next.dead = acc.dead \cup {s, other}
      BY <1>3, <2>8, <2>10 DEF MeetHeads
    <3>2. LengthOf(w, s) <= LengthOf(w, other) /\ LengthOf(w, other) <= LengthOf(w, s)
      BY <2>8, <2>10
    <3> HIDE DEF next, c
    <3>3. next.dead = w.dead \cup {q \in now : Beaten(w, now, q)}
      BY <3>1, <3>2, <2>3, <2>4, <2>5, <2>6, <2>2
    <3> QED BY <3>1, <3>2, <3>3, <2>7, <2>2, <1>1 DEF HeadsInv, next, c
  <2>11. CASE LengthOf(w, s) > LengthOf(w, other)
    <3>1. next.at = Put(acc.at, c, s) /\ next.dead = acc.dead \cup {other}
      BY <1>3, <2>8, <2>11 DEF MeetHeads
    <3>2. ~(LengthOf(w, s) <= LengthOf(w, other)) /\ LengthOf(w, other) <= LengthOf(w, s)
      BY <2>8, <2>11
    <3>3. /\ DOMAIN next.at = C /\ next.at[c] = s
          /\ \A q \in met : HeadOf(w, q) # c =>
                next.at[HeadOf(w, q)] = acc.at[HeadOf(w, q)]
      BY <1>1, <1>3, <3>1 DEF Put
    <3>4. \A q \in now : HeadOf(w, q) = c => LengthOf(w, q) <= LengthOf(w, s)
      BY <1>1, <2>2, <3>2
    <3> HIDE DEF next, c
    <3>5. next.dead = w.dead \cup {q \in now : Beaten(w, now, q)}
      BY <3>1, <3>2, <2>3, <2>4, <2>5, <2>6, <2>2
    <3>6. \A q \in now : LET best == next.at[HeadOf(w, q)]
                       IN /\ best \in now /\ HeadOf(w, best) = HeadOf(w, q)
                          /\ LengthOf(w, q) <= LengthOf(w, best)
      BY <3>3, <3>4 DEF HeadsInv, c
    <3> QED BY <3>3, <3>5, <3>6, <2>7 DEF HeadsInv, next
  <2> QED BY <2>8, <2>9, <2>10, <2>11
<1> QED BY <1>2, <1>3

\* After that loop, the dead are those who were dead before and those who
\* met a head of a snake that is not shorter.
LEMMA HeadsOutcome ==
    ASSUME NEW w, SomeLengths(w), InOrder(w.order, DOMAIN w.parts)
    PROVE  LET heads == FoldLeft(LAMBDA acc, s : MeetHeads(w, acc, s),
                                 [at |-> <<>>, dead |-> w.dead], w.order)
           IN heads.dead = w.dead \cup
                {s \in DOMAIN w.parts : Beaten(w, DOMAIN w.parts, s)}
<1> DEFINE D == DOMAIN w.parts
           S == [at : UNION {[C -> Snake] : C \in SUBSET {HeadOf(w, s) : s \in D}},
                 dead : SUBSET (Snake \cup w.dead)]
           base == [at |-> <<>>, dead |-> w.dead]
<1>0. PICK n \in Nat : n = Len(w.order)
  BY InOrderFacts
<1>1. /\ w.order \in [1 .. n -> D]
      /\ \A i, j \in 1 .. n : w.order[i] = w.order[j] => i = j
      /\ \A s \in D : \E i \in 1 .. n : w.order[i] = s
  BY <1>0, InOrderFacts
<1>10. Met(w.order, n) = D
  BY <1>1 DEF Met
<1> DEFINE step == [k \in 1 .. n |-> [a \in S |-> MeetHeads(w, a, w.order[k])]]
           IsFold(g) == g = [s \in SUBSET (1 .. n) |-> IF s = {} THEN base
                    ELSE MeetHeads(w, g[s \ {Max(s)}], w.order[Max(s)])]
           it == CHOOSE g : IsFold(g)
<1>2. ASSUME NEW a \in S, NEW k \in 1 .. n
      PROVE  MeetHeads(w, a, w.order[k]) \in S
  <2> DEFINE s == w.order[k]
             c == HeadOf(w, s)
  <2>1. PICK C \in SUBSET {HeadOf(w, r) : r \in D} : a.at \in [C -> Snake]
    OBVIOUS
  <2>2. s \in D /\ s \in Snake /\ C \cup {c} \in SUBSET {HeadOf(w, r) : r \in D}
    BY <1>1 DEF SomeLengths
  <2>3. Put(a.at, c, s) \in [C \cup {c} -> Snake]
    BY <2>1, <2>2 DEF Put
  <2>4. a.dead \cup {s} \in SUBSET (Snake \cup w.dead)
    BY <2>2
  <2>5. c \in DOMAIN a.at => a.at[c] \in Snake
    BY <2>1
  <2>6. Put(a.at, c, s) \in UNION {[B -> Snake] : B \in SUBSET {HeadOf(w, r) : r \in D}}
    BY <2>2, <2>3
  <2> HIDE DEF c, s
  <2> QED BY <2>4, <2>5, <2>6 DEF MeetHeads, c, s
<1>3. PICK g \in [SUBSET (1 .. n) -> S] : Folding(g, n, base, step)
  <2>1. <<>> \in [{} -> Snake]
    OBVIOUS
  <2>2. base \in S
    BY <2>1
  <2>3. step \in [1 .. n -> [S -> S]]
    BY <1>2
  <2> HIDE DEF S, base, step
  <2> QED BY <2>2, <2>3, FoldExists
<1>4. IsFold(g)
  <2>1. ASSUME NEW s \in SUBSET (1 .. n), s # {}
        PROVE  step[Max(s)][g[s \ {Max(s)}]]
                 = MeetHeads(w, g[s \ {Max(s)}], w.order[Max(s)])
    <3>1. Max(s) \in 1 .. n /\ g[s \ {Max(s)}] \in S
      BY <2>1, MaxIsIn
    <3> QED BY <3>1
  <2> HIDE DEF step
  <2> QED BY <1>3, <2>1 DEF Folding
<1>5. IsFold(it)
  <2> HIDE DEF IsFold
  <2> QED BY <1>4
<1>6. FoldLeft(LAMBDA acc, s : MeetHeads(w, acc, s), base, w.order) = it[1 .. n]
  BY <1>1 DEF FoldLeft, MapThenFoldSet
<1> HIDE DEF it
<1> DEFINE met(k) == Met(w.order, k)
           T == {k \in 0 .. n : HeadsInv(w, met(k), it[1 .. k]) /\ it[1 .. k] \in S}
<1>m. /\ met(0) = {}
      /\ \A k \in 1 .. n : /\ met(k) = met(k - 1) \cup {w.order[k]}
                           /\ met(k - 1) \subseteq D
                           /\ w.order[k] \in D /\ w.order[k] \notin met(k - 1)
  BY <1>1, MetGrows
<1>7. 0 \in T
  <2>1. it[1 .. 0] = base
    BY <1>5
  <2>2. HeadsInv(w, {}, base)
    BY DEF HeadsInv
  <2>3. base \in S
    <3>1. <<>> \in [{} -> Snake]
      OBVIOUS
    <3> QED BY <3>1
  <2> HIDE DEF met, S, base
  <2>4. HeadsInv(w, met(0), it[1 .. 0]) /\ it[1 .. 0] \in S
    BY <1>m, <2>1, <2>2, <2>3
  <2> QED BY <2>4
<1>8. ASSUME NEW k \in 1 .. n, k - 1 \in T PROVE k \in T
  <2> DEFINE acc == it[1 .. (k - 1)]
  <2>1. it[1 .. k] = MeetHeads(w, acc, w.order[k])
    BY <1>5, Segments
  <2>2. HeadsInv(w, met(k - 1), acc) /\ acc \in S
    BY <1>8
  <2>3. /\ met(k) = met(k - 1) \cup {w.order[k]} /\ met(k - 1) \subseteq D
        /\ w.order[k] \in D /\ w.order[k] \notin met(k - 1)
    BY <1>m
  <2>4. it[1 .. k] \in S
    <3> HIDE DEF S, acc
    <3> QED BY <1>2, <2>1, <2>2
  <2>5. HeadsInv(w, met(k), it[1 .. k])
    <3>1. PICK C : acc \in [at : [C -> Snake], dead : SUBSET (Snake \cup w.dead)]
      BY <2>2
    <3> HIDE DEF met, acc, S, D
    <3>2. HeadsInv(w, met(k - 1) \cup {w.order[k]}, MeetHeads(w, acc, w.order[k]))
      BY <2>2, <2>3, <3>1, MeetHeadsStep DEF D
    <3> QED BY <2>1, <2>3, <3>2
  <2> QED BY <2>4, <2>5
<1>9. n \in T
  <2> HIDE DEF T
  <2> QED BY <1>7, <1>8, BoundedInduction
<1> QED BY <1>6, <1>9, <1>10 DEF HeadsInv

-----------------------------------------------------------------------------
(* the loop that takes the dead out of the vector *)

\* A snake that is not listed yet is listed once after it is appended.
LEMMA AppendInOrder ==
    ASSUME NEW D, NEW seq, InOrder(seq, D), NEW s, s \notin D
    PROVE  InOrder(Append(seq, s), D \cup {s})
<1>0. PICK n \in Nat : n = Len(seq)
  BY InOrderFacts
<1>1. /\ seq \in [1 .. n -> D]
      /\ \A i, j \in 1 .. n : seq[i] = seq[j] => i = j
      /\ \A r \in D : \E i \in 1 .. n : seq[i] = r
  BY <1>0, InOrderFacts
<1> DEFINE longer == Append(seq, s)
<1>2. seq \in Seq(D \cup {s}) /\ Len(seq) = n
  BY <1>0 DEF InOrder
<1>3. /\ longer \in Seq(D \cup {s}) /\ Len(longer) = n + 1
      /\ longer[n + 1] = s
      /\ \A i \in 1 .. n : longer[i] = seq[i] /\ longer[i] \in D
  <2>1. longer \in Seq(D \cup {s}) /\ Len(longer) = n + 1
    BY <1>2
  <2>2. \A i \in 1 .. n : longer[i] = seq[i]
    BY <1>2
  <2>3. longer[n + 1] = s
    BY <1>2
  <2> HIDE DEF longer
  <2>4. \A i \in 1 .. n : seq[i] \in D
    BY <1>1
  <2> QED BY <2>1, <2>2, <2>3, <2>4
<1> HIDE DEF longer
<1>4. \A i, j \in 1 .. n + 1 : longer[i] = longer[j] => i = j
  <2> SUFFICES ASSUME NEW i \in 1 .. n + 1, NEW j \in 1 .. n + 1,
                      longer[i] = longer[j]
               PROVE  i = j
    OBVIOUS
  <2>1. CASE i \in 1 .. n /\ j \in 1 .. n
    BY <1>1, <1>3, <2>1
  <2>2. CASE i = n + 1 \/ j = n + 1
    BY <1>3, <2>2
  <2> QED BY <2>1, <2>2
<1>5. \A r \in D \cup {s} : \E i \in 1 .. n + 1 : longer[i] = r
  <2> SUFFICES ASSUME NEW r \in D \cup {s}
               PROVE  \E i \in 1 .. n + 1 : longer[i] = r
    OBVIOUS
  <2>1. CASE r = s
    BY <1>3, <2>1
  <2>2. CASE r \in D
    <3>1. PICK i \in 1 .. n : seq[i] = r
      BY <1>1, <2>2
    <3> QED BY <1>3, <3>1
  <2> QED BY <2>1, <2>2
<1>6. DOMAIN longer = 1 .. n + 1
  BY <1>3
<1> QED BY <1>3, <1>4, <1>5, <1>6 DEF InOrder, longer

\* removeDeadGuys lists each of those that are left once.
LEMMA WithoutOutcome ==
    ASSUME NEW D, NEW seq, InOrder(seq, D), NEW gone
    PROVE  InOrder(Without(seq, gone), D \ gone)
<1> DEFINE S == Seq(D)
           Keep(a, s) == IF s \in gone THEN a ELSE Append(a, s)
<1>0. PICK n \in Nat : n = Len(seq)
  BY InOrderFacts
<1>1. /\ seq \in [1 .. n -> D]
      /\ \A i, j \in 1 .. n : seq[i] = seq[j] => i = j
      /\ \A s \in D : \E i \in 1 .. n : seq[i] = s
  BY <1>0, InOrderFacts
<1>10. Met(seq, n) = D
  BY <1>1 DEF Met
<1> DEFINE step == [k \in 1 .. n |-> [a \in S |-> Keep(a, seq[k])]]
           IsFold(g) == g = [s \in SUBSET (1 .. n) |-> IF s = {} THEN <<>>
                    ELSE Keep(g[s \ {Max(s)}], seq[Max(s)])]
           it == CHOOSE g : IsFold(g)
<1>2. ASSUME NEW a \in S, NEW k \in 1 .. n
      PROVE  Keep(a, seq[k]) \in S
  BY <1>1
<1>3. PICK g \in [SUBSET (1 .. n) -> S] : Folding(g, n, <<>>, step)
  <2>1. <<>> \in S /\ step \in [1 .. n -> [S -> S]]
    BY <1>2
  <2> HIDE DEF S, step
  <2> QED BY <2>1, FoldExists
<1>4. IsFold(g)
  <2>1. ASSUME NEW s \in SUBSET (1 .. n), s # {}
        PROVE  step[Max(s)][g[s \ {Max(s)}]] = Keep(g[s \ {Max(s)}], seq[Max(s)])
    <3>1. Max(s) \in 1 .. n /\ g[s \ {Max(s)}] \in S
      BY <2>1, MaxIsIn
    <3> HIDE DEF S, Keep
    <3> QED BY <3>1
  <2> HIDE DEF step, Keep
  <2> QED BY <1>3, <2>1 DEF Folding
<1>5. IsFold(it)
  <2> HIDE DEF IsFold
  <2> QED BY <1>4
<1>6. Without(seq, gone) = it[1 .. n]
  BY <1>1 DEF Without, FoldLeft, MapThenFoldSet
<1> HIDE DEF it
<1> DEFINE met(k) == Met(seq, k)
           T == {k \in 0 .. n : InOrder(it[1 .. k], met(k) \ gone)}
<1>m. /\ met(0) = {}
      /\ \A k \in 1 .. n : /\ met(k) = met(k - 1) \cup {seq[k]}
                           /\ seq[k] \notin met(k - 1)
  BY <1>1, MetGrows
<1>7. 0 \in T
  <2>1. it[1 .. 0] = <<>>
    BY <1>5
  <2>2. InOrder(<<>>, {})
    BY DEF InOrder
  <2> HIDE DEF met
  <2>3. met(0) \ gone = {}
    BY <1>m
  <2>4. InOrder(it[1 .. 0], met(0) \ gone)
    BY <2>1, <2>2, <2>3
  <2> QED BY <2>4
<1>8. ASSUME NEW k \in 1 .. n, k - 1 \in T PROVE k \in T
  <2> DEFINE acc == it[1 .. (k - 1)]
  <2>1. it[1 .. k] = Keep(acc, seq[k])
    BY <1>5, Segments
  <2>2. InOrder(acc, met(k - 1) \ gone)
    BY <1>8
  <2>3. met(k) = met(k - 1) \cup {seq[k]} /\ seq[k] \notin met(k - 1)
    BY <1>m
  <2> HIDE DEF met, acc
  <2>4. CASE seq[k] \in gone
    <3>1. met(k) \ gone = met(k - 1) \ gone
      BY <2>3, <2>4
    <3>2. it[1 .. k] = acc
      BY <2>1, <2>4
    <3>3. InOrder(it[1 .. k], met(k) \ gone)
      BY <2>2, <3>1, <3>2
    <3> QED BY <3>3
  <2>5. CASE seq[k] \notin gone
    <3>1. met(k) \ gone = (met(k - 1) \ gone) \cup {seq[k]}
          /\ seq[k] \notin met(k - 1) \ gone
      BY <2>3, <2>5
    <3>2. it[1 .. k] = Append(acc, seq[k])
      BY <2>1, <2>5
    <3>3. InOrder(Append(acc, seq[k]), (met(k - 1) \ gone) \cup {seq[k]})
      BY <2>2, <3>1, AppendInOrder
    <3>4. InOrder(it[1 .. k], met(k) \ gone)
      BY <3>1, <3>2, <3>3
    <3> QED BY <3>4
  <2> QED BY <2>4, <2>5
<1>9. n \in T
  <2> HIDE DEF T
  <2> QED BY <1>7, <1>8, BoundedInduction
<1> QED BY <1>6, <1>9, <1>10

-----------------------------------------------------------------------------
(* the parts of a snake after its move *)

Grown(b, h, ate) ==
    <<h>> \o SubSeq(b, 1, Len(b) - 1) \o IF ate THEN <<b[Len(b) - 1]>> ELSE <<>>

\* The parts of a body that has moved on, one by one.
LEMMA GrownFacts ==
    ASSUME NEW S, NEW b \in Seq(S), Len(b) >= 2, NEW h \in S, NEW ate \in BOOLEAN
    PROVE  LET m == Grown(b, h, ate)
           IN /\ m \in Seq(S)
              /\ Len(m) = Len(b) + (IF ate THEN 1 ELSE 0)
              /\ m[1] = h
              /\ \A i \in 2 .. Len(b) : m[i] = b[i - 1]
              /\ ate => m[Len(b) + 1] = b[Len(b) - 1]
<1> DEFINE front == SubSeq(b, 1, Len(b) - 1)
           start == <<h>> \o front
           end == IF ate THEN <<b[Len(b) - 1]>> ELSE <<>>
<1>1. /\ front \in Seq(S) /\ Len(front) = Len(b) - 1
      /\ \A i \in 1 .. Len(b) - 1 : front[i] = b[i]
  OBVIOUS
<1>2. <<h>> \in Seq(S) /\ Len(<<h>>) = 1 /\ <<h>>[1] = h
  OBVIOUS
<1>3. /\ start \in Seq(S) /\ Len(start) = Len(b)
      /\ start[1] = h
      /\ \A i \in 2 .. Len(b) : start[i] = b[i - 1]
  <2> HIDE DEF front
  <2> QED BY <1>1, <1>2
<1>4. /\ end \in Seq(S) /\ Len(end) = IF ate THEN 1 ELSE 0
      /\ ate => end[1] = b[Len(b) - 1]
  OBVIOUS
<1>5. Grown(b, h, ate) = start \o end
  BY DEF Grown
<1> HIDE DEF start, end
<1>6. /\ start \o end \in Seq(S)
      /\ Len(start \o end) = Len(start) + Len(end)
      /\ \A i \in 1 .. Len(start) + Len(end) :
            (start \o end)[i] = IF i <= Len(start) THEN start[i]
                               ELSE end[i - Len(start)]
  <2>1. start \in Seq(S) /\ end \in Seq(S)
    BY <1>3, <1>4
  <2> QED BY <2>1, ConcatProperties
<1>7. /\ \A i \in 1 .. Len(b) : (start \o end)[i] = start[i]
      /\ ate => (start \o end)[Len(b) + 1] = end[1]
  BY <1>3, <1>4, <1>6
<1> QED BY <1>3, <1>4, <1>5, <1>6, <1>7

\* eatFoodOrDie takes the last part away, or lays it on the one before it.
LEMMA DrawTailIs ==
    ASSUME NEW S, NEW b \in Seq(S), Len(b) >= 2, NEW h \in S, NEW ate \in BOOLEAN
    PROVE  DrawTail(<<h>> \o b, ate) = Grown(b, h, ate)
<1> DEFINE parts == <<h>> \o b
           m == Grown(b, h, ate)
           d == DrawTail(parts, ate)
<1>1. /\ parts \in Seq(S) /\ Len(parts) = Len(b) + 1 /\ parts[1] = h
      /\ \A i \in 2 .. Len(b) + 1 : parts[i] = b[i - 1]
  OBVIOUS
<1>2. /\ m \in Seq(S) /\ Len(m) = Len(b) + (IF ate THEN 1 ELSE 0) /\ m[1] = h
      /\ \A i \in 2 .. Len(b) : m[i] = b[i - 1]
      /\ ate => m[Len(b) + 1] = b[Len(b) - 1]
  BY GrownFacts
<1>3. CASE ~ate
  <2> HIDE DEF parts
  <2>1. d = SubSeq(parts, 1, Len(b))
    BY <1>1, <1>3 DEF DrawTail, Front
  <2>2. d \in Seq(S) /\ Len(d) = Len(b) /\ \A i \in 1 .. Len(b) : d[i] = parts[i]
    BY <1>1, <2>1
  <2> HIDE DEF m, d
  <2>3. Len(m) = Len(b) /\ Len(d) = Len(b)
    BY <1>2, <1>3, <2>2
  <2>4. ASSUME NEW i \in 1 .. Len(b) PROVE m[i] = d[i]
    <3>0. d[i] = parts[i]
      BY <2>2
    <3>1. CASE i = 1
      BY <1>1, <1>2, <3>0, <3>1
    <3>2. CASE i # 1
      <4>1. i \in 2 .. Len(b) /\ i \in 2 .. Len(b) + 1
        BY <3>2
      <4> QED BY <1>1, <1>2, <3>0, <4>1
    <3> QED BY <3>1, <3>2
  <2>5. m \in Seq(S) /\ d \in Seq(S)
    BY <1>2, <2>2
  <2>6. m = d
    BY <2>3, <2>4, <2>5, SeqEqual
  <2> QED BY <2>6 DEF m, d, parts
<1>4. CASE ate
  <2> HIDE DEF parts
  <2>1. d = [parts EXCEPT ![Len(b) + 1] = parts[Len(b)]]
    BY <1>1, <1>4 DEF DrawTail
  <2>2. d \in Seq(S) /\ Len(d) = Len(b) + 1 /\ d[Len(b) + 1] = parts[Len(b)]
        /\ \A i \in 1 .. Len(b) : d[i] = parts[i]
    BY <1>1, <2>1
  <2> HIDE DEF m, d
  <2>3. Len(m) = Len(b) + 1 /\ Len(d) = Len(b) + 1
    BY <1>2, <1>4, <2>2
  <2>4. ASSUME NEW i \in 1 .. Len(b) + 1 PROVE m[i] = d[i]
    <3>1. CASE i = 1
      BY <1>1, <1>2, <2>2, <3>1
    <3>2. CASE i # 1 /\ i # Len(b) + 1
      <4>1. i \in 2 .. Len(b) /\ i \in 2 .. Len(b) + 1 /\ i \in 1 .. Len(b)
        BY <3>2
      <4> QED BY <1>1, <1>2, <2>2, <4>1
    <3>3. CASE i = Len(b) + 1
      <4>1. Len(b) \in 2 .. Len(b) + 1 /\ m[i] = b[Len(b) - 1]
        BY <1>2, <1>4, <3>3
      <4> QED BY <1>1, <2>2, <3>3, <4>1
    <3> QED BY <3>1, <3>2, <3>3
  <2>5. m \in Seq(S) /\ d \in Seq(S)
    BY <1>2, <2>2
  <2>6. m = d
    BY <2>3, <2>4, <2>5, SeqEqual
  <2> QED BY <2>6 DEF m, d, parts
<1> QED BY <1>3, <1>4

-----------------------------------------------------------------------------
(* the whole turn *)

\* coordAfterMove leads to a point of the coordinate space ...
LEMMA StepsToPoints ==
    ASSUME NEW p \in Point, NEW dir \in Direction
    PROVE  CoordAfterMove(p, dir) \in Point
BY BoardAssumption DEF CoordAfterMove, Point, Coord, Inc, Dec, Direction

\* ... to which the cells of the board belong.
LEMMA CellsArePoints == Cell \subseteq Point
BY BoardAssumption DEF Cell, Point, Coord

\* The heads of the rules are those of moveHeadsForward.
LEMMA RulesHead ==
    ASSUME NEW s, NEW dir
    PROVE  Rules!head(s, dir) = CoordAfterMove(bodies[s][1], dir[s])
BY DEF Rules!head, Rules!CoordAfterMove, CoordAfterMove, Rules!Inc, Inc,
       Rules!Dec, Dec

\* the length of a snake in the middle of the turn, and who is beaten then
LEMMA AfterHeads ==
    ASSUME TypeOK, NEW dir \in [DOMAIN bodies -> Direction]
    PROVE  LET w == MoveHeadsForward(World, dir)
               D == DOMAIN bodies
           IN /\ w = [order |-> order, dead |-> {}, food |-> food,
                      parts |-> [s \in D |-> <<Rules!head(s, dir)>> \o bodies[s]]]
              /\ \A s \in D : /\ Rules!head(s, dir) \in Point
                              /\ bodies[s] \in Seq(Point)
                              /\ HeadOf(w, s) = Rules!head(s, dir)
                              /\ LengthOf(w, s) = Len(bodies[s]) + 1
              /\ SomeLengths(w)
              /\ \A s \in D : Beaten(w, D, s) <=> ~Rules!wins(s, dir)
<1> DEFINE w == MoveHeadsForward(World, dir)
           D == DOMAIN bodies
           hd(s) == Rules!head(s, dir)
<1>1. w = [order |-> order, dead |-> {}, food |-> food,
           parts |-> [s \in D |-> <<hd(s)>> \o bodies[s]]]
  <2>1. w = [World EXCEPT !.parts =
              [s \in D |-> <<CoordAfterMove(bodies[s][1], dir[s])>> \o bodies[s]]]
    BY DEF MoveHeadsForward, World
  <2>2. \A s \in D : CoordAfterMove(bodies[s][1], dir[s]) = hd(s)
    BY RulesHead
  <2> DEFINE F == [s \in D |-> <<hd(s)>> \o bodies[s]]
  <2>3. [s \in D |-> <<CoordAfterMove(bodies[s][1], dir[s])>> \o bodies[s]] = F
    <3> HIDE DEF hd
    <3> QED BY <2>2
  <2> HIDE DEF hd, w
  <2>4. w = [World EXCEPT !.parts = F]
    BY <2>1, <2>3
  <2> HIDE DEF F
  <2>5. w = [order |-> order, dead |-> {}, food |-> food, parts |-> F]
    BY <2>4 DEF World
  <2> QED BY <2>5 DEF F
<1>2. ASSUME NEW s \in D
      PROVE  /\ hd(s) \in Point /\ bodies[s] \in Seq(Point)
             /\ HeadOf(w, s) = hd(s) /\ LengthOf(w, s) = Len(bodies[s]) + 1
  <2>1. bodies[s] \in Seq(Point) /\ Len(bodies[s]) >= 2
    BY CellsArePoints, SeqMonotonic DEF TypeOK
  <2>2. bodies[s][1] \in Point
    BY <2>1
  <2>3. hd(s) \in Point
    BY <2>2, RulesHead, StepsToPoints
  <2>4. w.parts[s] = <<hd(s)>> \o bodies[s]
    BY <1>1
  <2> HIDE DEF hd, w
  <2>5. (<<hd(s)>> \o bodies[s])[1] = hd(s)
        /\ Len(<<hd(s)>> \o bodies[s]) = Len(bodies[s]) + 1
    BY <2>1, <2>3
  <2> QED BY <2>1, <2>3, <2>4, <2>5 DEF HeadOf, LengthOf
<1>3. SomeLengths(w)
  <2>1. DOMAIN w.parts = D
    BY <1>1
  <2> HIDE DEF w
  <2>2. \A s \in D : Len(bodies[s]) \in Nat
    BY DEF TypeOK
  <2> QED BY <1>2, <2>1, <2>2 DEF TypeOK, SomeLengths
<1>4. ASSUME NEW s \in D PROVE Beaten(w, D, s) <=> ~Rules!wins(s, dir)
  <2>1. \A r \in D : Len(bodies[r]) \in Nat
    BY DEF TypeOK
  <2> HIDE DEF w, D, hd
  <2>2. \A r \in D : LengthOf(w, s) <= LengthOf(w, r) <=>
                         ~(Len(bodies[r]) < Len(bodies[s]))
    BY <1>2, <2>1
  <2> QED BY <1>2, <2>2 DEF Beaten, Rules!wins, Rules!size, Rules!alive, D, hd
<1> QED BY <1>1, <1>2, <1>3, <1>4

\* The snakes that have just eaten are those on food that nobody beats there.
LEMMA WhoEats ==
    ASSUME NEW w, NEW D, D = DOMAIN w.parts, SomeLengths(w), InOrder(w.order, D)
    PROVE  /\ Lost(w) = {s \in D : HeadOf(w, s) \in w.food /\ Beaten(w, D, s)}
           /\ JustAte(w) = {s \in D : HeadOf(w, s) \in w.food /\ ~Beaten(w, D, s)}
<1> DEFINE contest == [f \in w.food |-> ContestFood(w, f)]
<1>1. \A f \in w.food : ContestInv(w, f, D, contest[f])
  BY ContestOutcome
<1>l. /\ Lost(w) = UNION {contest[f].dead : f \in w.food}
      /\ JustAte(w) = {contest[f].best : f \in w.food} \ (Lost(w) \cup {NoSnake})
  BY DEF Lost, JustAte
<1> HIDE DEF contest
<1>2. \A f \in w.food :
        contest[f].dead = {s \in D : HeadOf(w, s) = f /\ Beaten(w, D, s)}
  BY <1>1 DEF ContestInv
<1>3. Lost(w) = {s \in D : HeadOf(w, s) \in w.food /\ Beaten(w, D, s)}
  BY <1>2, <1>l
<1>4. NoSnake \notin D /\ \A s \in D : LengthOf(w, s) \in Nat
  BY GameAssumption DEF SomeLengths
<1>5. \A s \in JustAte(w) : s \in D /\ HeadOf(w, s) \in w.food /\ ~Beaten(w, D, s)
  <2> SUFFICES ASSUME NEW s \in JustAte(w)
               PROVE  s \in D /\ HeadOf(w, s) \in w.food /\ ~Beaten(w, D, s)
    OBVIOUS
  <2>1. PICK f \in w.food : s = contest[f].best
    BY <1>l
  <2>2. s # NoSnake /\ s \notin Lost(w)
    BY <1>l
  <2>3. s \in D /\ HeadOf(w, s) = f
    BY <1>1, <2>1, <2>2 DEF ContestInv
  <2> QED BY <1>3, <2>2, <2>3
<1>6. \A s \in D : HeadOf(w, s) \in w.food /\ ~Beaten(w, D, s) => s \in JustAte(w)
  <2> SUFFICES ASSUME NEW s \in D, HeadOf(w, s) \in w.food, ~Beaten(w, D, s)
               PROVE  s \in JustAte(w)
    OBVIOUS
  <2> DEFINE f == HeadOf(w, s)
             b == contest[f].best
  <2>1. /\ b # NoSnake /\ b \in D /\ HeadOf(w, b) = f
        /\ LengthOf(w, s) <= LengthOf(w, b)
    BY <1>1 DEF ContestInv
  <2>2. b = s
    BY <2>1 DEF Beaten
  <2>3. s \notin Lost(w)
    BY <1>3
  <2> QED BY <1>l, <1>4, <2>2, <2>3
<1>7. JustAte(w) = {s \in D : HeadOf(w, s) \in w.food /\ ~Beaten(w, D, s)}
  BY <1>5, <1>6
<1> QED BY <1>3, <1>7

\* The bodies, the dead and the food that eatFoodOrDie leaves.
LEMMA AfterEating ==
    ASSUME TypeOK, NEW dir \in [DOMAIN bodies -> Direction]
    PROVE  EatFoodOrDie(MoveHeadsForward(World, dir)) =
             [order |-> order,
              parts |-> [s \in DOMAIN bodies |-> Rules!moved(s, dir)],
              dead  |-> {s \in DOMAIN bodies : /\ Rules!head(s, dir) \in food
                                               /\ ~Rules!wins(s, dir)},
              food  |-> Rules!FoodAfter(dir)]
<1> DEFINE w == MoveHeadsForward(World, dir)
           D == DOMAIN bodies
           hd(s) == Rules!head(s, dir)
           drawn == [s \in DOMAIN w.parts |-> DrawTail(w.parts[s], s \in JustAte(w))]
<1>1. w = [order |-> order, dead |-> {}, food |-> food,
           parts |-> [s \in D |-> <<hd(s)>> \o bodies[s]]]
  BY AfterHeads
<1>2. \A s \in D : /\ hd(s) \in Point /\ bodies[s] \in Seq(Point)
                   /\ HeadOf(w, s) = hd(s)
                   /\ Beaten(w, D, s) <=> ~Rules!wins(s, dir)
  BY AfterHeads
<1>3. SomeLengths(w)
  BY AfterHeads
<1>4. /\ w.order = order /\ w.food = food /\ w.dead = {} /\ DOMAIN w.parts = D
      /\ \A s \in D : w.parts[s] = <<hd(s)>> \o bodies[s]
  <2> HIDE DEF w, hd
  <2> QED BY <1>1
<1>5. /\ Lost(w) = {s \in D : HeadOf(w, s) \in w.food /\ Beaten(w, D, s)}
      /\ JustAte(w) = {s \in D : HeadOf(w, s) \in w.food /\ ~Beaten(w, D, s)}
  <2>1. InOrder(w.order, D)
    BY <1>4 DEF TypeOK
  <2> HIDE DEF D, w
  <2> QED BY <1>3, <1>4, <2>1, WhoEats
<1>6. EatFoodOrDie(w) = [w EXCEPT !.dead = @ \cup Lost(w), !.parts = drawn,
                                  !.food = @ \ EatenFood(w, JustAte(w))]
  BY DEF EatFoodOrDie
<1> HIDE DEF hd, w
<1>7. /\ Lost(w) = {s \in D : hd(s) \in food /\ ~Rules!wins(s, dir)}
      /\ \A s \in D : s \in JustAte(w) <=> Rules!eats(s, dir)
      /\ JustAte(w) \subseteq D
  BY <1>2, <1>4, <1>5 DEF Rules!eats, hd
<1>8. ASSUME NEW s \in D PROVE DrawTail(w.parts[s], s \in JustAte(w)) = Rules!moved(s, dir)
  <2>1. hd(s) \in Point /\ bodies[s] \in Seq(Point) /\ Len(bodies[s]) >= 2
    BY <1>2 DEF TypeOK
  <2> DEFINE ate == s \in JustAte(w)
  <2>2. DrawTail(<<hd(s)>> \o bodies[s], ate) = Grown(bodies[s], hd(s), ate)
    <3>1. ate \in BOOLEAN
      OBVIOUS
    <3> HIDE DEF ate
    <3> QED BY <2>1, <3>1, DrawTailIs
  <2>3. Grown(bodies[s], hd(s), s \in JustAte(w)) = Rules!moved(s, dir)
    BY <1>7 DEF Grown, Rules!moved, Rules!size, hd
  <2> QED BY <1>4, <2>2, <2>3
<1>9. drawn = [s \in D |-> Rules!moved(s, dir)]
  BY <1>4, <1>8
<1>10. food \ EatenFood(w, JustAte(w)) = Rules!FoodAfter(dir)
  <2>1. EatenFood(w, JustAte(w)) = {hd(s) : s \in {r \in D : Rules!eats(r, dir)}}
    BY <1>2, <1>7 DEF EatenFood
  <2> QED BY <2>1 DEF Rules!FoodAfter, Rules!alive, hd
<1> HIDE DEF drawn, D
<1>11. EatFoodOrDie(w) = [order |-> order, parts |-> drawn, dead |-> Lost(w),
                          food |-> food \ EatenFood(w, JustAte(w))]
  <2> DEFINE P == w.parts
             L == Lost(w)
             F == food \ EatenFood(w, JustAte(w))
  <2>1. w = [order |-> order, dead |-> {}, food |-> food, parts |-> P]
    BY <1>1
  <2>2. EatFoodOrDie(w) = [w EXCEPT !.dead = L, !.parts = drawn, !.food = F]
    <3>1. w.dead \cup L = L /\ w.food \ EatenFood(w, JustAte(w)) = F
      BY <1>4
    <3> HIDE DEF L, F
    <3> QED BY <1>6, <3>1 DEF L
  <2> HIDE DEF P, L, F
  <2>3. EatFoodOrDie(w) = [order |-> order, parts |-> drawn, dead |-> L, food |-> F]
    BY <2>1, <2>2
  <2> QED BY <2>3 DEF L, F
<1> QED BY <1>7, <1>9, <1>10, <1>11 DEF D, hd, w

\* The bodies after a turn, in terms of those before it.
LEMMA MovedFacts ==
    ASSUME TypeOK, NEW dir \in [DOMAIN bodies -> Direction],
           NEW s \in DOMAIN bodies
    PROVE  LET m == Rules!moved(s, dir)
               b == bodies[s]
           IN /\ b \in Seq(Cell) /\ Len(b) \in Nat /\ Len(b) >= 2
              /\ m \in Seq(Point)
              /\ Len(m) = Len(b) + (IF Rules!eats(s, dir) THEN 1 ELSE 0)
              /\ m[1] = Rules!head(s, dir) /\ m[1] \in Point
              /\ \A i \in 2 .. Len(b) : m[i] = b[i - 1]
              /\ Rules!eats(s, dir) => m[Len(b) + 1] = b[Len(b) - 1]
<1> DEFINE h == Rules!head(s, dir)
           ate == Rules!eats(s, dir)
<1>1. h \in Point /\ bodies[s] \in Seq(Point)
  BY AfterHeads
<1>2. bodies[s] \in Seq(Cell) /\ Len(bodies[s]) \in Nat /\ Len(bodies[s]) >= 2
  BY DEF TypeOK
<1>3. ate \in BOOLEAN
  BY DEF Rules!eats
<1>4. Rules!moved(s, dir) = Grown(bodies[s], h, ate)
  BY DEF Rules!moved, Rules!size, Grown
<1> HIDE DEF h, ate
<1>5. LET m == Grown(bodies[s], h, ate)
      IN /\ m \in Seq(Point)
         /\ Len(m) = Len(bodies[s]) + (IF ate THEN 1 ELSE 0)
         /\ m[1] = h
         /\ \A i \in 2 .. Len(bodies[s]) : m[i] = bodies[s][i - 1]
         /\ ate => m[Len(bodies[s]) + 1] = bodies[s][Len(bodies[s]) - 1]
  BY <1>1, <1>2, <1>3, GrownFacts
<1> QED BY <1>1, <1>2, <1>4, <1>5 DEF h, ate

\* After the food has been eaten the same snakes are beaten as before: one that
\* has grown has already won its cell.
LEMMA BeatenLater ==
    ASSUME TypeOK, NEW dir \in [DOMAIN bodies -> Direction],
           NEW w, w.parts = [s \in DOMAIN bodies |-> Rules!moved(s, dir)]
    PROVE  /\ SomeLengths(w)
           /\ \A s \in DOMAIN bodies :
                 /\ HeadOf(w, s) = Rules!head(s, dir)
                 /\ Beaten(w, DOMAIN bodies, s) <=> ~Rules!wins(s, dir)
<1> DEFINE D == DOMAIN bodies
           ate(s) == Rules!eats(s, dir)
           hd(s) == Rules!head(s, dir)
<1>1. \A s \in D : /\ Len(bodies[s]) \in Nat
                   /\ LengthOf(w, s) = Len(bodies[s]) + (IF ate(s) THEN 1 ELSE 0)
                   /\ HeadOf(w, s) = hd(s)
  BY MovedFacts DEF LengthOf, HeadOf
<1>2. SomeLengths(w)
  BY <1>1 DEF SomeLengths, TypeOK
<1>3. ASSUME NEW s \in D PROVE Beaten(w, D, s) <=> ~Rules!wins(s, dir)
  <2> HIDE DEF hd, ate
  <2>1. Rules!wins(s, dir) <=>
          \A r \in D \ {s} : hd(r) = hd(s) => Len(bodies[r]) < Len(bodies[s])
    BY DEF Rules!wins, Rules!size, Rules!alive, hd
  <2>2. \A r \in D : ate(r) =>
          \A q \in D \ {r} : hd(q) = hd(r) => Len(bodies[q]) < Len(bodies[r])
    BY DEF ate, hd, Rules!eats, Rules!wins, Rules!size, Rules!alive
  <2>3. Beaten(w, D, s) <=>
          \E r \in D \ {s} : hd(r) = hd(s) /\ LengthOf(w, s) <= LengthOf(w, r)
    BY <1>1 DEF Beaten
  <2>4. ASSUME NEW r \in D \ {s}, hd(r) = hd(s)
        PROVE  LengthOf(w, s) <= LengthOf(w, r) <=>
                 ~(Len(bodies[r]) < Len(bodies[s]))
    <3>1. CASE ate(s)
      <4>1. Len(bodies[r]) < Len(bodies[s]) /\ ~ate(r)
        BY <1>1, <2>2, <2>4, <3>1
      <4> QED BY <1>1, <3>1, <4>1
    <3>2. CASE ~ate(s) /\ ate(r)
      <4>1. Len(bodies[s]) < Len(bodies[r])
        BY <2>2, <2>4, <3>2
      <4> QED BY <1>1, <3>2, <4>1
    <3>3. CASE ~ate(s) /\ ~ate(r)
      BY <1>1, <3>3
    <3> QED BY <3>1, <3>2, <3>3
  <2> QED BY <2>1, <2>3, <2>4
<1> QED BY <1>1, <1>2, <1>3

\* The rules and applyMoves have the same board.
LEMMA RulesBounds == \A p : Rules!OutOfBounds(p) <=> OutOfBounds(p)
BY DEF Rules!OutOfBounds, OutOfBounds

\* applyMoves does what the rules say, whatever the order of the snakes is, and
\* the order it leaves lists those that are left.
THEOREM TurnIsRules ==
    ASSUME TypeOK, NEW dir \in [DOMAIN bodies -> Direction]
    PROVE  LET w == ApplyMoves(World, dir)
           IN /\ w.parts = Rules!BodiesAfter(dir)
              /\ w.food = Rules!FoodAfter(dir)
              /\ InOrder(w.order, DOMAIN w.parts)
<1> DEFINE D == DOMAIN bodies
           w == EatFoodOrDie(MoveHeadsForward(World, dir))
           moved == [s \in D |-> Rules!moved(s, dir)]
           lost == {s \in D : Rules!head(s, dir) \in food /\ ~Rules!wins(s, dir)}
           dead == {s \in D : ~Rules!wins(s, dir)} \cup Crashed(w)
<1>1. w = [order |-> order, parts |-> moved, dead |-> lost,
           food |-> Rules!FoodAfter(dir)]
  BY AfterEating
<1> HIDE DEF w, moved, lost
<1>2. /\ w.order = order /\ w.parts = moved /\ w.dead = lost
      /\ w.food = Rules!FoodAfter(dir) /\ DOMAIN w.parts = D
  BY <1>1 DEF moved
<1>3. /\ SomeLengths(w)
      /\ \A s \in D : /\ HeadOf(w, s) = Rules!head(s, dir)
                      /\ Beaten(w, D, s) <=> ~Rules!wins(s, dir)
  BY <1>2, BeatenLater DEF moved
<1>4. InOrder(w.order, DOMAIN w.parts)
  BY <1>2 DEF TypeOK
<1>5. MarkCrashersDead(w) = [w EXCEPT !.dead = dead]
  <2> DEFINE heads == FoldLeft(LAMBDA acc, s : MeetHeads(w, acc, s),
                               [at |-> <<>>, dead |-> w.dead], w.order)
  <2>1. heads.dead = w.dead \cup {s \in DOMAIN w.parts : Beaten(w, DOMAIN w.parts, s)}
    BY <1>3, <1>4, HeadsOutcome
  <2>2. MarkCrashersDead(w) = [w EXCEPT !.dead = heads.dead \cup Crashed(w)]
    BY DEF MarkCrashersDead
  <2> HIDE DEF heads
  <2>3. heads.dead = {s \in D : ~Rules!wins(s, dir)}
    BY <1>2, <1>3, <2>1 DEF lost
  <2> QED BY <2>2, <2>3
<1>6. Crashed(w) = {s \in D : \/ OutOfBounds(Rules!head(s, dir))
                              \/ Rules!head(s, dir) \in Rules!tails(dir)}
  <2>1. TailCells(w) = Rules!tails(dir)
    BY <1>2 DEF TailCells, Rules!tails, Rules!alive, LengthOf, moved
  <2> QED BY <1>2, <1>3, <2>1 DEF Crashed
<1>7. D \ dead = Rules!survivors(dir)
  BY <1>6, RulesBounds DEF Rules!survivors, Rules!alive
<1>8. ApplyMoves(World, dir) = RemoveDeadGuys([w EXCEPT !.dead = dead])
  BY <1>5 DEF ApplyMoves, w
<1> HIDE DEF dead, D
<1>9. RemoveDeadGuys([w EXCEPT !.dead = dead]) =
        [order |-> Without(order, dead), parts |-> [s \in D \ dead |-> moved[s]],
         dead |-> dead, food |-> Rules!FoodAfter(dir)]
  <2> DEFINE v == [w EXCEPT !.dead = dead]
             F == Rules!FoodAfter(dir)
             O == Without(order, dead)
             P == [s \in D \ dead |-> moved[s]]
  <2> HIDE DEF F
  <2>1. v = [order |-> order, parts |-> moved, dead |-> dead, food |-> F]
    BY <1>1 DEF F
  <2> HIDE DEF v
  <2>2. v.order = order /\ v.parts = moved /\ v.dead = dead /\ DOMAIN moved = D
    BY <1>2, <2>1
  <2>3. RemoveDeadGuys(v) = [v EXCEPT !.order = O, !.parts = P]
    BY <2>2 DEF RemoveDeadGuys
  <2> HIDE DEF O, P
  <2>4. RemoveDeadGuys(v) = [order |-> O, parts |-> P, dead |-> dead, food |-> F]
    BY <2>1, <2>3
  <2> QED BY <2>4 DEF v, F, O, P
<1>10. [s \in D \ dead |-> moved[s]] = Rules!BodiesAfter(dir)
  BY <1>7 DEF Rules!BodiesAfter, moved, D, dead
<1>11. InOrder(Without(order, dead), D \ dead)
  BY <1>2, <1>4, WithoutOutcome
<1> QED BY <1>8, <1>9, <1>10, <1>11 DEF Rules!BodiesAfter

-----------------------------------------------------------------------------
(* the invariants *)

\* A step that stays on the board leads to a cell next to the one it left.
LEMMA OntoTheBoard ==
    ASSUME NEW p \in Cell, NEW dir \in Direction,
           ~OutOfBounds(CoordAfterMove(p, dir))
    PROVE  /\ CoordAfterMove(p, dir) \in Cell
           /\ IsAdjacent(CoordAfterMove(p, dir), p)
BY BoardAssumption
   DEF Cell, Direction, OutOfBounds, CoordAfterMove, IsAdjacent, AbsDiff, Inc, Dec

\* A path that moves on, and grows or not, stays one, unless its head comes to
\* a cell of its own tail.
LEMMA PathMovesOn ==
    ASSUME NEW b \in Seq(Cell), IsPath(b), NEW m \in Seq(Point),
           NEW dir \in Direction, NEW ate \in BOOLEAN,
           m[1] = CoordAfterMove(b[1], dir), ~OutOfBounds(m[1]),
           \A i \in 2 .. Len(m) : m[i] # m[1],
           Len(m) = Len(b) + (IF ate THEN 1 ELSE 0),
           \A i \in 2 .. Len(b) : m[i] = b[i - 1],
           ate => m[Len(b) + 1] = b[Len(b) - 1]
    PROVE  IsPath(m) /\ m \in Seq(Cell)
<1>0. PICK n \in Nat, l \in Nat : n = Len(b) /\ l = Len(m)
  OBVIOUS
<1> DEFINE old(i) == IF i = n + 1 THEN n - 1 ELSE i - 1
<1>1. /\ n >= 2 /\ l = n + (IF ate THEN 1 ELSE 0)
      /\ DOMAIN m = 1 .. l /\ DOMAIN b = 1 .. n
  BY <1>0 DEF IsPath
<1>r. /\ \A i \in 2 .. n : m[i] = b[i - 1]
      /\ ate => m[n + 1] = b[n - 1]
  BY <1>0
<1>2. \A i \in 2 .. l : m[i] = b[old(i)] /\ old(i) \in 1 .. n - 1
  BY <1>1, <1>r
<1>3. \A i \in 1 .. n : b[i] \in Cell
  BY <1>0
<1>4. m[1] \in Cell /\ IsAdjacent(m[1], b[1])
  BY <1>1, <1>3, OntoTheBoard
<1>5. \A i \in 1 .. l : m[i] \in Cell
  <2> SUFFICES ASSUME NEW i \in 1 .. l PROVE m[i] \in Cell
    OBVIOUS
  <2>1. CASE i = 1
    BY <1>4, <2>1
  <2>2. CASE i # 1
    <3>1. i \in 2 .. l /\ old(i) \in 1 .. n
      BY <1>1, <1>2, <2>2
    <3> QED BY <1>2, <1>3, <3>1
  <2> QED BY <2>1, <2>2
<1>6. \A i \in 1 .. n - 1 : b[i] = b[i + 1] \/ IsAdjacent(b[i], b[i + 1])
  BY <1>0 DEF IsPath
<1>7. \A i, j \in 1 .. n : i < j /\ b[i] = b[j] => \A k \in i .. n : b[k] = b[i]
  BY <1>0, <1>1 DEF IsPath
<1>8. ASSUME NEW i \in 1 .. l - 1
      PROVE  m[i] = m[i + 1] \/ IsAdjacent(m[i], m[i + 1])
  <2>1. CASE i = 1
    <3>1. old(2) = 1 /\ m[2] = b[1]
        BY <1>1, <1>2
    <3> QED BY <1>4, <2>1, <3>1
  <2>2. CASE i > 1 /\ i < n
    <3>1. m[i] = b[i - 1] /\ m[i + 1] = b[i] /\ i - 1 \in 1 .. n - 1
      BY <1>1, <1>r, <2>2
    <3>2. b[i - 1] = b[(i - 1) + 1] \/ IsAdjacent(b[i - 1], b[(i - 1) + 1])
      BY <1>6, <3>1
    <3>3. (i - 1) + 1 = i
      OBVIOUS
    <3> QED BY <3>1, <3>2, <3>3
  <2>3. CASE i = n
    <3>1. ate /\ m[i] = b[n - 1] /\ m[i + 1] = b[n - 1]
      BY <1>1, <1>r, <2>3
    <3> QED BY <3>1
  <2> QED BY <1>1, <2>1, <2>2, <2>3
<1>9. ASSUME NEW i \in 1 .. l, NEW j \in 1 .. l, i < j, m[i] = m[j],
             NEW k \in i .. l
      PROVE  m[k] = m[i]
  <2>1. i # 1 /\ i \in 2 .. l /\ j \in 2 .. l /\ k \in 2 .. l
    BY <1>1, <1>9
  <2>2. m[i] = b[old(i)] /\ m[j] = b[old(j)] /\ m[k] = b[old(k)]
    BY <1>2, <2>1
  <2>3. old(i) \in 1 .. n - 1 /\ old(j) \in 1 .. n - 1 /\ old(k) \in 1 .. n - 1
    BY <1>2, <2>1
  <2>4. old(i) <= old(j) /\ old(i) <= old(k)
    BY <1>1, <1>9, <2>1
  <2>5. CASE old(i) < old(j)
    <3> HIDE DEF old
    <3>1. old(i) \in 1 .. n /\ old(j) \in 1 .. n /\ old(k) \in old(i) .. n
      BY <2>3, <2>4
    <3>3. b[old(i)] = b[old(j)]
      BY <1>9, <2>2
    <3>4. \A x \in old(i) .. n : b[x] = b[old(i)]
      BY <1>7, <2>5, <3>1, <3>3
    <3> QED BY <2>2, <3>1, <3>4
  <2>6. CASE old(i) = old(j)
    <3>1. i = n /\ j = n + 1
      BY <1>1, <1>9, <2>1, <2>6
    <3>2. old(k) = n - 1 /\ old(i) = n - 1
      BY <1>1, <3>1
    <3> HIDE DEF old
    <3> QED BY <2>2, <3>2
  <2> QED BY <2>3, <2>4, <2>5, <2>6
<1>10. Range(m) \subseteq Cell
  BY <1>1, <1>5 DEF Range
<1>11. m \in Seq(Cell)
  BY <1>0, <1>5
<1>12. l >= 2
  BY <1>1
<1> QED BY <1>0, <1>1, <1>8, <1>9, <1>10, <1>11, <1>12 DEF IsPath

\* The tails that the heads of the next turn may crash into are the parts but
\* the last of all bodies, whatever the moves are.
LEMMA TailsAre ==
    ASSUME TypeOK, NEW dir \in [DOMAIN bodies -> Direction], NEW c
    PROVE  c \in Rules!tails(dir) <=>
              \E s \in DOMAIN bodies : \E i \in 1 .. Len(bodies[s]) - 1 : bodies[s][i] = c
<1> DEFINE D == DOMAIN bodies
           m(s) == Rules!moved(s, dir)
<1>1. c \in Rules!tails(dir) <=> \E s \in D : \E i \in 2 .. Len(m(s)) : m(s)[i] = c
  BY DEF Rules!tails, Rules!alive
<1> HIDE DEF m
<1>2. ASSUME NEW s \in D
      PROVE  (\E i \in 2 .. Len(m(s)) : m(s)[i] = c) <=>
             (\E i \in 1 .. Len(bodies[s]) - 1 : bodies[s][i] = c)
  <2> DEFINE b == bodies[s]
             ate == Rules!eats(s, dir)
  <2>1. /\ Len(b) \in Nat /\ Len(b) >= 2
        /\ Len(m(s)) = Len(b) + (IF ate THEN 1 ELSE 0)
        /\ \A i \in 2 .. Len(b) : m(s)[i] = b[i - 1]
        /\ ate => m(s)[Len(b) + 1] = b[Len(b) - 1]
    BY MovedFacts DEF m
  <2> HIDE DEF b, ate
  <2>2. ASSUME NEW i \in 2 .. Len(m(s)), m(s)[i] = c
        PROVE  \E j \in 1 .. Len(b) - 1 : b[j] = c
    <3>1. CASE i <= Len(b)
      <4>1. i \in 2 .. Len(b) /\ i - 1 \in 1 .. Len(b) - 1
        BY <2>1, <3>1
      <4> QED BY <2>1, <2>2, <4>1
    <3>2. CASE i > Len(b)
      <4>1. ate /\ i = Len(b) + 1 /\ Len(b) - 1 \in 1 .. Len(b) - 1
        BY <2>1, <3>2
      <4> QED BY <2>1, <2>2, <4>1
    <3>3. i \in Int /\ Len(b) \in Int
      BY <2>1
    <3>4. i <= Len(b) \/ i > Len(b)
      BY <3>3
    <3> QED BY <3>1, <3>2, <3>4
  <2>3. ASSUME NEW j \in 1 .. Len(b) - 1, b[j] = c
        PROVE  \E i \in 2 .. Len(m(s)) : m(s)[i] = c
    <3>1. j + 1 \in 2 .. Len(b) /\ j + 1 \in 2 .. Len(m(s)) /\ (j + 1) - 1 = j
      BY <2>1
    <3> QED BY <2>1, <2>3, <3>1
  <2> QED BY <2>2, <2>3 DEF b
<1> QED BY <1>1, <1>2

\* The board has finitely many cells.
LEMMA CellIsFinite == IsFiniteSet(Cell)
<1>1. IsFiniteSet(0 .. Width - 1) /\ IsFiniteSet(0 .. Height - 1)
  BY BoardAssumption, FS_Interval
<1> QED BY <1>1, FS_Product DEF Cell

\* A vector with each snake once and no more places than snakes has them all.
LEMMA OrdersListAll ==
    ASSUME NEW seq \in SetToSeqs(Snake)
    PROVE  InOrder(seq, Snake)
<1> DEFINE n == Cardinality(Snake)
<1>1. n \in Nat /\ Cardinality(1 .. n) = n /\ IsFiniteSet(Snake)
  BY GameAssumption, FS_CardinalityType, FS_Interval
<1>2. seq \in [1 .. n -> Snake] /\ \A i, j \in 1 .. n : seq[i] = seq[j] => i = j
  BY DEF SetToSeqs
<1> HIDE DEF n
<1>3. seq \in Injection(1 .. n, Snake)
  BY <1>2 DEF Injection, IsInjective
<1>4. seq \in Surjection(1 .. n, Snake)
  BY <1>1, <1>3, FS_Injection DEF n
<1>5. \A s \in Snake : \E i \in 1 .. n : seq[i] = s
  BY <1>4 DEF Surjection
<1>6. seq \in Seq(Snake) /\ DOMAIN seq = 1 .. n
  BY <1>1, <1>2
<1> QED BY <1>2, <1>5, <1>6 DEF InOrder

\* The game starts in a good state.
THEOREM GameInitInv == Init => GameInv
<1> SUFFICES ASSUME Init PROVE GameInv
  OBVIOUS
<1>1. PICK at \in Injection(Snake, Cell) :
        bodies = [s \in Snake |-> [i \in 1 .. StartLength |-> at[s]]]
  BY DEF Init, StartBodies
<1>2. /\ at \in [Snake -> Cell]
      /\ \A s, t \in Snake : at[s] = at[t] => s = t
  BY DEF Injection, IsInjective
<1>3. StartLength \in Nat /\ StartLength >= 2
  BY GameAssumption
<1>4. \A s \in Snake : /\ bodies[s] \in Seq(Cell) /\ Len(bodies[s]) = StartLength
                       /\ \A i \in 1 .. StartLength : bodies[s][i] = at[s]
  BY <1>1, <1>2, <1>3
<1>5. DOMAIN bodies = Snake /\ bodies \in [Snake -> Seq(Cell)]
  BY <1>1, <1>4
<1>6. InOrder(order, Snake)
  BY OrdersListAll DEF Init
<1>7. food \subseteq Cell /\ IsFiniteSet(food)
  <2>1. food \in SUBSET Cell
    BY DEF Init, kSubset
  <2> QED BY <2>1, CellIsFinite, FS_Subset
<1>8. TypeOK
  BY <1>3, <1>4, <1>5, <1>6, <1>7 DEF TypeOK
<1>9. BodiesDisjoint
  BY <1>2, <1>4, <1>5 DEF BodiesDisjoint, cells, Range
<1>10. BodiesArePaths
  BY <1>2, <1>3, <1>4, <1>5 DEF BodiesArePaths, IsPath, Range
<1>11. FoodFree
  <2>1. \A s \in Snake : at[s] \notin food
    BY <1>3, <1>4, <1>5 DEF Init
  <2> QED BY <1>4, <1>5, <2>1 DEF FoodFree, cells, Range
<1> QED BY <1>8, <1>9, <1>10, <1>11 DEF GameInv

\* Every turn leaves a good state.
THEOREM GameStep == GameInv /\ [Next]_vars => GameInv'
<1> SUFFICES ASSUME GameInv, [Next]_vars PROVE GameInv'
  OBVIOUS
<1> USE DEF GameInv
<1>1. CASE UNCHANGED vars
  BY <1>1 DEF vars, TypeOK, BodiesDisjoint, BodiesArePaths, FoodFree, cells
<1>2. ASSUME NEW dir \in [DOMAIN bodies -> Direction], ApplyTurn(dir)
      PROVE  GameInv'
  <2> DEFINE alive == Rules!survivors(dir)
             moved(s) == Rules!moved(s, dir)
  <2>1. /\ bodies' = Rules!BodiesAfter(dir) /\ food' = Rules!FoodAfter(dir)
        /\ InOrder(order', DOMAIN bodies')
    BY <1>2, TurnIsRules DEF ApplyTurn
  <2>2. /\ DOMAIN bodies' = alive /\ alive \subseteq DOMAIN bodies
        /\ \A s \in alive : bodies'[s] = moved(s)
    BY <2>1 DEF Rules!BodiesAfter, Rules!survivors, Rules!alive
  <2>3. ASSUME NEW s \in alive
        PROVE  /\ IsPath(moved(s)) /\ moved(s) \in Seq(Cell)
               /\ moved(s)[1] = Rules!head(s, dir)
               /\ \A i \in 2 .. Len(moved(s)) : moved(s)[i] \in Rules!tails(dir)
               /\ \A i \in 2 .. Len(moved(s)) :
                     \E j \in 1 .. Len(bodies[s]) : moved(s)[i] = bodies[s][j]
    <3> DEFINE b == bodies[s]
               m == moved(s)
               ate == Rules!eats(s, dir)
    <3>1. /\ b \in Seq(Cell) /\ Len(b) \in Nat /\ Len(b) >= 2
          /\ m \in Seq(Point)
          /\ Len(m) = Len(b) + (IF ate THEN 1 ELSE 0)
          /\ m[1] = Rules!head(s, dir)
          /\ \A i \in 2 .. Len(b) : m[i] = b[i - 1]
          /\ ate => m[Len(b) + 1] = b[Len(b) - 1]
      BY <2>2, MovedFacts
    <3>2. \A i \in 2 .. Len(m) : m[i] \in Rules!tails(dir)
      BY <2>2 DEF Rules!tails, Rules!alive
    <3>3. ~OutOfBounds(m[1]) /\ m[1] \notin Rules!tails(dir)
      BY <3>1, RulesBounds DEF Rules!survivors
    <3>4. m[1] = CoordAfterMove(b[1], dir[s]) /\ dir[s] \in Direction /\ IsPath(b)
      BY <2>2, <3>1, RulesHead DEF BodiesArePaths
    <3>5. ate \in BOOLEAN
      BY DEF Rules!eats
    <3>6. \A i \in 2 .. Len(m) : \E j \in 1 .. Len(b) : m[i] = b[j]
      <4> SUFFICES ASSUME NEW i \in 2 .. Len(m)
                   PROVE  \E j \in 1 .. Len(b) : m[i] = b[j]
        OBVIOUS
      <4> HIDE DEF b, m, ate
      <4>1. CASE i <= Len(b)
        BY <3>1, <4>1
      <4>2. CASE i > Len(b)
        <5>1. ate /\ i = Len(b) + 1
          BY <3>1, <4>2
        <5> QED BY <3>1, <5>1
      <4> QED BY <3>1, <4>1, <4>2
    <3>7. \A i \in 2 .. Len(m) : m[i] # m[1]
      BY <3>2, <3>3
    <3> HIDE DEF b, m, ate
    <3>8. IsPath(m) /\ m \in Seq(Cell)
      BY <3>1, <3>3, <3>4, <3>5, <3>7, PathMovesOn
    <3> QED BY <3>1, <3>2, <3>6, <3>8 DEF m, b
  <2>4. TypeOK'
    <3>1. bodies' \in [DOMAIN bodies' -> Seq(Cell)]
      BY <2>1, <2>2, <2>3 DEF Rules!BodiesAfter
    <3>2. \A s \in alive : Len(bodies'[s]) >= 2
      BY <2>2, <2>3 DEF IsPath
    <3>3. food' \in SUBSET food
      BY <2>1 DEF Rules!FoodAfter
    <3>4. food' \subseteq Cell /\ IsFiniteSet(food')
      BY <3>3, FS_Subset DEF TypeOK
    <3> QED BY <2>1, <2>2, <3>1, <3>2, <3>4 DEF TypeOK
  <2>5. BodiesArePaths'
    BY <2>2, <2>3 DEF BodiesArePaths
  <2>6. BodiesDisjoint'
    <3> SUFFICES ASSUME NEW s \in alive, NEW t \in alive, s # t,
                        NEW i \in DOMAIN moved(s), NEW j \in DOMAIN moved(t),
                        moved(s)[i] = moved(t)[j]
                 PROVE  FALSE
      BY <2>2 DEF BodiesDisjoint, cells, Range
    <3>1. i \in 1 .. Len(moved(s)) /\ j \in 1 .. Len(moved(t))
      BY <2>3
    <3>2. \A r \in alive : Rules!head(r, dir) \notin Rules!tails(dir)
      BY DEF Rules!survivors
    <3>3. CASE i = 1 /\ j = 1
      <4>1. Rules!head(s, dir) = Rules!head(t, dir)
        BY <2>3, <3>3
      <4>2. /\ Rules!wins(s, dir) /\ Rules!wins(t, dir)
            /\ s \in DOMAIN bodies /\ t \in DOMAIN bodies
        BY <2>2 DEF Rules!survivors
      <4>3. Len(bodies[t]) < Len(bodies[s]) /\ Len(bodies[s]) < Len(bodies[t])
        BY <4>1, <4>2 DEF Rules!wins, Rules!size, Rules!alive
      <4>4. Len(bodies[t]) \in Nat /\ Len(bodies[s]) \in Nat
        BY <4>2 DEF TypeOK
      <4> QED BY <4>3, <4>4
    <3>4. CASE i = 1 /\ j # 1
      <4>1. j \in 2 .. Len(moved(t))
        BY <3>1, <3>4
      <4> QED BY <2>3, <3>2, <3>4, <4>1
    <3>5. CASE i # 1 /\ j = 1
      <4>1. i \in 2 .. Len(moved(s))
        BY <3>1, <3>5
      <4> QED BY <2>3, <3>2, <3>5, <4>1
    <3>6. CASE i # 1 /\ j # 1
      <4>1. i \in 2 .. Len(moved(s)) /\ j \in 2 .. Len(moved(t))
        BY <3>1, <3>6
      <4>2. PICK x \in 1 .. Len(bodies[s]), y \in 1 .. Len(bodies[t]) :
              moved(s)[i] = bodies[s][x] /\ moved(t)[j] = bodies[t][y]
        BY <2>3, <4>1
      <4>3. /\ s \in DOMAIN bodies /\ t \in DOMAIN bodies
            /\ x \in DOMAIN bodies[s] /\ y \in DOMAIN bodies[t]
        BY <2>2 DEF TypeOK
      <4>4. bodies[s][x] \in cells(s) \cap cells(t)
        BY <4>2, <4>3 DEF cells, Range
      <4> QED BY <4>3, <4>4 DEF BodiesDisjoint
    <3> QED BY <3>3, <3>4, <3>5, <3>6
  <2>7. FoodFree'
    <3> SUFFICES ASSUME NEW s \in alive, NEW i \in DOMAIN moved(s),
                        moved(s)[i] \in food'
                 PROVE  FALSE
      BY <2>2 DEF FoodFree, cells, Range
    <3>1. i \in 1 .. Len(moved(s)) /\ moved(s)[i] \in food
      BY <2>1, <2>3 DEF Rules!FoodAfter
    <3>2. CASE i = 1
      <4>1. s \in DOMAIN bodies /\ Rules!wins(s, dir)
        BY <2>2 DEF Rules!survivors
      <4> QED BY <2>1, <2>3, <3>1, <3>2, <4>1 DEF Rules!FoodAfter, Rules!eats, Rules!alive
    <3>3. CASE i # 1
      <4>1. i \in 2 .. Len(moved(s))
        BY <3>1, <3>3
      <4>2. PICK j \in 1 .. Len(bodies[s]) : moved(s)[i] = bodies[s][j]
        BY <2>3, <4>1
      <4>3. s \in DOMAIN bodies /\ j \in DOMAIN bodies[s]
        BY <2>2 DEF TypeOK
      <4> QED BY <3>1, <4>2, <4>3 DEF FoodFree, cells, Range
    <3> QED BY <3>2, <3>3
  <2> QED BY <2>4, <2>5, <2>6, <2>7
<1> QED BY <1>1, <1>2 DEF Next

\* Every reachable state of the game is good.
THEOREM GameInvariance == Spec => []GameInv
BY GameInitInv, GameStep, PTL DEF Spec

\* No two living snakes ever share a cell after a turn (applyMoves).
THEOREM Disjoint == Spec => []BodiesDisjoint
BY GameInvariance, PTL DEF GameInv

\* Bodies always lie on the board and meet themselves only at the end.
THEOREM Paths == Spec => []BodiesArePaths
BY GameInvariance, PTL DEF GameInv

\* From every reachable state, whatever the snakes do next and in whatever
\* order they are listed, applyMoves comes to what the rules say.
THEOREM RulesFollowed == Spec => []TurnFollowsRules
<1>1. GameInv => TurnFollowsRules
  BY TurnIsRules DEF GameInv, TurnFollowsRules
<1> QED BY <1>1, GameInvariance, PTL

\* Every turn the game takes is a turn of the rules: applyMoves implements
\* them, with the order of the vector hidden.
THEOREM Ruled == Spec => RuledTurns
<1>1. GameInv /\ [Next]_vars =>
        [\E dir \in [DOMAIN bodies -> Direction] : Rules!Turn(dir)]_<<bodies, food>>
  BY TurnIsRules DEF GameInv, Next, ApplyTurn, Rules!Turn, vars
<1> QED BY <1>1, GameInvariance, PTL DEF Spec, RuledTurns

-----------------------------------------------------------------------------
(* the map of a GameState *)

\* The marks that the parts of a body put on the map, each a cell and the
\* number of turns until the part has left it.
MarksOf(b) == {<<b[i], Len(b) - i>> : i \in 1 .. Len(b)}
AllMarks(B) == UNION {MarksOf(b) : b \in B}

\* In the cells of the map v are the largest of the given marks, and 0 in a
\* cell without one.
Marked(v, marks) ==
    /\ v \in [Cell -> Nat]
    /\ \A m \in marks : m[2] <= v[m[1]]
    /\ \A c \in Cell : v[c] = 0 \/ <<c, v[c]>> \in marks

\* Cell::vacate with one mark more.
LEMMA VacateMarks ==
    ASSUME NEW v, NEW marks \in SUBSET (Cell \X Nat), Marked(v, marks),
           NEW c \in Cell, NEW t \in Nat
    PROVE  Marked(Vacate(v, c, t), marks \cup {<<c, t>>})
<1> DEFINE u == Vacate(v, c, t)
<1>1. /\ v \in [Cell -> Nat] /\ u \in [Cell -> Nat]
      /\ u[c] = IF t > v[c] THEN t ELSE v[c]
      /\ \A d \in Cell \ {c} : u[d] = v[d]
  BY DEF Marked, Vacate
<1> HIDE DEF u
<1>2. \A d \in Cell : v[d] \in Nat /\ u[d] \in Nat /\ v[d] <= u[d]
  <2> TAKE d \in Cell
  <2>1. CASE d = c
    BY <1>1, <2>1
  <2>2. CASE d # c
    <3>1. u[d] = v[d] /\ v[d] \in Nat
      BY <1>1, <2>2
    <3> QED BY <3>1
  <2> QED BY <2>1, <2>2
<1>3. ASSUME NEW m \in marks \cup {<<c, t>>} PROVE m[2] <= u[m[1]]
  <2>1. CASE m \in marks
    <3>1. m[1] \in Cell /\ m[2] \in Nat /\ m[2] <= v[m[1]]
      BY <2>1 DEF Marked
    <3>2. v[m[1]] \in Nat /\ u[m[1]] \in Nat /\ v[m[1]] <= u[m[1]]
      BY <1>2, <3>1
    <3> QED BY <3>1, <3>2
  <2>2. CASE m = <<c, t>>
    BY <1>1, <1>2, <2>2
  <2> QED BY <2>1, <2>2
<1>4. ASSUME NEW d \in Cell
      PROVE  u[d] = 0 \/ <<d, u[d]>> \in marks \cup {<<c, t>>}
  <2>1. v[d] = 0 \/ <<d, v[d]>> \in marks
    BY DEF Marked
  <2>2. u[d] = v[d] \/ (d = c /\ u[d] = t)
    BY <1>1
  <2> QED BY <2>1, <2>2
<1> QED BY <1>1, <1>3, <1>4 DEF u, Marked

\* Map::updateVacateTurnsForSnake puts the marks of a snake on the map.
LEMMA VacateSnakeMarks ==
    ASSUME NEW v, NEW marks \in SUBSET (Cell \X Nat), Marked(v, marks),
           NEW b \in Seq(Cell)
    PROVE  /\ Marked(VacateSnake(v, b), marks \cup MarksOf(b))
           /\ MarksOf(b) \in SUBSET (Cell \X Nat)
<1>0. PICK n \in Nat : n = Len(b)
  OBVIOUS
<1>1. \A k \in 1 .. n : b[k] \in Cell /\ n - k \in Nat
  BY <1>0
<1> DEFINE S == [Cell -> Nat]
           step == [k \in 1 .. n |-> [a \in S |-> Vacate(a, b[k], n - k)]]
           id == [i \in 1 .. n |-> i]
           IsFold(g) == g = [s \in SUBSET (1 .. n) |-> IF s = {} THEN v
                    ELSE Vacate(g[s \ {Max(s)}], b[id[Max(s)]], n - id[Max(s)])]
           it == CHOOSE g : IsFold(g)
<1>2. ASSUME NEW a \in S, NEW k \in 1 .. n
      PROVE  Vacate(a, b[k], n - k) \in S
  BY <1>1 DEF Vacate
<1>3. PICK g \in [SUBSET (1 .. n) -> S] : Folding(g, n, v, step)
  <2>1. v \in S /\ step \in [1 .. n -> [S -> S]]
    BY <1>2 DEF Marked
  <2> HIDE DEF S, step
  <2> QED BY <2>1, FoldExists
<1>4. IsFold(g)
  <2>1. ASSUME NEW s \in SUBSET (1 .. n), s # {}
        PROVE  step[Max(s)][g[s \ {Max(s)}]]
                 = Vacate(g[s \ {Max(s)}], b[id[Max(s)]], n - id[Max(s)])
    <3>1. Max(s) \in 1 .. n /\ g[s \ {Max(s)}] \in S
      BY <2>1, MaxIsIn
    <3> QED BY <3>1
  <2> HIDE DEF step
  <2> QED BY <1>3, <2>1 DEF Folding
<1>5. IsFold(it)
  <2> HIDE DEF IsFold
  <2> QED BY <1>4
<1>6. VacateSnake(v, b) = it[1 .. n]
  <2>1. DOMAIN id = 1 .. n
    OBVIOUS
  <2>2. VacateSnake(v, b) = FoldLeft(LAMBDA w, i : Vacate(w, b[i], n - i), v, id)
    BY <1>0 DEF VacateSnake
  <2> HIDE DEF id
  <2> QED BY <2>1, <2>2 DEF FoldLeft, MapThenFoldSet
<1> HIDE DEF it
<1> DEFINE seen(k) == marks \cup {<<b[i], n - i>> : i \in 1 .. k}
           T == {k \in 0 .. n : /\ seen(k) \in SUBSET (Cell \X Nat)
                                /\ Marked(it[1 .. k], seen(k))}
<1>7. 0 \in T
  <2>1. it[1 .. 0] = v /\ seen(0) = marks
    BY <1>5
  <2> HIDE DEF seen
  <2> QED BY <2>1
<1>8. ASSUME NEW k \in 1 .. n, k - 1 \in T PROVE k \in T
  <2>1. it[1 .. k] = Vacate(it[1 .. (k - 1)], b[k], n - k)
    <3>1. /\ 1 .. k \in SUBSET (1 .. n) /\ 1 .. k # {} /\ id[Max(1 .. k)] = k
          /\ (1 .. k) \ {Max(1 .. k)} = 1 .. (k - 1)
      BY Segments
    <3> HIDE DEF id
    <3> QED BY <1>5, <3>1
  <2>2. seen(k) = seen(k - 1) \cup {<<b[k], n - k>>}
    <3>1. 1 .. k = (1 .. (k - 1)) \cup {k}
      OBVIOUS
    <3> QED BY <3>1
  <2>3. /\ seen(k - 1) \in SUBSET (Cell \X Nat)
        /\ Marked(it[1 .. (k - 1)], seen(k - 1))
    BY <1>8
  <2>4. b[k] \in Cell /\ n - k \in Nat
    BY <1>1
  <2> HIDE DEF seen
  <2>5. Marked(it[1 .. k], seen(k))
    BY <2>1, <2>2, <2>3, <2>4, VacateMarks
  <2>6. seen(k) \in SUBSET (Cell \X Nat)
    BY <2>2, <2>3, <2>4
  <2> QED BY <2>5, <2>6
<1>9. n \in T
  <2> HIDE DEF T
  <2> QED BY <1>7, <1>8, BoundedInduction
<1>10. seen(n) = marks \cup MarksOf(b)
  BY <1>0 DEF MarksOf
<1> HIDE DEF seen
<1> QED BY <1>6, <1>9, <1>10

\* the bodies that cells can make up
Body == Seq(Cell)

\* Map::update puts the marks of all snakes on the map.
LEMMA MapMarks ==
    ASSUME NEW n \in Nat, NEW parts \in [1 .. n -> Body]
    PROVE  Marked(VacatedMap(parts), UNION {MarksOf(parts[i]) : i \in 1 .. n})
<1>1. \A k \in 1 .. n : parts[k] \in Body
  OBVIOUS
<1> DEFINE S == [Cell -> Nat]
           base == [c \in Cell |-> 0]
           step == [k \in 1 .. n |-> [a \in S |-> VacateSnake(a, parts[k])]]
           IsFold(g) == g = [s \in SUBSET (1 .. n) |-> IF s = {} THEN base
                    ELSE VacateSnake(g[s \ {Max(s)}], parts[Max(s)])]
           it == CHOOSE g : IsFold(g)
<1>2. ASSUME NEW a \in S, NEW k \in 1 .. n
      PROVE  VacateSnake(a, parts[k]) \in S
  <2>2. Marked(a, {<<c, a[c]>> : c \in Cell})
    BY DEF Marked
  <2>3. {<<c, a[c]>> : c \in Cell} \in SUBSET (Cell \X Nat)
    OBVIOUS
  <2> QED BY <1>1, <2>2, <2>3, VacateSnakeMarks DEF Marked, Body
<1>3. IsFold(it)
  <2>1. PICK g \in [SUBSET (1 .. n) -> S] : Folding(g, n, base, step)
    <3>1. base \in S /\ step \in [1 .. n -> [S -> S]]
      BY <1>2
    <3> HIDE DEF S, base, step
    <3> QED BY <3>1, FoldExists
  <2>2. ASSUME NEW s \in SUBSET (1 .. n), s # {}
        PROVE  step[Max(s)][g[s \ {Max(s)}]]
                 = VacateSnake(g[s \ {Max(s)}], parts[Max(s)])
    <3>1. Max(s) \in 1 .. n /\ g[s \ {Max(s)}] \in S
      BY <2>2, MaxIsIn
    <3> QED BY <3>1
  <2>3. IsFold(g)
    <3> HIDE DEF step
    <3> QED BY <2>1, <2>2 DEF Folding
  <2> HIDE DEF IsFold
  <2> QED BY <2>3
<1>6. VacatedMap(parts) = it[1 .. n]
  <2>1. DOMAIN parts = 1 .. n
    OBVIOUS
  <2> QED BY <2>1 DEF VacatedMap, FoldLeft, MapThenFoldSet
<1>a. it[1 .. 0] = base
  <2>1. 1 .. 0 = {}
    OBVIOUS
  <2> QED BY <1>3, <2>1
<1>d. ASSUME NEW k \in 1 .. n
      PROVE  it[1 .. k] = VacateSnake(it[1 .. (k - 1)], parts[k])
  <2>1. /\ 1 .. k \in SUBSET (1 .. n) /\ 1 .. k # {} /\ Max(1 .. k) = k
        /\ (1 .. k) \ {Max(1 .. k)} = 1 .. (k - 1)
    BY Segments
  <2> QED BY <1>3, <2>1
<1>b. Marked(base, {})
  BY DEF Marked
<1> HIDE DEF it, base, S, step, IsFold
<1> DEFINE marks(k) == UNION {MarksOf(parts[i]) : i \in 1 .. k}
           T == {k \in 0 .. n : /\ marks(k) \in SUBSET (Cell \X Nat)
                                /\ Marked(it[1 .. k], marks(k))}
<1>c. /\ marks(0) = {}
      /\ \A k \in 1 .. n : marks(k) = marks(k - 1) \cup MarksOf(parts[k])
  <2>1. \A k \in 1 .. n : 1 .. k = (1 .. (k - 1)) \cup {k}
    OBVIOUS
  <2> QED BY <2>1
<1>7. 0 \in T
  <2> HIDE DEF marks
  <2>1. marks(0) \in SUBSET (Cell \X Nat) /\ Marked(it[1 .. 0], marks(0))
    BY <1>a, <1>b, <1>c
  <2> QED BY <2>1
<1>8. ASSUME NEW k \in 1 .. n, k - 1 \in T PROVE k \in T
  <2>1. /\ marks(k - 1) \in SUBSET (Cell \X Nat)
        /\ Marked(it[1 .. (k - 1)], marks(k - 1))
    BY <1>8
  <2> HIDE DEF marks
  <2>2. /\ Marked(it[1 .. k], marks(k - 1) \cup MarksOf(parts[k]))
        /\ MarksOf(parts[k]) \in SUBSET (Cell \X Nat)
    <3>1. parts[k] \in Seq(Cell)
      BY <1>1 DEF Body
    <3>2. it[1 .. k] = VacateSnake(it[1 .. (k - 1)], parts[k])
      BY <1>d
    <3> QED BY <2>1, <3>1, <3>2, VacateSnakeMarks
  <2>3. Marked(it[1 .. k], marks(k)) /\ marks(k) \in SUBSET (Cell \X Nat)
    BY <1>c, <2>1, <2>2
  <2> QED BY <2>3
<1>9. n \in T
  <2> HIDE DEF T
  <2> QED BY <1>7, <1>8, BoundedInduction
<1> QED BY <1>6, <1>9

\* A count in the map is that of a part in the cell ...
LEMMA MarkIsThere ==
    ASSUME NEW B, NEW v, Marked(v, AllMarks(B)), NEW c \in Cell
    PROVE  /\ v[c] \in Nat
           /\ v[c] # 0 =>
                 \E b \in B : \E i \in 1 .. Len(b) : b[i] = c /\ v[c] = Len(b) - i
<1>1. v[c] \in Nat
  BY DEF Marked
<1>2. ASSUME v[c] # 0
      PROVE  \E b \in B : \E i \in 1 .. Len(b) : b[i] = c /\ v[c] = Len(b) - i
  <2>1. PICK b \in B : <<c, v[c]>> \in MarksOf(b)
    BY <1>2 DEF Marked, AllMarks
  <2> QED BY <2>1 DEF MarksOf
<1> QED BY <1>1, <1>2

\* ... and no part there leaves later.
LEMMA MarkCounts ==
    ASSUME NEW B, NEW v, Marked(v, AllMarks(B)), NEW b \in B, NEW i \in 1 .. Len(b)
    PROVE  Len(b) - i <= v[b[i]]
<1>1. <<b[i], Len(b) - i>> \in AllMarks(B)
  BY DEF AllMarks, MarksOf
<1>2. <<b[i], Len(b) - i>>[2] <= v[<<b[i], Len(b) - i>>[1]]
  BY <1>1 DEF Marked
<1> QED BY <1>2

\* The map is 0 exactly in the cells that will be free after the next turn:
\* those that no part but the last of a body lies in.
LEMMA ZeroIsFree ==
    ASSUME NEW B, B \subseteq Body, NEW v,
           Marked(v, AllMarks(B)), NEW c \in Cell
    PROVE  /\ v[c] \in Nat
           /\ v[c] = 0 <=> \A b \in B : \A i \in 1 .. Len(b) - 1 : b[i] # c
<1>1. v[c] \in Nat
  BY MarkIsThere
<1>2. ASSUME v[c] = 0, NEW b \in B, NEW i \in 1 .. Len(b) - 1, b[i] = c
      PROVE  FALSE
  <2>1. Len(b) \in Nat
    BY DEF Body
  <2>2. i \in 1 .. Len(b) /\ Len(b) - i > 0
    BY <2>1
  <2>3. Len(b) - i <= v[b[i]]
    BY <2>2, MarkCounts
  <2> QED BY <1>2, <2>1, <2>2, <2>3
<1>3. ASSUME v[c] # 0
      PROVE  \E b \in B : \E i \in 1 .. Len(b) - 1 : b[i] = c
  <2>1. PICK b \in B : \E i \in 1 .. Len(b) : b[i] = c /\ v[c] = Len(b) - i
    BY <1>3, MarkIsThere
  <2>2. PICK i \in 1 .. Len(b) : b[i] = c /\ v[c] = Len(b) - i
    BY <2>1
  <2>3. Len(b) \in Nat
    BY DEF Body
  <2>4. i \in 1 .. Len(b) - 1
    BY <1>1, <1>3, <2>2, <2>3
  <2> QED BY <2>2, <2>4
<1> QED BY <1>1, <1>2, <1>3

-----------------------------------------------------------------------------
(* the cells around a head *)

\* What the algorithms see of the game.
LEMMA ViewFacts ==
    ASSUME TypeOK, Me \in DOMAIN bodies
    PROVE  /\ view.me = bodies[Me]
           /\ {view.enemies[i] : i \in DOMAIN view.enemies}
                = {bodies[s] : s \in DOMAIN bodies \ {Me}}
           /\ \A c \in Cell :
                 /\ view.vacated[c] \in Nat
                 /\ view.vacated[c] = 0 <=>
                       \A s \in DOMAIN bodies :
                          \A i \in 1 .. Len(bodies[s]) - 1 : bodies[s][i] # c
<1> DEFINE D == DOMAIN bodies
           parts == [i \in DOMAIN order |-> bodies[order[i]]]
           enemies == [i \in DOMAIN others |-> bodies[others[i]]]
<1>1. view.me = bodies[Me] /\ view.enemies = enemies /\ view.vacated = VacatedMap(parts)
  BY DEF view
<1>2. InOrder(order, D) /\ bodies \in [D -> Body]
  BY DEF TypeOK, Body
<1>3. InOrder(others, D \ {Me})
  BY <1>2, WithoutOutcome DEF others
<1>4. PICK m \in Nat : /\ others \in [1 .. m -> D \ {Me}]
                       /\ \A s \in D \ {Me} : \E i \in 1 .. m : others[i] = s
  <2> DEFINE E == D \ {Me}
  <2> HIDE DEF E
  <2>1. InOrder(others, E)
    BY <1>3 DEF E
  <2>2. /\ Len(others) \in Nat /\ others \in [1 .. Len(others) -> E]
        /\ \A s \in E : \E i \in 1 .. Len(others) : others[i] = s
    BY <2>1, InOrderFacts
  <2> QED BY <2>2 DEF E
<1>5. {enemies[i] : i \in DOMAIN enemies} = {bodies[s] : s \in D \ {Me}}
  <2>1. DOMAIN enemies = 1 .. m /\ \A i \in 1 .. m : enemies[i] = bodies[others[i]]
    BY <1>4
  <2> HIDE DEF enemies
  <2> QED BY <1>4, <2>1
<1>6. PICK n \in Nat : /\ order \in [1 .. n -> D]
                       /\ \A s \in D : \E i \in 1 .. n : order[i] = s
  BY <1>2, InOrderFacts
<1>7. parts \in [1 .. n -> Body] /\ \A i \in 1 .. n : parts[i] = bodies[order[i]]
  BY <1>2, <1>6
<1> HIDE DEF parts, enemies
<1>8. Marked(VacatedMap(parts), UNION {MarksOf(parts[i]) : i \in 1 .. n})
  BY <1>7, MapMarks
<1> DEFINE B == {bodies[s] : s \in D}
<1>9. {MarksOf(parts[i]) : i \in 1 .. n} = {MarksOf(b) : b \in B}
  BY <1>6, <1>7
<1>10. B \subseteq Body
  BY <1>2
<1>11. Marked(view.vacated, AllMarks(B))
  BY <1>1, <1>8, <1>9 DEF AllMarks
<1>12. ASSUME NEW c \in Cell
       PROVE  /\ view.vacated[c] \in Nat
              /\ view.vacated[c] = 0 <=>
                    \A s \in D : \A i \in 1 .. Len(bodies[s]) - 1 : bodies[s][i] # c
  <2>1. /\ view.vacated[c] \in Nat
        /\ view.vacated[c] = 0 <=> \A b \in B : \A i \in 1 .. Len(b) - 1 : b[i] # c
    <3> DEFINE v == view.vacated
    <3> HIDE DEF B, v
    <3>1. Marked(v, AllMarks(B))
      BY <1>11 DEF v
    <3>2. /\ v[c] \in Nat
          /\ v[c] = 0 <=> \A b \in B : \A i \in 1 .. Len(b) - 1 : b[i] # c
      BY <1>10, <3>1, ZeroIsFree
    <3> QED BY <3>2 DEF v
  <2> QED BY <2>1
<1> QED BY <1>1, <1>5, <1>12

\* My snake survives a turn exactly if it stays on the board, meets no tail,
\* and no snake as long as it goes to the same cell.
LEMMA SurviveIf ==
    ASSUME GameInv, Me \in DOMAIN bodies, NEW dir \in [DOMAIN bodies -> Direction]
    PROVE  LET p == CoordAfterMove(bodies[Me][1], dir[Me])
           IN ISurvive(dir) <=>
                /\ ~OutOfBounds(p)
                /\ \A s \in DOMAIN bodies :
                      \A i \in 1 .. Len(bodies[s]) - 1 : bodies[s][i] # p
                /\ \A s \in DOMAIN bodies \ {Me} :
                      CoordAfterMove(bodies[s][1], dir[s]) = p
                        => Len(bodies[s]) < Len(bodies[Me])
<1> DEFINE p == CoordAfterMove(bodies[Me][1], dir[Me])
           wins == Rules!wins(Me, dir)
<1>1. TypeOK
  BY DEF GameInv
<1>2. ISurvive(dir) <=> Me \in Rules!survivors(dir)
  BY <1>1, TurnIsRules DEF ISurvive, Rules!BodiesAfter
<1>3. p = Rules!head(Me, dir)
  BY RulesHead
<1>4. Me \in Rules!survivors(dir) <=> /\ wins /\ ~OutOfBounds(p)
                                      /\ p \notin Rules!tails(dir)
  BY <1>3, RulesBounds DEF Rules!survivors, Rules!alive
<1>5. wins <=> \A s \in DOMAIN bodies \ {Me} :
                  CoordAfterMove(bodies[s][1], dir[s]) = p
                    => Len(bodies[s]) < Len(bodies[Me])
  BY <1>3, RulesHead DEF Rules!wins, Rules!alive, Rules!size
<1> HIDE DEF p, wins
<1>6. p \in Rules!tails(dir) <=>
        \E s \in DOMAIN bodies : \E i \in 1 .. Len(bodies[s]) - 1 : bodies[s][i] = p
  BY <1>1, TailsAre
<1>7. ISurvive(dir) <=>
        /\ ~OutOfBounds(p)
        /\ \A s \in DOMAIN bodies :
              \A i \in 1 .. Len(bodies[s]) - 1 : bodies[s][i] # p
        /\ \A s \in DOMAIN bodies \ {Me} :
              CoordAfterMove(bodies[s][1], dir[s]) = p
                => Len(bodies[s]) < Len(bodies[Me])
  BY <1>2, <1>4, <1>5, <1>6
<1> QED BY <1>7 DEF p

\* A snake can go to any cell next to its head, and can keep off any cell.
LEMMA Steering ==
    ASSUME NEW h \in Cell, NEW p
    PROVE  /\ p \in Cell /\ IsAdjacent(p, h) =>
                \E d \in Direction : CoordAfterMove(h, d) = p
           /\ \E d \in Direction : CoordAfterMove(h, d) # p
<1>1. /\ Width \in Int /\ Height \in Int /\ CoordMod \in Int
      /\ Width >= 1 /\ Height >= 1
      /\ CoordMod > Width + 1 /\ CoordMod > Height + 1
  BY BoardAssumption
<1>2. /\ h = <<h[1], h[2]>> /\ h[1] \in Int /\ h[2] \in Int
      /\ 0 <= h[1] /\ h[1] < Width /\ 0 <= h[2] /\ h[2] < Height
  BY <1>1 DEF Cell
<1>3. ASSUME p \in Cell, IsAdjacent(p, h)
      PROVE  \E d \in Direction : CoordAfterMove(h, d) = p
  <2>1. /\ p = <<p[1], p[2]>> /\ p[1] \in Int /\ p[2] \in Int
        /\ 0 <= p[1] /\ p[1] < Width /\ 0 <= p[2] /\ p[2] < Height
    BY <1>1, <1>3 DEF Cell
  <2>2. \/ p[1] = h[1] + 1 /\ p[2] = h[2]
        \/ h[1] = p[1] + 1 /\ p[2] = h[2]
        \/ p[2] = h[2] + 1 /\ p[1] = h[1]
        \/ h[2] = p[2] + 1 /\ p[1] = h[1]
    BY <1>2, <1>3, <2>1 DEF IsAdjacent, AbsDiff
  <2>3. CASE p[1] = h[1] + 1 /\ p[2] = h[2]
    <3>1. CoordAfterMove(h, "Right") = p
      BY <1>1, <1>2, <2>1, <2>3 DEF CoordAfterMove, Inc
    <3> QED BY <3>1 DEF Direction
  <2>4. CASE h[1] = p[1] + 1 /\ p[2] = h[2]
    <3>1. CoordAfterMove(h, "Left") = p
      BY <1>1, <1>2, <2>1, <2>4 DEF CoordAfterMove, Dec
    <3> QED BY <3>1 DEF Direction
  <2>5. CASE p[2] = h[2] + 1 /\ p[1] = h[1]
    <3>1. CoordAfterMove(h, "Down") = p
      BY <1>1, <1>2, <2>1, <2>5 DEF CoordAfterMove, Inc
    <3> QED BY <3>1 DEF Direction
  <2>6. CASE h[2] = p[2] + 1 /\ p[1] = h[1]
    <3>1. CoordAfterMove(h, "Up") = p
      BY <1>1, <1>2, <2>1, <2>6 DEF CoordAfterMove, Dec
    <3> QED BY <3>1 DEF Direction
  <2> QED BY <2>2, <2>3, <2>4, <2>5, <2>6
<1>4. CoordAfterMove(h, "Left")[1] # CoordAfterMove(h, "Right")[1]
  <2>1. /\ CoordAfterMove(h, "Left") = <<Dec(h[1]), h[2]>>
        /\ CoordAfterMove(h, "Right") = <<Inc(h[1]), h[2]>>
    BY DEF CoordAfterMove
  <2>2. Inc(h[1]) = h[1] + 1 /\ Dec(h[1]) \in {h[1] - 1, CoordMod - 1}
    BY <1>1, <1>2 DEF Inc, Dec
  <2>3. Inc(h[1]) # Dec(h[1])
    BY <1>1, <1>2, <2>2
  <2> QED BY <2>1, <2>3
<1> QED BY <1>3, <1>4 DEF Direction

\* Whether the cell that a direction leads to is on the board and in no tail,
\* and whether a snake as long as mine can go there.
FreeAhead(d) ==
    LET p == CoordAfterMove(bodies[Me][1], d)
    IN /\ ~OutOfBounds(p)
       /\ \A s \in DOMAIN bodies :
             \A i \in 1 .. Len(bodies[s]) - 1 : bodies[s][i] # p
Threatened(d) ==
    LET p == CoordAfterMove(bodies[Me][1], d)
    IN \E s \in DOMAIN bodies \ {Me} : /\ Len(bodies[Me]) <= Len(bodies[s])
                                       /\ IsAdjacent(p, bodies[s][1])

\* In every good state, the moves are judged by what they may come to: a free
\* cell is survived if the others keep off, a threatened one is not if the one
\* that threatens it goes there.
LEMMA Judgement ==
    ASSUME GameInv, Me \in DOMAIN bodies, NEW d \in Direction
    PROVE  LET p == CoordAfterMove(bodies[Me][1], d)
               mine == {dir \in [DOMAIN bodies -> Direction] : dir[Me] = d}
           IN /\ (\E dir \in mine : ISurvive(dir)) <=> FreeAhead(d)
              /\ FreeAhead(d) =>
                   ((\E dir \in mine : ~ISurvive(dir)) <=> Threatened(d))
              /\ IsCellOk(p, view) <=> FreeAhead(d) /\ ~Is180(p, view)
              /\ FreeAhead(d) =>
                   (CloseToBigHead(p, view.me, view.enemies) <=> Threatened(d))
<1> DEFINE D == DOMAIN bodies
           p == CoordAfterMove(bodies[Me][1], d)
           mine == {dir \in [D -> Direction] : dir[Me] = d}
<1>1. /\ TypeOK /\ \A s \in D : bodies[s][1] \in Cell /\ Len(bodies[s]) \in Nat
  <2>1. \A s \in D : bodies[s] \in Seq(Cell) /\ Len(bodies[s]) >= 2
    BY DEF GameInv, TypeOK
  <2> QED BY <2>1 DEF GameInv
<1>2. FreeAhead(d) => p \in Cell
  <2>1. bodies[Me][1] \in Cell
    BY <1>1
  <2> HIDE DEF D
  <2> QED BY <2>1, OntoTheBoard DEF FreeAhead
<1>3. ASSUME NEW dir \in mine
      PROVE  ISurvive(dir) <=>
               /\ FreeAhead(d)
               /\ \A s \in D \ {Me} : CoordAfterMove(bodies[s][1], dir[s]) = p
                                        => Len(bodies[s]) < Len(bodies[Me])
  <2>1. dir \in [D -> Direction] /\ dir[Me] = d
    OBVIOUS
  <2> HIDE DEF mine
  <2> QED BY <2>1, SurviveIf DEF FreeAhead
<1>4. ASSUME FreeAhead(d) PROVE \E dir \in mine : ISurvive(dir)
  <2>1. \A s \in D : \E e \in Direction : CoordAfterMove(bodies[s][1], e) # p
    BY <1>1, Steering
  <2> DEFINE dir == [s \in D |-> IF s = Me THEN d
                       ELSE CHOOSE e \in Direction : CoordAfterMove(bodies[s][1], e) # p]
  <2>2. /\ dir \in mine
        /\ \A s \in D \ {Me} : CoordAfterMove(bodies[s][1], dir[s]) # p
    <3> HIDE DEF p
    <3> QED BY <2>1
  <2> HIDE DEF dir, mine, p
  <2> QED BY <1>3, <1>4, <2>2
<1>5. ASSUME Threatened(d), FreeAhead(d) PROVE \E dir \in mine : ~ISurvive(dir)
  <2>1. PICK s \in D \ {Me} : /\ Len(bodies[Me]) <= Len(bodies[s])
                              /\ IsAdjacent(p, bodies[s][1])
    BY <1>5 DEF Threatened
  <2>2. PICK e \in Direction : CoordAfterMove(bodies[s][1], e) = p
    BY <1>1, <1>2, <1>5, <2>1, Steering
  <2> DEFINE dir == [r \in D |-> IF r = s THEN e ELSE d]
  <2>3. dir \in mine /\ dir[s] = e
    OBVIOUS
  <2>4. ~(Len(bodies[s]) < Len(bodies[Me]))
    BY <1>1, <2>1
  <2> HIDE DEF dir, mine, p
  <2> QED BY <1>3, <2>2, <2>3, <2>4
<1>6. ASSUME NEW dir \in mine, ~ISurvive(dir), FreeAhead(d) PROVE Threatened(d)
  <2>1. PICK s \in D \ {Me} : /\ CoordAfterMove(bodies[s][1], dir[s]) = p
                              /\ ~(Len(bodies[s]) < Len(bodies[Me]))
    <3> HIDE DEF mine, p
    <3> QED BY <1>3, <1>6
  <2>2. Len(bodies[Me]) <= Len(bodies[s])
    BY <1>1, <2>1
  <2>3. dir[s] \in Direction /\ bodies[s][1] \in Cell
    BY <1>1
  <2>4. ~OutOfBounds(p)
    BY <1>6 DEF FreeAhead
  <2>5. IsAdjacent(p, bodies[s][1])
    BY <2>1, <2>3, <2>4, OntoTheBoard
  <2> QED BY <2>2, <2>5 DEF Threatened
<1>7. IsCellOk(p, view) <=> FreeAhead(d) /\ ~Is180(p, view)
  <2>1. CASE OutOfBounds(p)
    BY <2>1 DEF IsCellOk, FreeAhead
  <2>2. CASE ~OutOfBounds(p)
    <3>1. p \in Cell
      <4>1. bodies[Me][1] \in Cell
        BY <1>1
      <4> QED BY <2>2, <4>1, OntoTheBoard
    <3>2. TurnsUntilVacant(view.vacated, p) = view.vacated[p]
      BY <2>2 DEF TurnsUntilVacant
    <3>3. view.vacated[p] = 0 <=>
            \A s \in D : \A i \in 1 .. Len(bodies[s]) - 1 : bodies[s][i] # p
      <4> HIDE DEF p
      <4> QED BY <1>1, <3>1, ViewFacts
    <3> QED BY <2>2, <3>2, <3>3 DEF IsCellOk, FreeAhead
  <2> QED BY <2>1, <2>2
<1>8. CloseToBigHead(p, view.me, view.enemies) <=> Threatened(d)
  <2>1. /\ view.me = bodies[Me]
        /\ {view.enemies[i] : i \in DOMAIN view.enemies} = {bodies[s] : s \in D \ {Me}}
    BY <1>1, ViewFacts
  <2> HIDE DEF p
  <2>2. CloseToBigHead(p, view.me, view.enemies) <=>
          \E b \in {view.enemies[i] : i \in DOMAIN view.enemies} :
             Len(view.me) <= Len(b) /\ IsAdjacent(p, b[1])
    BY DEF CloseToBigHead
  <2>3. Threatened(d) <=> \E b \in {bodies[s] : s \in D \ {Me}} :
                             Len(bodies[Me]) <= Len(b) /\ IsAdjacent(p, b[1])
    BY DEF Threatened, p
  <2> QED BY <2>1, <2>2, <2>3
<1>9. (\E dir \in mine : ISurvive(dir)) => FreeAhead(d)
  <2> HIDE DEF mine
  <2> QED BY <1>3
<1> QED BY <1>4, <1>5, <1>6, <1>7, <1>8, <1>9

\* NotImmediatelySuicidal and the safe moves of the algorithms are right about
\* the turn that follows, in every reachable state of the game.
THEOREM Judged == Spec => []MovesJudgedRight
<1>1. GameInv => MovesJudgedRight
  <2> SUFFICES ASSUME GameInv, Me \in DOMAIN bodies PROVE MovesJudgedRight
    BY DEF MovesJudgedRight
  <2> DEFINE mine(d) == {dir \in [DOMAIN bodies -> Direction] : dir[Me] = d}
             alive == [d \in Direction |-> {ISurvive(dir) : dir \in mine(d)}]
             fine == {d \in Direction : /\ TRUE \in alive[d]
                                        /\ ~Is180(Destination(view, d), view)}
  <2>1. \A d \in Direction : Destination(view, d) = CoordAfterMove(bodies[Me][1], d)
    BY ViewFacts DEF Destination, GameInv
  <2>2. \A dir : /\ TRUE = ISurvive(dir) <=> ISurvive(dir)
                 /\ FALSE = ISurvive(dir) <=> ~ISurvive(dir)
    BY DEF ISurvive
  <2>3. ASSUME NEW d \in Direction
        PROVE  /\ TRUE \in alive[d] <=> \E dir \in mine(d) : ISurvive(dir)
               /\ FALSE \in alive[d] <=> \E dir \in mine(d) : ~ISurvive(dir)
    <3> HIDE DEF mine
    <3>1. alive[d] = {ISurvive(dir) : dir \in mine(d)}
      OBVIOUS
    <3> HIDE DEF alive
    <3>2. /\ TRUE \in alive[d] <=> \E dir \in mine(d) : TRUE = ISurvive(dir)
          /\ FALSE \in alive[d] <=> \E dir \in mine(d) : FALSE = ISurvive(dir)
      BY <3>1
    <3>3. ASSUME NEW dir \in mine(d), ISurvive(dir) PROVE TRUE \in alive[d]
      BY <2>2, <3>2, <3>3
    <3>4. ASSUME NEW dir \in mine(d), ~ISurvive(dir) PROVE FALSE \in alive[d]
      <4>1. FALSE = ISurvive(dir)
        BY <2>2, <3>4
      <4> QED BY <3>2, <4>1
    <3>5. ASSUME TRUE \in alive[d] PROVE \E dir \in mine(d) : ISurvive(dir)
      <4>1. PICK dir \in mine(d) : TRUE = ISurvive(dir)
        BY <3>2, <3>5
      <4> QED BY <2>2, <4>1
    <3>6. ASSUME FALSE \in alive[d] PROVE \E dir \in mine(d) : ~ISurvive(dir)
      <4>1. PICK dir \in mine(d) : FALSE = ISurvive(dir)
        BY <3>2, <3>6
      <4> QED BY <2>2, <4>1
    <3> QED BY <3>3, <3>4, <3>5, <3>6
  <2> HIDE DEF alive
  <2>4. ASSUME NEW d \in Direction
        PROVE  LET p == Destination(view, d)
               IN /\ IsCellOk(p, view) <=> TRUE \in alive[d] /\ ~Is180(p, view)
                  /\ IsCellSafe(p, view) <=> IsCellOk(p, view) /\ FALSE \notin alive[d]
    BY <2>1, <2>3, Judgement DEF IsCellSafe
  <2>5. NotImmediatelySuicidalMoves(view) = fine
    BY <2>4 DEF NotImmediatelySuicidalMoves
  <2>6. SafeMoves(view) = {d \in NotImmediatelySuicidalMoves(view) : FALSE \notin alive[d]}
    BY <2>4 DEF SafeMoves, NotImmediatelySuicidalMoves
  <2> QED BY <2>5, <2>6 DEF MovesJudgedRight, alive
<1> QED BY <1>1, GameInvariance, PTL

-----------------------------------------------------------------------------
(* what the JavaScript game state is made of *)

\* splice and findIndex: a sequence without the first place of an element.
LEMMA RemoveFirstType ==
    ASSUME NEW S, NEW seq \in Seq(S), NEW s
    PROVE  RemoveFirst(seq, s) \in Seq(S)
<1>1. CASE ~ \E i \in 1 .. Len(seq) : seq[i] = s
  BY <1>1 DEF RemoveFirst
<1>2. CASE \E i \in 1 .. Len(seq) : seq[i] = s
  <2> DEFINE I == {i \in 1 .. Len(seq) : seq[i] = s}
             x == SelectInSeq(seq, LAMBDA v : v = s)
  <2>0. PICK n \in Nat : n = Len(seq)
    OBVIOUS
  <2>1. RemoveFirst(seq, s) = RemoveAt(seq, x)
    BY <1>2 DEF RemoveFirst
  <2>2. x = Min(I)
    BY <1>2 DEF SelectInSeq
  <2> HIDE DEF x
  <2>3. Min(I) \in I
    <3>1. I \in SUBSET Nat /\ I # {}
      BY <1>2
    <3> HIDE DEF I
    <3>2. \E m \in I : \A k \in I : m <= k
      BY <3>1, LeastNat
    <3> QED BY <3>2 DEF Min
  <2>4. x \in 1 .. n
    BY <2>0, <2>2, <2>3
  <2>5. /\ SubSeq(seq, 1, x - 1) \in Seq(S)
        /\ SubSeq(seq, x + 1, Len(seq)) \in Seq(S)
    BY <2>0, <2>4
  <2>6. RemoveAt(seq, x) \in Seq(S)
    BY <2>5 DEF RemoveAt
  <2> QED BY <2>1, <2>6
<1> QED BY <1>1, <1>2

\* Of a list with each element once it leaves a list of the others.
LEMMA RemoveFirstOutcome ==
    ASSUME NEW D, NEW seq, InOrder(seq, D), NEW s
    PROVE  InOrder(RemoveFirst(seq, s), D \ {s})
<1>0. PICK n \in Nat : n = Len(seq)
  BY InOrderFacts
<1>1. /\ seq \in Seq(D)
      /\ \A i, j \in 1 .. n : seq[i] = seq[j] => i = j
      /\ \A t \in D : \E i \in 1 .. n : seq[i] = t
  BY <1>0, InOrderFacts DEF InOrder
<1>2. CASE ~ \E i \in 1 .. n : seq[i] = s
  <2>1. D \ {s} = D /\ RemoveFirst(seq, s) = seq
    BY <1>0, <1>1, <1>2 DEF RemoveFirst
  <2> QED BY <2>1
<1>3. ASSUME NEW x \in 1 .. n, seq[x] = s
      PROVE  InOrder(RemoveFirst(seq, s), D \ {s})
  <2> DEFINE sel == SelectInSeq(seq, LAMBDA v : v = s)
             less == SubSeq(seq, 1, x - 1) \o SubSeq(seq, x + 1, n)
             old(i) == IF i < x THEN i ELSE i + 1
  <2>1. RemoveFirst(seq, s) = RemoveAt(seq, sel)
    BY <1>0, <1>3 DEF RemoveFirst
  <2>2. sel = Min({i \in 1 .. n : seq[i] = s})
    BY <1>0, <1>3 DEF SelectInSeq
  <2> HIDE DEF sel
  <2>3. {i \in 1 .. n : seq[i] = s} = {x}
    BY <1>1, <1>3
  <2>4. Min({x}) = x
    BY DEF Min
  <2>5. RemoveFirst(seq, s) = less
    BY <1>0, <2>1, <2>2, <2>3, <2>4 DEF RemoveAt
  <2>6. /\ SubSeq(seq, 1, x - 1) \in Seq(D) /\ Len(SubSeq(seq, 1, x - 1)) = x - 1
        /\ \A i \in 1 .. x - 1 : SubSeq(seq, 1, x - 1)[i] = seq[i]
        /\ SubSeq(seq, x + 1, n) \in Seq(D) /\ Len(SubSeq(seq, x + 1, n)) = n - x
        /\ \A i \in 1 .. n - x : SubSeq(seq, x + 1, n)[i] = seq[i + x]
    BY <1>0, <1>1
  <2>7. /\ less \in Seq(D) /\ Len(less) = n - 1
        /\ \A i \in 1 .. n - 1 : less[i] = seq[old(i)]
    <3> DEFINE a == SubSeq(seq, 1, x - 1)
               b == SubSeq(seq, x + 1, n)
    <3> HIDE DEF a, b
    <3>1. /\ a \in Seq(D) /\ Len(a) = x - 1 /\ \A i \in 1 .. x - 1 : a[i] = seq[i]
          /\ b \in Seq(D) /\ Len(b) = n - x /\ \A i \in 1 .. n - x : b[i] = seq[i + x]
      BY <2>6 DEF a, b
    <3>a. a \in Seq(D) /\ b \in Seq(D)
      BY <3>1
    <3>c. /\ a \o b \in Seq(D) /\ Len(a \o b) = Len(a) + Len(b)
          /\ \A i \in 1 .. Len(a) + Len(b) :
                (a \o b)[i] = IF i <= Len(a) THEN a[i] ELSE b[i - Len(a)]
      BY <3>a, ConcatProperties
    <3>d. Len(a) + Len(b) = n - 1
      BY <3>1
    <3>2. /\ a \o b \in Seq(D) /\ Len(a \o b) = n - 1
          /\ \A i \in 1 .. n - 1 : (a \o b)[i] = IF i <= x - 1 THEN a[i] ELSE b[i - (x - 1)]
      BY <3>1, <3>c, <3>d
    <3>3. ASSUME NEW i \in 1 .. n - 1 PROVE (a \o b)[i] = seq[old(i)]
      <4>1. CASE i <= x - 1
        <5>1. i \in 1 .. x - 1 /\ old(i) = i
          BY <4>1
        <5> HIDE DEF old
        <5> QED BY <3>1, <3>2, <4>1, <5>1
      <4>2. CASE ~(i <= x - 1)
        <5>1. i - (x - 1) \in 1 .. n - x /\ (i - (x - 1)) + x = i + 1
              /\ old(i) = i + 1
          BY <4>2
        <5>2. (a \o b)[i] = b[i - (x - 1)]
          BY <3>2, <4>2
        <5> HIDE DEF old
        <5> QED BY <3>1, <5>1, <5>2
      <4> QED BY <4>1, <4>2
    <3> QED BY <3>2, <3>3 DEF a, b
  <2> HIDE DEF less
  <2>8. /\ \A i \in 1 .. n - 1 : old(i) \in 1 .. n /\ old(i) # x
        /\ \A i, j \in 1 .. n - 1 : old(i) = old(j) => i = j
        /\ \A j \in 1 .. n : j = x \/ \E i \in 1 .. n - 1 : old(i) = j
    <3>1. ASSUME NEW j \in 1 .. n, j # x PROVE \E i \in 1 .. n - 1 : old(i) = j
      <4>1. CASE j < x
        <5>1. j \in 1 .. n - 1 /\ old(j) = j
          BY <4>1
        <5> QED BY <5>1
      <4>2. CASE j > x
        <5>1. j - 1 \in 1 .. n - 1 /\ old(j - 1) = j
          BY <4>2
        <5> QED BY <5>1
      <4> QED BY <3>1, <4>1, <4>2
    <3> QED BY <3>1
  <2>s. \A i \in 1 .. n : seq[i] \in D
    BY <1>0, <1>1
  <2> HIDE DEF old
  <2>9. ASSUME NEW i \in 1 .. n - 1 PROVE less[i] \in D \ {s}
    <3>1. less[i] = seq[old(i)] /\ old(i) \in 1 .. n /\ old(i) # x
      BY <2>7, <2>8
    <3>2. seq[old(i)] # seq[x]
      BY <1>1, <3>1
    <3> QED BY <1>3, <2>s, <3>1, <3>2
  <2>10. less \in Seq(D \ {s}) /\ DOMAIN less = 1 .. n - 1
    BY <2>7, <2>9
  <2>11. \A i, j \in 1 .. n - 1 : less[i] = less[j] => i = j
    <3> SUFFICES ASSUME NEW i \in 1 .. n - 1, NEW j \in 1 .. n - 1, less[i] = less[j]
                 PROVE  i = j
      OBVIOUS
    <3>1. old(i) = old(j)
      BY <1>1, <2>7, <2>8
    <3> QED BY <2>8, <3>1
  <2>12. \A t \in D \ {s} : \E i \in 1 .. n - 1 : less[i] = t
    <3> SUFFICES ASSUME NEW t \in D \ {s} PROVE \E i \in 1 .. n - 1 : less[i] = t
      OBVIOUS
    <3>1. PICK j \in 1 .. n : seq[j] = t
      BY <1>1
    <3>2. PICK i \in 1 .. n - 1 : old(i) = j
      BY <1>3, <2>8, <3>1
    <3> QED BY <2>7, <3>1, <3>2
  <2> QED BY <2>5, <2>10, <2>11, <2>12 DEF InOrder
<1> QED BY <1>2, <1>3

\* The parts of a snake, of which there are two at least, and the states that
\* the turn goes through.
JsBody == {b \in Seq(Cell) : Len(b) >= 2}
JsParts == UNION {[C -> JsBody] : C \in SUBSET Snake}
Grids == [Cell -> Snake \cup {Nobody}]
Foods == SUBSET Cell
JsStates ==
    {js \in [order : Seq(Snake), parts : JsParts, you : Snake \cup {Nobody},
             enemies : Seq(Snake), food : Foods, grid : Grids,
             vacated : [Cell -> Nat], threw : BOOLEAN] :
        /\ InOrder(js.order, DOMAIN js.parts)
        /\ js.you \in DOMAIN js.parts \cup {Nobody}}

\* all caches are those of _buildCaches
Fresh(js) ==
    /\ js.grid = FilledGrid(js.order, js.parts, js.you)
    /\ js.vacated = VacatedMap(PartsInOrder(js.order, js.parts))

OtherThan(seq, you) == IF you = Nobody THEN <<>> ELSE RemoveFirst(seq, you)
WithOthers(enemies, seq, you) == enemies \o OtherThan(seq, you)

\* the snakes that a cell belongs to
Under0(parts, c) == {s \in DOMAIN parts : c \in Range(parts[s])}

\* What _buildCaches writes into a cell: a snake that lies in it, if any does;
\* and me, if I do.
LEMMA FilledGridIs ==
    ASSUME NEW parts \in JsParts, NEW seq, InOrder(seq, DOMAIN parts),
           NEW you \in DOMAIN parts \cup {Nobody}
    PROVE  LET grid == FilledGrid(seq, parts, you)
           IN /\ grid \in Grids
              /\ \A c \in Cell :
                    /\ grid[c] # Nobody => grid[c] \in Under0(parts, c)
                    /\ Under0(parts, c) # {} => grid[c] # Nobody
                    /\ you \in Under0(parts, c) => grid[c] = you
<1> DEFINE D == DOMAIN parts
           mine == IF you = Nobody THEN <<>> ELSE <<you>>
           L == seq \o mine
<1>0. /\ D \subseteq Snake /\ Nobody \notin D
      /\ \A s \in D : Range(parts[s]) \subseteq Cell
  <2>1. D \subseteq Snake /\ parts \in [D -> JsBody]
    BY DEF JsParts
  <2> QED BY <2>1, NobodyAssumption DEF JsBody, Range
<1>1. PICK m \in Nat : m = Len(seq)
  BY InOrderFacts
<1>2. /\ seq \in Seq(D) /\ Len(seq) = m
      /\ \A s \in D : \E i \in 1 .. m : seq[i] = s
  BY <1>1, InOrderFacts DEF InOrder
<1>3. PICK n \in Nat : /\ n = m + (IF you = Nobody THEN 0 ELSE 1)
                       /\ L \in [1 .. n -> D]
                       /\ \A s \in D : \E i \in 1 .. n : L[i] = s
                       /\ you # Nobody => n \in 1 .. n /\ L[n] = you
  <2>1. CASE you = Nobody
    <3>1. mine = <<>>
      BY <2>1
    <3> HIDE DEF mine
    <3>2. L = seq
      BY <1>2, <3>1, ConcatEmptySeq
    <3> HIDE DEF L
    <3>3. m = m + (IF you = Nobody THEN 0 ELSE 1) /\ seq \in [1 .. m -> D]
      BY <1>2, <2>1
    <3> QED BY <1>2, <2>1, <3>2, <3>3
  <2>2. CASE you # Nobody
    <3>1. L = seq \o <<you>> /\ you \in D
      BY <2>2
    <3> HIDE DEF L
    <3>2. /\ L \in Seq(D) /\ Len(L) = m + 1
          /\ \A i \in 1 .. m : L[i] = seq[i]
          /\ L[m + 1] = you
      BY <1>2, <3>1
    <3>3. \A s \in D : \E i \in 1 .. m + 1 : L[i] = s
      <4> SUFFICES ASSUME NEW s \in D PROVE \E i \in 1 .. m + 1 : L[i] = s
        OBVIOUS
      <4>1. PICK i \in 1 .. m : seq[i] = s
        BY <1>2
      <4>2. i \in 1 .. m + 1 /\ L[i] = s
        BY <3>2, <4>1
      <4> QED BY <4>2
    <3>4. /\ m + 1 \in Nat /\ m + 1 = m + (IF you = Nobody THEN 0 ELSE 1)
          /\ L \in [1 .. m + 1 -> D] /\ m + 1 \in 1 .. m + 1
      BY <2>2, <3>2
    <3> QED BY <3>2, <3>3, <3>4
  <2> QED BY <2>1, <2>2
<1> DEFINE S == Grids
           base == [c \in Cell |-> Nobody]
           step == [k \in 1 .. n |-> [a \in S |-> AddParts(a, parts, L[k])]]
           IsFold(g) == g = [s \in SUBSET (1 .. n) |-> IF s = {} THEN base
                    ELSE AddParts(g[s \ {Max(s)}], parts, L[Max(s)])]
           it == CHOOSE g : IsFold(g)
<1>4. FilledGrid(seq, parts, you) = FoldLeft(LAMBDA grid, s : AddParts(grid, parts, s), base, L)
  BY DEF FilledGrid
<1> HIDE DEF L
<1>5. ASSUME NEW a \in S, NEW k \in 1 .. n PROVE AddParts(a, parts, L[k]) \in S
  BY <1>0, <1>3 DEF AddParts, Grids
<1>6. IsFold(it)
  <2>1. PICK g \in [SUBSET (1 .. n) -> S] : Folding(g, n, base, step)
    <3>1. base \in S /\ step \in [1 .. n -> [S -> S]]
      BY <1>5 DEF Grids
    <3> HIDE DEF S, base, step
    <3> QED BY <3>1, FoldExists
  <2>2. ASSUME NEW s \in SUBSET (1 .. n), s # {}
        PROVE  step[Max(s)][g[s \ {Max(s)}]]
                 = AddParts(g[s \ {Max(s)}], parts, L[Max(s)])
    <3>1. Max(s) \in 1 .. n /\ g[s \ {Max(s)}] \in S
      BY <2>2, MaxIsIn
    <3> QED BY <3>1
  <2>3. IsFold(g)
    <3> HIDE DEF step
    <3> QED BY <2>1, <2>2 DEF Folding
  <2> HIDE DEF IsFold
  <2> QED BY <2>3
<1>7. FilledGrid(seq, parts, you) = it[1 .. n]
  <2>1. DOMAIN L = 1 .. n
    BY <1>3
  <2> QED BY <1>4, <2>1 DEF FoldLeft, MapThenFoldSet
<1>8. it[1 .. 0] = base
  <2>1. 1 .. 0 = {}
    OBVIOUS
  <2> QED BY <1>6, <2>1
<1>9. ASSUME NEW k \in 1 .. n
      PROVE  it[1 .. k] = AddParts(it[1 .. (k - 1)], parts, L[k])
  <2>1. /\ 1 .. k \in SUBSET (1 .. n) /\ 1 .. k # {} /\ Max(1 .. k) = k
        /\ (1 .. k) \ {Max(1 .. k)} = 1 .. (k - 1)
    BY Segments
  <2> QED BY <1>6, <2>1
<1>b. base \in S /\ \A c \in Cell : base[c] = Nobody
  BY DEF Grids
<1> HIDE DEF it, base, step, IsFold, S
<1> DEFINE T == {k \in 0 .. n :
                   /\ it[1 .. k] \in S
                   /\ \A c \in Cell :
                         /\ it[1 .. k][c] # Nobody => it[1 .. k][c] \in Under0(parts, c)
                         /\ \A i \in 1 .. k : c \in Range(parts[L[i]]) =>
                                                it[1 .. k][c] # Nobody}
<1>10. 0 \in T
  BY <1>8, <1>b
<1>11. ASSUME NEW k \in 1 .. n, k - 1 \in T PROVE k \in T
  <2> DEFINE was == it[1 .. (k - 1)]
             now == it[1 .. k]
  <2>1. /\ was \in S
        /\ \A c \in Cell :
             /\ was[c] # Nobody => was[c] \in Under0(parts, c)
             /\ \A i \in 1 .. k - 1 : c \in Range(parts[L[i]]) => was[c] # Nobody
    BY <1>11
  <2>2. now = AddParts(was, parts, L[k]) /\ L[k] \in D /\ L[k] # Nobody
    BY <1>0, <1>3, <1>9
  <2> HIDE DEF was, now
  <2>3. now \in S
    BY <1>5, <2>1, <2>2
  <2>4. \A c \in Cell : now[c] = IF c \in Range(parts[L[k]]) THEN L[k] ELSE was[c]
    BY <2>2 DEF AddParts
  <2>5. \A i \in 1 .. k : i = k \/ i \in 1 .. k - 1
    OBVIOUS
  <2>6. \A c \in Cell :
             /\ now[c] # Nobody => now[c] \in Under0(parts, c)
             /\ \A i \in 1 .. k : c \in Range(parts[L[i]]) => now[c] # Nobody
    BY <2>1, <2>2, <2>4, <2>5 DEF Under0
  <2> QED BY <2>3, <2>6 DEF now
<1>12. n \in T
  <2> HIDE DEF T
  <2> QED BY <1>10, <1>11, BoundedInduction
<1>13. ASSUME NEW c \in Cell, you \in Under0(parts, c) PROVE it[1 .. n][c] = you
  <2>1. you # Nobody /\ c \in Range(parts[you])
    BY <1>0, <1>13 DEF Under0
  <2>2. n \in 1 .. n /\ L[n] = you
    BY <1>3, <2>1
  <2>3. it[1 .. n] = AddParts(it[1 .. (n - 1)], parts, you)
    BY <1>9, <2>2
  <2> QED BY <2>1, <2>3 DEF AddParts
<1>14. ASSUME NEW c \in Cell, NEW s \in Under0(parts, c) PROVE it[1 .. n][c] # Nobody
  <2>1. PICK i \in 1 .. n : L[i] = s
    BY <1>3 DEF Under0
  <2> QED BY <1>12, <2>1 DEF Under0
<1> QED BY <1>7, <1>12, <1>13, <1>14 DEF S

\* the map that _buildCaches makes
LEMMA NewMapIs ==
    ASSUME NEW D, NEW parts \in [D -> Body], NEW seq, InOrder(seq, D)
    PROVE  Marked(VacatedMap(PartsInOrder(seq, parts)),
                  AllMarks({parts[s] : s \in D}))
<1>1. PICK n \in Nat : /\ n = Len(seq) /\ seq \in [1 .. n -> D]
                       /\ \A s \in D : \E i \in 1 .. n : seq[i] = s
  BY InOrderFacts
<1> DEFINE list == PartsInOrder(seq, parts)
<1>2. list \in [1 .. n -> Body] /\ \A i \in 1 .. n : list[i] = parts[seq[i]]
  BY <1>1 DEF PartsInOrder
<1> HIDE DEF list
<1>3. Marked(VacatedMap(list), UNION {MarksOf(list[i]) : i \in 1 .. n})
  BY <1>2, MapMarks
<1>4. {MarksOf(list[i]) : i \in 1 .. n} = {MarksOf(b) : b \in {parts[s] : s \in D}}
  BY <1>1, <1>2
<1> QED BY <1>3, <1>4 DEF AllMarks, list

\* a state with its parts
StateOf(seq, parts, you, enemies, f, g, v, threw) ==
    [order |-> seq, parts |-> parts, you |-> you, enemies |-> enemies,
     food |-> f, grid |-> g, vacated |-> v, threw |-> threw]

\* what of a state _buildCaches leaves alone, and what comes of it
Loaded(seq, parts, you, enemies, f, threw) ==
    /\ parts \in JsParts /\ InOrder(seq, DOMAIN parts)
    /\ you \in DOMAIN parts \cup {Nobody} /\ enemies \in Seq(Snake)
    /\ f \in Foods /\ threw \in BOOLEAN
Built(r, seq, parts, you, enemies, f, threw) ==
    /\ r \in JsStates /\ Fresh(r)
    /\ r.order = seq /\ r.parts = parts /\ r.you = you
    /\ r.food = f /\ r.threw = threw
    /\ r.enemies = WithOthers(enemies, seq, you)

\* _buildCaches, whatever the caches were.
LEMMA BuildCachesIs ==
    ASSUME NEW seq, NEW parts, NEW you, NEW enemies, NEW f, NEW threw,
           Loaded(seq, parts, you, enemies, f, threw), NEW g, NEW v
    PROVE  Built(BuildCaches(StateOf(seq, parts, you, enemies, f, g, v, threw)),
                 seq, parts, you, enemies, f, threw)
<1>0. /\ parts \in JsParts /\ InOrder(seq, DOMAIN parts)
      /\ you \in DOMAIN parts \cup {Nobody} /\ enemies \in Seq(Snake)
      /\ f \in Foods /\ threw \in BOOLEAN
  BY DEF Loaded
<1> DEFINE D == DOMAIN parts
           grid == FilledGrid(seq, parts, you)
           map == VacatedMap(PartsInOrder(seq, parts))
           more == OtherThan(seq, you)
           r == BuildCaches(StateOf(seq, parts, you, enemies, f, g, v, threw))
<1>1. D \subseteq Snake /\ parts \in [D -> Body]
  BY <1>0 DEF JsParts, JsBody, Body
<1>2. grid \in Grids
  BY <1>0, FilledGridIs
<1>3. map \in [Cell -> Nat]
  <2>1. Marked(map, AllMarks({parts[s] : s \in D}))
    <3> HIDE DEF D
    <3> QED BY <1>0, <1>1, NewMapIs DEF D
  <2> QED BY <2>1 DEF Marked
<1>4. seq \in Seq(Snake)
  <2>1. seq \in Seq(D)
    BY <1>0 DEF InOrder
  <2> QED BY <1>1, <2>1, SeqMonotonic
<1>5. more \in Seq(Snake)
  <2>1. CASE you = Nobody
    BY <2>1 DEF OtherThan
  <2>2. CASE you # Nobody
    <3>1. RemoveFirst(seq, you) \in Seq(Snake)
      BY <1>4, RemoveFirstType
    <3> QED BY <2>2, <3>1 DEF OtherThan
  <2> QED BY <2>1, <2>2
<1>6. enemies \o more \in Seq(Snake)
  <2> HIDE DEF more
  <2> QED BY <1>0, <1>5, ConcatProperties
<1>7. r = [order |-> seq, parts |-> parts, you |-> you,
           enemies |-> enemies \o more, food |-> f, grid |-> grid,
           vacated |-> map, threw |-> threw]
  <2> DEFINE x == [order |-> seq, parts |-> parts, you |-> you,
                   enemies |-> enemies, food |-> f, grid |-> g,
                   vacated |-> v, threw |-> threw]
  <2>1. r = [x EXCEPT !.grid = FilledGrid(x.order, x.parts, x.you),
                      !.vacated = VacatedMap(PartsInOrder(x.order, x.parts)),
                      !.enemies = x.enemies \o OtherThan(x.order, x.you)]
    BY DEF BuildCaches, OtherThan, StateOf
  <2>2. x.order = seq /\ x.parts = parts /\ x.you = you /\ x.enemies = enemies
    OBVIOUS
  <2>3. r = [x EXCEPT !.grid = grid, !.vacated = map, !.enemies = enemies \o more]
    <3> HIDE DEF x, r
    <3> QED BY <2>1, <2>2
  <2> HIDE DEF r, grid, map, more
  <2> QED BY <2>3
<1> HIDE DEF r, more
<1>8. /\ r.order = seq /\ r.parts = parts /\ r.you = you /\ r.food = f
      /\ r.threw = threw /\ r.enemies = enemies \o more
      /\ r.grid = grid /\ r.vacated = map
  <2> HIDE DEF grid, map
  <2> QED BY <1>7
<1>9. Fresh(r)
  BY <1>8 DEF Fresh
<1>10. r \in JsStates
  <2> HIDE DEF grid, map
  <2>1. r \in [order : Seq(Snake), parts : JsParts, you : Snake \cup {Nobody},
               enemies : Seq(Snake), food : Foods, grid : Grids,
               vacated : [Cell -> Nat], threw : BOOLEAN]
    BY <1>0, <1>1, <1>2, <1>3, <1>4, <1>6, <1>7
  <2> QED BY <1>0, <1>8, <2>1 DEF JsStates
<1> QED BY <1>8, <1>9, <1>10 DEF r, more, WithOthers, Built

\* _removeSnake leaves a state without the snake, in which all is fresh.
LEMMA RemoveSnakeIs ==
    ASSUME NEW js \in JsStates, NEW s \in DOMAIN js.parts
    PROVE  LET r == RemoveSnake(js, s)
               you == IF js.you = s THEN Nobody ELSE js.you
           IN /\ r \in JsStates /\ Fresh(r)
              /\ r.order = RemoveFirst(js.order, s)
              /\ r.parts = [t \in DOMAIN js.parts \ {s} |-> js.parts[t]]
              /\ r.you = you /\ r.food = js.food /\ r.threw = js.threw
              /\ r.enemies = WithOthers(RemoveFirst(js.enemies, s), r.order, you)
<1> DEFINE D == DOMAIN js.parts
           you == IF js.you = s THEN Nobody ELSE js.you
           seq == RemoveFirst(js.order, s)
           enemies == RemoveFirst(js.enemies, s)
           parts == [t \in D \ {s} |-> js.parts[t]]
           r == RemoveSnake(js, s)
<1>1. /\ js.order \in Seq(Snake) /\ js.enemies \in Seq(Snake) /\ js.parts \in JsParts
      /\ js.food \in Foods /\ js.threw \in BOOLEAN
      /\ InOrder(js.order, D) /\ js.you \in D \cup {Nobody}
      /\ js = [order |-> js.order, parts |-> js.parts, you |-> js.you,
               enemies |-> js.enemies, food |-> js.food, grid |-> js.grid,
               vacated |-> js.vacated, threw |-> js.threw]
  BY DEF JsStates
<1>2. parts \in JsParts /\ DOMAIN parts = D \ {s}
  <2>1. D \in SUBSET Snake /\ js.parts \in [D -> JsBody]
    BY <1>1 DEF JsParts
  <2>2. D \ {s} \in SUBSET Snake /\ parts \in [D \ {s} -> JsBody]
    BY <2>1
  <2> HIDE DEF parts, D
  <2> QED BY <2>2 DEF JsParts
<1>3. InOrder(seq, DOMAIN parts)
  <2>1. InOrder(seq, D \ {s})
    <3> HIDE DEF D
    <3> QED BY <1>1, RemoveFirstOutcome
  <2> HIDE DEF seq, parts, D
  <2> QED BY <1>2, <2>1
<1>4. enemies \in Seq(Snake)
  BY <1>1, RemoveFirstType
<1>5. you \in DOMAIN parts \cup {Nobody}
  <2>1. you \in (D \ {s}) \cup {Nobody}
    BY <1>1
  <2> HIDE DEF you, parts, D
  <2> QED BY <1>2, <2>1
<1> DEFINE f == js.food
           g == js.grid
           v == js.vacated
           threw == js.threw
<1>6. r = BuildCaches(StateOf(seq, parts, you, enemies, f, g, v, threw))
  <2> DEFINE x == [js EXCEPT !.you = you, !.enemies = enemies, !.order = seq,
                             !.parts = parts]
             o == js.order
             p == js.parts
             y == js.you
             e == js.enemies
  <2>1. r = BuildCaches(x)
    BY DEF RemoveSnake
  <2>2. x = [order |-> seq, parts |-> parts, you |-> you,
             enemies |-> enemies, food |-> f, grid |-> g,
             vacated |-> v, threw |-> threw]
    <3>1. js = [order |-> o, parts |-> p, you |-> y, enemies |-> e, food |-> f,
                grid |-> g, vacated |-> v, threw |-> threw]
      BY <1>1
    <3> HIDE DEF seq, parts, you, enemies, o, p, y, e, f, g, v, threw
    <3>2. x = [[order |-> o, parts |-> p, you |-> y, enemies |-> e, food |-> f,
                grid |-> g, vacated |-> v, threw |-> threw]
               EXCEPT !.you = you, !.enemies = enemies, !.order = seq, !.parts = parts]
      BY <3>1
    <3> HIDE DEF x
    <3> QED BY <3>2
  <2> HIDE DEF r, x
  <2> QED BY <2>1, <2>2 DEF StateOf
<1>7. f \in Foods /\ threw \in BOOLEAN
  BY <1>1
<1>8. Built(r, seq, parts, you, enemies, f, threw)
  <2> HIDE DEF r, parts, seq, enemies, you, D, f, g, v, threw
  <2>1. Loaded(seq, parts, you, enemies, f, threw)
    BY <1>2, <1>3, <1>4, <1>5, <1>7 DEF Loaded
  <2> QED BY <1>6, <2>1, BuildCachesIs
<1> HIDE DEF r
<1>9. /\ r \in JsStates /\ Fresh(r)
      /\ r.order = seq /\ r.parts = parts /\ r.you = you
      /\ r.food = f /\ r.threw = threw
      /\ r.enemies = WithOthers(enemies, r.order, you)
  <2> HIDE DEF parts, seq, enemies, you, D, f, g, v, threw
  <2> QED BY <1>8 DEF Built
<1> QED BY <1>9 DEF r

\* A list of all but one, with that one in front.
LEMMA PrependInOrder ==
    ASSUME NEW D, NEW s \in D, NEW seq, InOrder(seq, D \ {s})
    PROVE  InOrder(<<s>> \o seq, D)
<1> DEFINE E == D \ {s}
           all == <<s>> \o seq
<1>1. PICK n \in Nat : n = Len(seq)
  BY InOrderFacts
<1>2. /\ seq \in Seq(E) /\ \A i \in 1 .. n : seq[i] \in E
      /\ \A i, j \in 1 .. n : seq[i] = seq[j] => i = j
      /\ \A t \in E : \E i \in 1 .. n : seq[i] = t
  BY <1>1 DEF InOrder
<1>3. seq \in Seq(D) /\ <<s>> \in Seq(D) /\ Len(<<s>>) = 1 /\ <<s>>[1] = s
  BY <1>2
<1>4. /\ all \in Seq(D) /\ Len(all) = n + 1 /\ all[1] = s
      /\ \A i \in 2 .. n + 1 : all[i] = seq[i - 1]
  <2>1. /\ all \in Seq(D) /\ Len(all) = Len(<<s>>) + Len(seq)
        /\ \A i \in 1 .. Len(<<s>>) + Len(seq) :
              all[i] = IF i <= Len(<<s>>) THEN <<s>>[i] ELSE seq[i - Len(<<s>>)]
    BY <1>3, ConcatProperties
  <2> HIDE DEF all
  <2> QED BY <1>1, <1>3, <2>1
<1> HIDE DEF all
<1>5. DOMAIN all = 1 .. n + 1
  BY <1>1, <1>4
<1>6. \A i \in 2 .. n + 1 : i - 1 \in 1 .. n
  BY <1>1
<1>7. ASSUME NEW i \in 1 .. n + 1, NEW j \in 1 .. n + 1, all[i] = all[j] PROVE i = j
  <2>1. \A k \in 1 .. n + 1 : k = 1 \/ k \in 2 .. n + 1
    OBVIOUS
  <2>2. \A k \in 2 .. n + 1 : all[k] # s
    BY <1>2, <1>4, <1>6
  <2>3. CASE i \in 2 .. n + 1 /\ j \in 2 .. n + 1
    <3>1. seq[i - 1] = seq[j - 1] /\ i - 1 \in 1 .. n /\ j - 1 \in 1 .. n
      BY <1>4, <1>6, <1>7, <2>3
    <3>2. i - 1 = j - 1
      BY <1>2, <3>1
    <3> QED BY <3>2
  <2> QED BY <1>4, <1>7, <2>1, <2>2, <2>3
<1>8. ASSUME NEW t \in D PROVE \E i \in 1 .. n + 1 : all[i] = t
  <2>1. CASE t = s
    BY <1>4, <2>1
  <2>2. CASE t # s
    <3>1. PICK i \in 1 .. n : seq[i] = t
      BY <1>2, <2>2
    <3>2. i + 1 \in 2 .. n + 1 /\ i + 1 \in 1 .. n + 1 /\ (i + 1) - 1 = i
      OBVIOUS
    <3> QED BY <1>4, <3>1, <3>2
  <2> QED BY <2>1, <2>2
<1> QED BY <1>4, <1>5, <1>7, <1>8 DEF InOrder, all

\* The constructor makes a state whose caches are fresh.
LEMMA NewGameStateIs ==
    ASSUME NEW seq, NEW parts, NEW you, NEW f,
           Loaded(seq, parts, you, <<>>, f, FALSE)
    PROVE  Built(NewGameState(seq, parts, you, f), seq, parts, you, <<>>, f, FALSE)
<1>1. NewGameState(seq, parts, you, f)
        = BuildCaches(StateOf(seq, parts, you, <<>>, f, <<>>, <<>>, FALSE))
  BY DEF NewGameState, StateOf
<1> QED BY <1>1, BuildCachesIs

\* In what list a snake has its first move, and whether its way is free.
MoveList == <<Me>> \o Js.enemies
Goes(dir, s) == CoordAfterMove(bodies[s][1], dir[s])
NoTail(c) == \A s \in DOMAIN bodies : \A i \in 1 .. Len(bodies[s]) - 1 : bodies[s][i] # c
Free(dir, s) == ~OutOfBounds(Goes(dir, s)) /\ NoTail(Goes(dir, s))

\* The map has the latest time at which a snake leaves the cell.
CountAt(v, parts, c) ==
    /\ \A s \in DOMAIN parts : \A i \in 1 .. Len(parts[s]) :
          parts[s][i] = c => Len(parts[s]) - i <= v[c]
    /\ v[c] = 0 \/ \E s \in DOMAIN parts : \E i \in 1 .. Len(parts[s]) :
                      parts[s][i] = c /\ v[c] = Len(parts[s]) - i

\* A map that is built anew has these times, whatever the snakes are.
LEMMA NewCounts ==
    ASSUME NEW parts \in JsParts, NEW seq, InOrder(seq, DOMAIN parts)
    PROVE  LET v == VacatedMap(PartsInOrder(seq, parts))
           IN v \in [Cell -> Nat] /\ \A c \in Cell : CountAt(v, parts, c)
<1> DEFINE D == DOMAIN parts
           v == VacatedMap(PartsInOrder(seq, parts))
           B == {parts[s] : s \in D}
<1>1. parts \in [D -> Body]
  BY DEF JsParts, JsBody, Body
<1>2. Marked(v, AllMarks(B))
  <2> HIDE DEF D
  <2> QED BY <1>1, NewMapIs DEF D
<1> HIDE DEF v
<1>3. ASSUME NEW c \in Cell, NEW s \in D, NEW i \in 1 .. Len(parts[s]), parts[s][i] = c
      PROVE  Len(parts[s]) - i <= v[c]
  <2>1. parts[s] \in B
    OBVIOUS
  <2> HIDE DEF B, D
  <2> QED BY <1>2, <1>3, <2>1, MarkCounts
<1>4. ASSUME NEW c \in Cell
      PROVE  v[c] = 0 \/ \E b \in B : \E i \in 1 .. Len(b) : b[i] = c /\ v[c] = Len(b) - i
  <2> HIDE DEF B
  <2> QED BY <1>2, MarkIsThere
<1>5. v \in [Cell -> Nat]
  BY <1>2 DEF Marked
<1> QED BY <1>3, <1>4, <1>5 DEF CountAt, v

\* ... and so has that of a state whose caches are new.
LEMMA FreshCounts ==
    ASSUME NEW js \in JsStates, Fresh(js), NEW c \in Cell
    PROVE  CountAt(js.vacated, js.parts, c)
<1> DEFINE parts == js.parts
           seq == js.order
<1>1. /\ parts \in JsParts /\ InOrder(seq, DOMAIN parts)
      /\ js.vacated = VacatedMap(PartsInOrder(seq, parts))
  BY DEF JsStates, Fresh
<1> HIDE DEF parts, seq
<1>2. CountAt(VacatedMap(PartsInOrder(seq, parts)), parts, c)
  BY <1>1, NewCounts
<1> QED BY <1>1, <1>2 DEF parts

\* What the game state is before the turn.
LEMMA JsIs ==
    ASSUME GameInv, Me \in DOMAIN bodies
    PROVE  /\ Js \in JsStates /\ Fresh(Js)
           /\ Js.order = order /\ Js.parts = bodies /\ Js.you = Me
           /\ Js.food = food /\ Js.threw = FALSE
           /\ NewGameState(Js.order, Js.parts, Js.you, Js.food) = Js
           /\ InOrder(Js.enemies, DOMAIN bodies \ {Me})
           /\ InOrder(MoveList, DOMAIN bodies)
           /\ \A c \in Cell : Js.vacated[c] \in Nat /\ (Js.vacated[c] = 0 <=> NoTail(c))
<1>0. Me # Nobody
  BY NobodyAssumption, GameAssumption
<1>1. Loaded(order, bodies, Me, <<>>, food, FALSE)
  <2>1. /\ InOrder(order, DOMAIN bodies) /\ food \in Foods
        /\ Me \in DOMAIN bodies \cup {Nobody}
    BY DEF GameInv, TypeOK, Foods
  <2>2. bodies \in JsParts
    <3>1. DOMAIN bodies \in SUBSET Snake /\ bodies \in [DOMAIN bodies -> JsBody]
      BY DEF GameInv, TypeOK, JsBody
    <3> QED BY <3>1 DEF JsParts
  <2> QED BY <2>1, <2>2 DEF Loaded
<1>2. Built(Js, order, bodies, Me, <<>>, food, FALSE)
  BY <1>1, NewGameStateIs DEF Js
<1>3. /\ Js \in JsStates /\ Fresh(Js)
      /\ Js.order = order /\ Js.parts = bodies /\ Js.you = Me
      /\ Js.food = food /\ Js.threw = FALSE
      /\ Js.enemies = WithOthers(<<>>, order, Me)
  BY <1>2 DEF Built
<1>4. NewGameState(Js.order, Js.parts, Js.you, Js.food) = Js
  <2>1. Js = NewGameState(order, bodies, Me, food)
    BY DEF Js
  <2> QED BY <1>3, <2>1
<1>5. InOrder(Js.enemies, DOMAIN bodies \ {Me})
  <2> DEFINE e == RemoveFirst(order, Me)
  <2>1. InOrder(e, DOMAIN bodies \ {Me})
    BY RemoveFirstOutcome DEF GameInv, TypeOK
  <2>2. Js.enemies = <<>> \o e
    BY <1>0, <1>3 DEF WithOthers, OtherThan
  <2> HIDE DEF e
  <2>3. e \in Seq(DOMAIN bodies \ {Me})
    BY <2>1 DEF InOrder
  <2>4. <<>> \o e = e
    BY <2>3, ConcatEmptySeq
  <2> QED BY <2>1, <2>2, <2>4
<1>6. InOrder(MoveList, DOMAIN bodies)
  BY <1>5, PrependInOrder DEF MoveList
<1>7. ASSUME NEW c \in Cell
      PROVE  Js.vacated[c] \in Nat /\ (Js.vacated[c] = 0 <=> NoTail(c))
  <2> DEFINE D == DOMAIN bodies
             B == {bodies[s] : s \in D}
             v == Js.vacated
  <2>1. bodies \in [D -> Body] /\ InOrder(order, D)
    BY DEF GameInv, TypeOK, Body
  <2>2. Marked(v, AllMarks(B))
    <3> HIDE DEF D, v
    <3>1. v = VacatedMap(PartsInOrder(order, bodies))
      BY <1>3 DEF Fresh, v
    <3> QED BY <2>1, <3>1, NewMapIs
  <2>3. /\ v[c] \in Nat
        /\ v[c] = 0 <=> \A b \in B : \A i \in 1 .. Len(b) - 1 : b[i] # c
    <3>1. B \subseteq Body
      BY <2>1
    <3> HIDE DEF B, v
    <3> QED BY <2>2, <3>1, ZeroIsFree
  <2> HIDE DEF v
  <2>4. NoTail(c) <=> \A b \in B : \A i \in 1 .. Len(b) - 1 : b[i] # c
    BY DEF NoTail
  <2> QED BY <2>3, <2>4 DEF v
<1> QED BY <1>3, <1>4, <1>5, <1>6, <1>7

\* counting down ends at zero
Less(x) == IF x > 0 THEN x - 1 ELSE 0
CountedDown(v, c) == [v EXCEPT ![c] = IF @ > 0 THEN @ - 1 ELSE 0]

\* What MapInfo.incrementalUpdate makes of a cell: it counts down once for
\* every part behind the head that lies there, unless the snake has eaten.
LEMMA IncrementalIs ==
    ASSUME NEW v \in [Cell -> Nat], NEW p \in JsBody, NEW ate \in BOOLEAN
    PROVE  LET u == IncrementalUpdate(v, p, ate)
               e == Vacate(v, p[1], Len(p) - 1)
           IN /\ u \in [Cell -> Nat] /\ e \in [Cell -> Nat]
              /\ ate => u = e
              /\ \A c \in Cell : (\A i \in 2 .. Len(p) : p[i] # c) => u[c] = e[c]
              /\ ~ate => \A i \in 2 .. Len(p) :
                    (\A j \in 2 .. Len(p) : p[j] = p[i] => j = i) =>
                       u[p[i]] = Less(e[p[i]])
<1>0. PICK n \in Nat : n = Len(p) /\ n >= 2
  BY DEF JsBody
<1>1. \A i \in 1 .. n : p[i] \in Cell
  BY <1>0 DEF JsBody
<1> DEFINE S == [Cell -> Nat]
           m == n - 1
           e == Vacate(v, p[1], m)
           u == IncrementalUpdate(v, p, ate)
           L == [i \in 1 .. m |-> i + 1]
           step == [k \in 1 .. m |-> [a \in S |-> CountedDown(a, p[k + 1])]]
           IsFold(g) == g = [s \in SUBSET (1 .. m) |-> IF s = {} THEN e
                    ELSE CountedDown(g[s \ {Max(s)}], p[L[Max(s)]])]
           it == CHOOSE g : IsFold(g)
<1>2. e \in S /\ m \in Nat
  BY <1>0, <1>1 DEF Vacate
<1>3. CASE ate
  <2>1. u = e
    BY <1>0, <1>3 DEF IncrementalUpdate
  <2> HIDE DEF e, u
  <2> QED BY <1>0, <1>2, <1>3, <2>1 DEF e, u
<1>4. CASE ~ate
  <2>1. u = FoldLeft(LAMBDA w, i : CountedDown(w, p[i]), e, L)
    BY <1>0, <1>4 DEF IncrementalUpdate, CountedDown
  <2> HIDE DEF e, u
  <2>2. ASSUME NEW a \in S, NEW k \in 1 .. m PROVE CountedDown(a, p[k + 1]) \in S
    <3>1. p[k + 1] \in Cell
      BY <1>1
    <3> QED BY <3>1 DEF CountedDown
  <2>3. IsFold(it)
    <3>1. PICK g \in [SUBSET (1 .. m) -> S] : Folding(g, m, e, step)
      <4>1. e \in S /\ step \in [1 .. m -> [S -> S]]
        BY <1>2, <2>2
      <4> HIDE DEF S, step, m
      <4> QED BY <1>2, <4>1, FoldExists
    <3>2. ASSUME NEW s \in SUBSET (1 .. m), s # {}
          PROVE  step[Max(s)][g[s \ {Max(s)}]]
                   = CountedDown(g[s \ {Max(s)}], p[L[Max(s)]])
      <4>1. Max(s) \in 1 .. m /\ g[s \ {Max(s)}] \in S
        BY <1>2, <3>2, MaxIsIn
      <4> QED BY <4>1
    <3>3. IsFold(g)
      <4> HIDE DEF step
      <4> QED BY <3>1, <3>2 DEF Folding
    <3> HIDE DEF IsFold
    <3> QED BY <3>3
  <2>4. u = it[1 .. m]
    <3>1. DOMAIN L = 1 .. m
      OBVIOUS
    <3> HIDE DEF L, m
    <3> QED BY <2>1, <3>1 DEF FoldLeft, MapThenFoldSet
  <2>5. it[1 .. 0] = e
    <3>1. 1 .. 0 = {}
      OBVIOUS
    <3> QED BY <2>3, <3>1
  <2>6. ASSUME NEW k \in 1 .. m
        PROVE  it[1 .. k] = CountedDown(it[1 .. (k - 1)], p[k + 1])
    <3>1. /\ 1 .. k \in SUBSET (1 .. m) /\ 1 .. k # {} /\ Max(1 .. k) = k
          /\ (1 .. k) \ {Max(1 .. k)} = 1 .. (k - 1)
      BY <1>2, Segments
    <3>2. L[k] = k + 1
      OBVIOUS
    <3> HIDE DEF L
    <3> QED BY <2>3, <3>1, <3>2
  <2> HIDE DEF it, step, IsFold, L
  <2> DEFINE T == {k \in 0 .. m :
                 /\ it[1 .. k] \in S
                 /\ \A c \in Cell : (\A i \in 1 .. k : p[i + 1] # c) => it[1 .. k][c] = e[c]
                 /\ \A i \in 1 .. k : (\A j \in 1 .. k : p[j + 1] = p[i + 1] => j = i) =>
                                         it[1 .. k][p[i + 1]] = Less(e[p[i + 1]])}
  <2>7. 0 \in T
    BY <1>2, <2>5
  <2>8. ASSUME NEW k \in 1 .. m, k - 1 \in T PROVE k \in T
    <3> DEFINE was == it[1 .. (k - 1)]
               now == it[1 .. k]
    <3>1. /\ was \in S
          /\ \A c \in Cell : (\A i \in 1 .. k - 1 : p[i + 1] # c) => was[c] = e[c]
          /\ \A i \in 1 .. k - 1 : (\A j \in 1 .. k - 1 : p[j + 1] = p[i + 1] => j = i) =>
                                      was[p[i + 1]] = Less(e[p[i + 1]])
      BY <2>8
    <3>2. now = CountedDown(was, p[k + 1])
      BY <2>6
    <3>3. p[k + 1] \in Cell
      BY <1>1
    <3>i. k \in 1 .. k /\ (\A i \in 1 .. k - 1 : i \in 1 .. k /\ i # k)
          /\ (\A i \in 1 .. k : i = k \/ i \in 1 .. k - 1)
          /\ (\A i \in 1 .. k : i + 1 \in 1 .. n)
      OBVIOUS
    <3> HIDE DEF was, now
    <3>4. now \in S /\ now[p[k + 1]] = Less(was[p[k + 1]])
          /\ \A c \in Cell : c # p[k + 1] => now[c] = was[c]
      BY <2>2, <3>1, <3>2, <3>3 DEF CountedDown, Less
    <3>5. ASSUME NEW c \in Cell, \A i \in 1 .. k : p[i + 1] # c PROVE now[c] = e[c]
      BY <3>1, <3>4, <3>5, <3>i
    <3>6. ASSUME NEW i \in 1 .. k, \A j \in 1 .. k : p[j + 1] = p[i + 1] => j = i
          PROVE  now[p[i + 1]] = Less(e[p[i + 1]])
      <4>1. CASE i = k
        <5>1. \A j \in 1 .. k - 1 : p[j + 1] # p[k + 1]
          BY <3>6, <3>i, <4>1
        <5>2. was[p[k + 1]] = e[p[k + 1]]
          BY <3>1, <3>3, <5>1
        <5> QED BY <3>4, <4>1, <5>2
      <4>2. CASE i # k
        <5>1. p[i + 1] # p[k + 1] /\ p[i + 1] \in Cell /\ i \in 1 .. k - 1
          BY <1>1, <3>6, <3>i, <4>2
        <5>2. was[p[i + 1]] = Less(e[p[i + 1]])
          BY <3>1, <3>6, <3>i, <5>1
        <5> QED BY <3>4, <5>1, <5>2
      <4> QED BY <4>1, <4>2
    <3> QED BY <3>4, <3>5, <3>6 DEF now
  <2>9. m \in T
    <3> HIDE DEF T, m
    <3> QED BY <1>2, <2>7, <2>8, BoundedInduction
  <2>10. /\ u \in S
         /\ \A c \in Cell : (\A i \in 1 .. m : p[i + 1] # c) => u[c] = e[c]
         /\ \A i \in 1 .. m : (\A j \in 1 .. m : p[j + 1] = p[i + 1] => j = i) =>
                                 u[p[i + 1]] = Less(e[p[i + 1]])
    <3> HIDE DEF m
    <3> QED BY <2>4, <2>9
  <2>11. /\ \A i \in 1 .. m : i + 1 \in 2 .. n
         /\ \A i \in 2 .. n : i - 1 \in 1 .. m /\ (i - 1) + 1 = i
    OBVIOUS
  <2>12. ASSUME NEW c \in Cell, \A i \in 2 .. n : p[i] # c PROVE u[c] = e[c]
    BY <2>10, <2>11, <2>12
  <2>13. ASSUME NEW i \in 2 .. n, \A j \in 2 .. n : p[j] = p[i] => j = i
         PROVE  u[p[i]] = Less(e[p[i]])
    <3>1. i - 1 \in 1 .. m /\ (i - 1) + 1 = i
      BY <2>11
    <3>2. \A j \in 1 .. m : p[j + 1] = p[(i - 1) + 1] => j = i - 1
      <4> TAKE j \in 1 .. m
      <4>1. j + 1 \in 2 .. n
        BY <2>11
      <4>2. p[j + 1] = p[i] => j + 1 = i
        BY <2>13, <4>1
      <4> QED BY <3>1, <4>2
    <3> QED BY <2>10, <3>1, <3>2
  <2>14. u \in S /\ e \in S /\ ~ate
    BY <1>2, <1>4, <2>10
  <2> HIDE DEF m
  <2>15. e = Vacate(v, p[1], Len(p) - 1)
    BY <1>0 DEF e, m
  <2> QED BY <1>0, <2>12, <2>13, <2>14, <2>15 DEF u
<1> QED BY <1>3, <1>4

\* The parts that moveParts leaves are those of the C++ game.
LEMMA MovedOnIs ==
    ASSUME NEW b \in JsBody, NEW to \in Cell, NEW ate \in BOOLEAN
    PROVE  LET moved == <<to>> \o Front(b)
           IN /\ (IF ate THEN Append(moved, Last(moved)) ELSE moved) = Grown(b, to, ate)
              /\ Last(moved) = b[Len(b) - 1]
<1>0. PICK n \in Nat : n = Len(b) /\ n >= 2
  BY DEF JsBody
<1>1. b \in Seq(Cell)
  BY DEF JsBody
<1> DEFINE front == SubSeq(b, 1, n - 1)
           moved == <<to>> \o front
<1>2. Front(b) = front
  BY <1>0 DEF Front
<1>3. front \in Seq(Cell) /\ Len(front) = n - 1 /\ \A i \in 1 .. n - 1 : front[i] = b[i]
  BY <1>0, <1>1
<1>4. moved \in Seq(Cell) /\ Len(moved) = n /\ moved[n] = b[n - 1]
  <2>1. <<to>> \in Seq(Cell) /\ Len(<<to>>) = 1
    OBVIOUS
  <2> HIDE DEF front
  <2>2. /\ moved \in Seq(Cell) /\ Len(moved) = Len(<<to>>) + Len(front)
        /\ \A i \in 1 .. Len(<<to>>) + Len(front) :
              moved[i] = IF i <= Len(<<to>>) THEN <<to>>[i] ELSE front[i - Len(<<to>>)]
    BY <1>3, <2>1, ConcatProperties
  <2> HIDE DEF moved
  <2> QED BY <1>0, <1>3, <2>1, <2>2
<1>5. Grown(b, to, ate) = moved \o (IF ate THEN <<b[n - 1]>> ELSE <<>>)
  BY <1>0 DEF Grown
<1> HIDE DEF moved
<1>6. Last(moved) = b[n - 1]
  BY <1>4 DEF Last
<1>7. (IF ate THEN Append(moved, Last(moved)) ELSE moved) = Grown(b, to, ate)
  <2>1. CASE ate
    <3>1. b[n - 1] \in Cell
      BY <1>0, <1>1
    <3>2. Append(moved, b[n - 1]) = moved \o <<b[n - 1]>>
      BY <1>4, <3>1, AppendIsConcat
    <3> QED BY <1>5, <1>6, <2>1, <3>2
  <2>2. CASE ~ate
    <3>1. moved \o <<>> = moved
      BY <1>4, ConcatEmptySeq
    <3> QED BY <1>5, <2>2, <3>1
  <2> QED BY <2>1, <2>2
<1> QED BY <1>0, <1>2, <1>6, <1>7 DEF moved

\* What a move leaves: more of it is said where the caches are.
MovedOn(r, js, s, to) ==
    LET b == js.parts[s]
        m == Grown(b, to, to \in js.food)
    IN /\ r \in JsStates
       /\ r.order = js.order /\ r.you = js.you
       /\ r.enemies = js.enemies /\ r.threw = js.threw
       /\ r.food = js.food \ {to}
       /\ m \in JsBody
       /\ r.parts = [t \in DOMAIN js.parts |-> IF t = s THEN m ELSE js.parts[t]]
       /\ r.grid = MoveInGrid(js.grid, s, to, b[Len(b)], b[Len(b) - 1])
       /\ r.vacated = IncrementalUpdate(js.vacated, m, to \in js.food)

\* What moveParts makes of a state, field by field.
LEMMA MovePartsIs ==
    ASSUME NEW js \in JsStates, NEW s \in DOMAIN js.parts, NEW to \in Cell
    PROVE  MovedOn(MoveParts(js, s, to), js, s, to)
<1> DEFINE D == DOMAIN js.parts
           b == js.parts[s]
           ate == to \in js.food
           m == Grown(b, to, ate)
           moved == <<to>> \o Front(b)
           parts == [t \in D |-> IF t = s THEN m ELSE js.parts[t]]
           grid == MoveInGrid(js.grid, s, to, b[Len(b)], b[Len(b) - 1])
           map == IncrementalUpdate(js.vacated, m, ate)
           r == MoveParts(js, s, to)
           left == js.food \ {to}
<1>1. /\ D \in SUBSET Snake /\ js.parts \in [D -> JsBody] /\ b \in JsBody /\ s \in Snake
      /\ InOrder(js.order, D) /\ js.you \in D \cup {Nobody}
      /\ js.order \in Seq(Snake) /\ js.enemies \in Seq(Snake) /\ js.food \in Foods
      /\ js.grid \in Grids /\ js.vacated \in [Cell -> Nat] /\ js.threw \in BOOLEAN
      /\ js.you \in Snake \cup {Nobody}
      /\ js = [order |-> js.order, parts |-> js.parts, you |-> js.you,
               enemies |-> js.enemies, food |-> js.food, grid |-> js.grid,
               vacated |-> js.vacated, threw |-> js.threw]
  BY DEF JsStates, JsParts
<1>2. ate \in BOOLEAN
  OBVIOUS
<1>3. (IF ate THEN Append(moved, Last(moved)) ELSE moved) = m /\ Last(moved) = b[Len(b) - 1]
  <2> HIDE DEF b, ate
  <2> QED BY <1>1, <1>2, MovedOnIs
<1>4. Last(b) = b[Len(b)]
  BY DEF Last
<1>5. m \in JsBody
  <2>1. b \in Seq(Cell) /\ Len(b) >= 2
    BY <1>1 DEF JsBody
  <2> HIDE DEF b, ate
  <2>2. m \in Seq(Cell) /\ Len(m) = Len(b) + (IF ate THEN 1 ELSE 0)
    BY <1>2, <2>1, GrownFacts
  <2>3. Len(b) \in Nat
    BY <2>1
  <2> HIDE DEF m
  <2>4. Len(m) >= 2
    BY <1>2, <2>1, <2>2, <2>3
  <2> QED BY <2>2, <2>4 DEF JsBody
<1>6. parts \in JsParts /\ DOMAIN parts = D
  <2> HIDE DEF m
  <2>1. parts \in [D -> JsBody]
    BY <1>1, <1>5
  <2> HIDE DEF parts, D
  <2> QED BY <1>1, <2>1 DEF JsParts
<1>7. grid \in Grids
  BY <1>1 DEF MoveInGrid, Grids
<1>8. map \in [Cell -> Nat]
  <2> HIDE DEF m, ate
  <2> QED BY <1>1, <1>2, <1>5, IncrementalIs
<1>9. left \in Foods
  BY <1>1 DEF Foods
<1> DEFINE o == js.order
           p == js.parts
           y == js.you
           e == js.enemies
           f == js.food
           g == js.grid
           v == js.vacated
           threw == js.threw
<1>10. r = StateOf(o, parts, y, e, left, grid, map, threw)
  <2>1. r = [js EXCEPT !.parts[s] = m, !.grid = MoveInGrid(@, s, to, Last(b), Last(moved)),
                       !.food = @ \ {to}, !.vacated = IncrementalUpdate(@, m, ate)]
    <3> HIDE DEF m
    <3> QED BY <1>3 DEF MoveParts
  <2>2. r = [js EXCEPT !.parts = [p EXCEPT ![s] = m], !.grid = grid,
                       !.food = left, !.vacated = map]
    <3> HIDE DEF m, moved, r
    <3> QED BY <1>1, <1>3, <1>4, <2>1
  <2>3. [p EXCEPT ![s] = m] = parts
    <3> HIDE DEF m
    <3> QED BY <1>1
  <2>4. js = [order |-> o, parts |-> p, you |-> y, enemies |-> e, food |-> f,
              grid |-> g, vacated |-> v, threw |-> threw]
    BY <1>1
  <2> DEFINE q == [p EXCEPT ![s] = m]
  <2>5. r = [js EXCEPT !.parts = q, !.grid = grid, !.food = left, !.vacated = map]
    <3> HIDE DEF r, m, grid, left, map
    <3> QED BY <2>2
  <2> HIDE DEF r, m, parts, grid, left, map, o, p, y, e, f, g, v, threw, q
  <2>6. r = [[order |-> o, parts |-> p, you |-> y, enemies |-> e, food |-> f,
              grid |-> g, vacated |-> v, threw |-> threw]
             EXCEPT !.parts = q, !.grid = grid, !.food = left, !.vacated = map]
    BY <2>4, <2>5
  <2>7. r = [order |-> o, parts |-> q, you |-> y, enemies |-> e, food |-> left,
             grid |-> grid, vacated |-> map, threw |-> threw]
    BY <2>6
  <2> QED BY <2>3, <2>7 DEF StateOf, q
<1> HIDE DEF r
<1>11. /\ r.order = o /\ r.parts = parts /\ r.you = y /\ r.enemies = e
       /\ r.food = left /\ r.grid = grid /\ r.vacated = map /\ r.threw = threw
  <2> HIDE DEF m, parts, grid, left, map, o, p, y, e, f, g, v, threw
  <2> QED BY <1>10 DEF StateOf
<1>12. r \in JsStates
  <2>1. /\ o \in Seq(Snake) /\ e \in Seq(Snake) /\ y \in Snake \cup {Nobody}
        /\ threw \in BOOLEAN /\ InOrder(o, D) /\ y \in D \cup {Nobody}
    BY <1>1
  <2> HIDE DEF m, parts, grid, left, map, o, p, y, e, f, g, v, threw, D
  <2>2. r \in [order : Seq(Snake), parts : JsParts, you : Snake \cup {Nobody},
               enemies : Seq(Snake), food : Foods, grid : Grids,
               vacated : [Cell -> Nat], threw : BOOLEAN]
    BY <1>6, <1>7, <1>8, <1>9, <1>10, <2>1 DEF StateOf
  <2> QED BY <1>6, <1>11, <2>1, <2>2 DEF JsStates
<1> QED
  <2> HIDE DEF m, grid, map
  <2> QED BY <1>5, <1>11, <1>12 DEF MovedOn, m, grid, map, r

-----------------------------------------------------------------------------
(* the moves of the JavaScript game state, one after another *)

YouLives(js) == js.you = IF Me \in DOMAIN js.parts THEN Me ELSE Nobody
EnemiesLeft(js) ==
    LET D == DOMAIN bodies
    IN /\ DOMAIN js.parts = D => InOrder(js.enemies, D \ {Me})
       /\ \A x \in D \ {Me} : DOMAIN js.parts = D \ {x} =>
                                 Range(js.enemies) = DOMAIN js.parts \ {Me}
InTheGrid(js) ==
    \A c \in Cell : js.grid[c] # Nobody => js.grid[c] \in Under0(js.parts, c)

\* What lists of some elements list when they are joined.
LEMMA JoinedLists ==
    ASSUME NEW D, NEW E, NEW a, NEW b, InOrder(a, D), InOrder(b, E)
    PROVE  Range(a \o b) = D \cup E
<1> DEFINE S == D \cup E
<1>1. PICK m \in Nat : m = Len(a)
  BY InOrderFacts
<1>2. PICK n \in Nat : n = Len(b)
  BY InOrderFacts
<1>3. /\ a \in Seq(D) /\ DOMAIN a = 1 .. m /\ \A i \in 1 .. m : a[i] \in D
      /\ \A s \in D : \E i \in 1 .. m : a[i] = s
      /\ b \in Seq(E) /\ DOMAIN b = 1 .. n /\ \A i \in 1 .. n : b[i] \in E
      /\ \A s \in E : \E i \in 1 .. n : b[i] = s
  BY <1>1, <1>2 DEF InOrder
<1>4. a \in Seq(S) /\ b \in Seq(S)
  BY <1>3
<1>5. /\ a \o b \in Seq(S) /\ Len(a \o b) = m + n
      /\ \A i \in 1 .. m + n : (a \o b)[i] = IF i <= m THEN a[i] ELSE b[i - m]
  BY <1>1, <1>2, <1>4, ConcatProperties
<1> DEFINE l == a \o b
<1>6. DOMAIN l = 1 .. m + n
  BY <1>5
<1> HIDE DEF l
<1>7. ASSUME NEW i \in 1 .. m + n PROVE l[i] \in S
  <2>1. CASE i <= m
    <3>1. i \in 1 .. m
      BY <2>1
    <3> QED BY <1>3, <1>5, <2>1, <3>1 DEF l
  <2>2. CASE ~(i <= m)
    <3>1. i - m \in 1 .. n
      BY <2>2
    <3> QED BY <1>3, <1>5, <2>2, <3>1 DEF l
  <2> QED BY <2>1, <2>2
<1>8. ASSUME NEW s \in S PROVE \E i \in 1 .. m + n : l[i] = s
  <2>1. CASE s \in D
    <3>1. PICK i \in 1 .. m : a[i] = s
      BY <1>3, <2>1
    <3>2. i \in 1 .. m + n /\ i <= m
      OBVIOUS
    <3>3. l[i] = s
      BY <1>5, <3>1, <3>2 DEF l
    <3> QED BY <3>2, <3>3
  <2>2. CASE s \in E
    <3>1. PICK i \in 1 .. n : b[i] = s
      BY <1>3, <2>2
    <3>2. i + m \in 1 .. m + n /\ ~(i + m <= m) /\ (i + m) - m = i
      OBVIOUS
    <3>3. l[i + m] = s
      BY <1>5, <3>1, <3>2 DEF l
    <3> QED BY <3>2, <3>3
  <2> QED BY <2>1, <2>2
<1> QED BY <1>6, <1>7, <1>8 DEF Range, l

\* _removeSnake keeps the list of the enemies, unless it is the second removal.
LEMMA RemoveSnakeKeeps ==
    ASSUME Me \in DOMAIN bodies, NEW js \in JsStates,
           DOMAIN js.parts \subseteq DOMAIN bodies, YouLives(js), EnemiesLeft(js),
           NEW s \in DOMAIN js.parts
    PROVE  LET r == RemoveSnake(js, s)
           IN /\ r \in JsStates /\ Fresh(r)
              /\ DOMAIN r.parts = DOMAIN js.parts \ {s}
              /\ \A t \in DOMAIN r.parts : r.parts[t] = js.parts[t]
              /\ r.food = js.food /\ r.threw = js.threw
              /\ YouLives(r) /\ EnemiesLeft(r) /\ InTheGrid(r)
<1> DEFINE D == DOMAIN bodies
           r == RemoveSnake(js, s)
           you == IF js.you = s THEN Nobody ELSE js.you
<1>1. /\ r \in JsStates /\ Fresh(r)
      /\ r.order = RemoveFirst(js.order, s)
      /\ r.parts = [t \in DOMAIN js.parts \ {s} |-> js.parts[t]]
      /\ r.you = you /\ r.food = js.food /\ r.threw = js.threw
      /\ r.enemies = WithOthers(RemoveFirst(js.enemies, s), r.order, you)
  BY RemoveSnakeIs
<1> HIDE DEF r
<1>2. /\ DOMAIN r.parts = DOMAIN js.parts \ {s}
      /\ \A t \in DOMAIN r.parts : r.parts[t] = js.parts[t]
  BY <1>1
<1>3. Me # Nobody
  BY NobodyAssumption, GameAssumption
<1>4. YouLives(r)
  <2>1. js.you = IF Me \in DOMAIN js.parts THEN Me ELSE Nobody
    BY DEF YouLives
  <2>2. s # Nobody
    BY NobodyAssumption DEF JsStates, JsParts
  <2>3. r.you = IF Me \in DOMAIN r.parts THEN Me ELSE Nobody
    BY <1>1, <1>2, <1>3, <2>1, <2>2
  <2> QED BY <2>3 DEF YouLives
<1>5. /\ InOrder(r.order, DOMAIN r.parts) /\ r.you \in DOMAIN r.parts \cup {Nobody}
      /\ r.parts \in JsParts
  BY <1>1 DEF JsStates
<1>6. EnemiesLeft(r)
  <2>1. DOMAIN r.parts # D
    BY <1>2
  <2>2. ASSUME NEW x \in D \ {Me}, DOMAIN r.parts = D \ {x}
        PROVE  Range(r.enemies) = DOMAIN r.parts \ {Me}
    <3>1. s = x /\ DOMAIN js.parts = D
      BY <1>2, <2>2
    <3> DEFINE a == RemoveFirst(js.enemies, s)
               b == RemoveFirst(r.order, Me)
               A == (D \ {Me}) \ {s}
               B == DOMAIN r.parts \ {Me}
    <3>2. InOrder(a, A)
      <4>1. InOrder(js.enemies, D \ {Me})
        BY <3>1 DEF EnemiesLeft
      <4> QED BY <4>1, RemoveFirstOutcome
    <3>3. InOrder(b, B)
      BY <1>5, RemoveFirstOutcome
    <3>4. r.you = Me
      BY <1>4, <2>2 DEF YouLives
    <3>5. r.enemies = a \o b
      BY <1>1, <1>3, <3>4 DEF WithOthers, OtherThan
    <3>6. A \cup B = DOMAIN r.parts \ {Me}
      BY <2>2, <3>1
    <3> HIDE DEF a, b, A, B
    <3>7. Range(a \o b) = A \cup B
      BY <3>2, <3>3, JoinedLists
    <3> QED BY <3>5, <3>6, <3>7
  <2> QED BY <2>1, <2>2 DEF EnemiesLeft
<1>7. InTheGrid(r)
  <2>1. r.grid = FilledGrid(r.order, r.parts, r.you)
    BY <1>1 DEF Fresh
  <2> QED BY <1>5, <2>1, FilledGridIs DEF InTheGrid
<1> QED BY <1>1, <1>2, <1>4, <1>6, <1>7 DEF r

\* The cells of a body that has moved on.
LEMMA GrownRange ==
    ASSUME NEW b \in JsBody, NEW h \in Cell, NEW ate \in BOOLEAN
    PROVE  LET m == Grown(b, h, ate)
           IN /\ m \in JsBody /\ m[1] = h
              /\ Len(m) = Len(b) + (IF ate THEN 1 ELSE 0)
              /\ \A i \in 2 .. Len(b) : m[i] = b[i - 1]
              /\ ate => m[Len(b) + 1] = b[Len(b) - 1]
              /\ \A c : c \in Range(m) <=> c = h \/ \E i \in 1 .. Len(b) - 1 : b[i] = c
<1> DEFINE m == Grown(b, h, ate)
<1>0. PICK n \in Nat : n = Len(b) /\ n >= 2
  BY DEF JsBody
<1>1. /\ m \in Seq(Cell) /\ m[1] = h
      /\ Len(m) = n + (IF ate THEN 1 ELSE 0)
      /\ \A i \in 2 .. n : m[i] = b[i - 1]
      /\ ate => m[n + 1] = b[n - 1]
  <2>1. b \in Seq(Cell) /\ Len(b) >= 2
    BY DEF JsBody
  <2> HIDE DEF m
  <2>2. /\ m \in Seq(Cell) /\ Len(m) = Len(b) + (IF ate THEN 1 ELSE 0)
        /\ m[1] = h
        /\ \A i \in 2 .. Len(b) : m[i] = b[i - 1]
        /\ ate => m[Len(b) + 1] = b[Len(b) - 1]
    BY <2>1, GrownFacts DEF m
  <2> QED BY <1>0, <2>2
<1> HIDE DEF m
<1>2. m \in JsBody
  BY <1>0, <1>1 DEF JsBody
<1>3. DOMAIN m = 1 .. Len(m) /\ Len(m) \in Nat
  BY <1>1
<1>4. ASSUME NEW i \in 1 .. Len(m), i # 1 PROVE \E j \in 1 .. n - 1 : m[i] = b[j]
  <2>1. CASE i <= n
    <3>1. i \in 2 .. n /\ i - 1 \in 1 .. n - 1
      BY <1>4, <2>1
    <3> QED BY <1>1, <3>1
  <2>2. CASE ~(i <= n)
    <3>1. ate /\ i = n + 1 /\ n - 1 \in 1 .. n - 1
      BY <1>0, <1>1, <2>2
    <3> QED BY <1>1, <3>1
  <2> QED BY <2>1, <2>2
<1>5. ASSUME NEW j \in 1 .. n - 1 PROVE \E i \in 1 .. Len(m) : m[i] = b[j]
  <2>1. j + 1 \in 2 .. n /\ j + 1 \in 1 .. Len(m) /\ (j + 1) - 1 = j
    BY <1>0, <1>1
  <2> QED BY <1>1, <2>1
<1>6. 1 \in 1 .. Len(m)
  BY <1>0, <1>1
<1>7. ASSUME NEW c PROVE c \in Range(m) <=> c = h \/ \E i \in 1 .. n - 1 : b[i] = c
  <2>1. c \in Range(m) <=> \E i \in 1 .. Len(m) : m[i] = c
    BY <1>3 DEF Range
  <2>2. ASSUME NEW i \in 1 .. Len(m), m[i] = c, c # h
        PROVE  \E j \in 1 .. n - 1 : b[j] = c
    <3>1. i # 1
      BY <1>1, <2>2
    <3>2. PICK j \in 1 .. n - 1 : m[i] = b[j]
      BY <1>4, <3>1
    <3> QED BY <2>2, <3>2
  <2>3. ASSUME NEW j \in 1 .. n - 1, b[j] = c PROVE \E i \in 1 .. Len(m) : m[i] = c
    <3>1. PICK i \in 1 .. Len(m) : m[i] = b[j]
      BY <1>5
    <3> QED BY <2>3, <3>1
  <2>4. c = h => \E i \in 1 .. Len(m) : m[i] = c
    BY <1>1, <1>6
  <2> QED BY <2>1, <2>2, <2>3, <2>4
<1> QED BY <1>0, <1>1, <1>2, <1>7 DEF m

\* A TypeError leaves the rest of the state as it is.
LEMMA ThrowKeeps ==
    ASSUME NEW js \in JsStates
    PROVE  LET r == [js EXCEPT !.threw = TRUE]
           IN /\ r \in JsStates /\ r.threw = TRUE
              /\ r.order = js.order /\ r.parts = js.parts /\ r.you = js.you
              /\ r.enemies = js.enemies /\ r.food = js.food /\ r.grid = js.grid
              /\ r.vacated = js.vacated
BY DEF JsStates

\* The k-th snake of the list eats, unless one before it was at its food.
AteAt(dir, k) ==
    /\ Goes(dir, MoveList[k]) \in food
    /\ \A i \in 1 .. k - 1 : Free(dir, MoveList[i]) =>
                                Goes(dir, MoveList[i]) # Goes(dir, MoveList[k])
After(dir, k) ==
    Grown(bodies[MoveList[k]], Goes(dir, MoveList[k]), AteAt(dir, k))

\* The state after the moves of the first k snakes of the list.
MovedSoFar(dir, k, js) ==
    /\ js \in JsStates /\ js.threw = FALSE
    /\ DOMAIN js.parts \subseteq DOMAIN bodies
    /\ \A i \in 1 .. Len(MoveList) :
          /\ MoveList[i] \in DOMAIN js.parts <=> (i <= k => Free(dir, MoveList[i]))
          /\ i <= k /\ Free(dir, MoveList[i]) => js.parts[MoveList[i]] = After(dir, i)
          /\ i > k => js.parts[MoveList[i]] = bodies[MoveList[i]]
    /\ \A f : f \in js.food <=>
                 /\ f \in food
                 /\ \A i \in 1 .. k : Free(dir, MoveList[i]) => f # Goes(dir, MoveList[i])
    /\ YouLives(js) /\ EnemiesLeft(js) /\ InTheGrid(js)

ATurn(dir) ==
    GameInv /\ Me \in DOMAIN bodies /\ dir \in [DOMAIN bodies -> Direction]

\* Each snake moves once; the map of the state before says where it can go.
LEMMA MoveFacts ==
    ASSUME NEW dir, ATurn(dir)
    PROVE  LET n == Len(MoveList)
               D == DOMAIN bodies
           IN /\ n \in Nat /\ n >= 1 /\ MoveList \in [1 .. n -> D] /\ MoveList[1] = Me
              /\ \A i, j \in 1 .. n : MoveList[i] = MoveList[j] => i = j
              /\ \A s \in D : \E i \in 1 .. n : MoveList[i] = s
              /\ D \subseteq Snake
              /\ \A s \in D :
                    /\ bodies[s] \in JsBody /\ dir[s] \in Direction
                    /\ Free(dir, s) => Goes(dir, s) \in Cell
                    /\ Free(dir, s) <=> ~(\/ OutOfBounds(Goes(dir, s))
                                          \/ Js.vacated[Goes(dir, s)] > 0)
<1>0. GameInv /\ Me \in DOMAIN bodies /\ dir \in [DOMAIN bodies -> Direction]
  BY DEF ATurn
<1> DEFINE n == Len(MoveList)
           D == DOMAIN bodies
<1>1. InOrder(MoveList, D)
  BY <1>0, JsIs
<1>2. /\ n \in Nat /\ MoveList \in [1 .. n -> D]
      /\ \A i, j \in 1 .. n : MoveList[i] = MoveList[j] => i = j
      /\ \A s \in D : \E i \in 1 .. n : MoveList[i] = s
  BY <1>1, InOrderFacts
<1>3. n >= 1 /\ MoveList[1] = Me
  <2>1. Js.enemies \in Seq(Snake)
    BY <1>0, JsIs DEF JsStates
  <2> DEFINE e == Js.enemies
  <2> HIDE DEF e
  <2>2. /\ <<Me>> \in Seq(Snake) /\ Len(<<Me>>) = 1 /\ <<Me>>[1] = Me
        /\ e \in Seq(Snake)
    BY <2>1, GameAssumption DEF e
  <2>3. /\ Len(<<Me>> \o e) = Len(<<Me>>) + Len(e)
        /\ \A i \in 1 .. Len(<<Me>>) + Len(e) :
              (<<Me>> \o e)[i] = IF i <= Len(<<Me>>) THEN <<Me>>[i] ELSE e[i - Len(<<Me>>)]
    BY <2>2, ConcatProperties
  <2>4. Len(e) \in Nat
    BY <2>2
  <2>5. Len(<<Me>> \o e) >= 1 /\ (<<Me>> \o e)[1] = Me
    BY <2>2, <2>3, <2>4
  <2> QED BY <2>5 DEF MoveList, e
<1>4. D \subseteq Snake /\ \A s \in D : bodies[s] \in JsBody /\ dir[s] \in Direction
  BY <1>0 DEF GameInv, TypeOK, JsBody
<1>5. ASSUME NEW s \in D
      PROVE  /\ Free(dir, s) => Goes(dir, s) \in Cell
             /\ Free(dir, s) <=> ~(\/ OutOfBounds(Goes(dir, s))
                                   \/ Js.vacated[Goes(dir, s)] > 0)
  <2>1. bodies[s][1] \in Cell
    <3>1. bodies[s] \in Seq(Cell) /\ 1 \in 1 .. Len(bodies[s])
      BY <1>4 DEF JsBody
    <3> QED BY <3>1
  <2>2. CASE OutOfBounds(Goes(dir, s))
    BY <2>2 DEF Free
  <2>3. CASE ~OutOfBounds(Goes(dir, s))
    <3>1. Goes(dir, s) \in Cell
      BY <1>4, <2>1, <2>3, OntoTheBoard DEF Goes
    <3> DEFINE x == Js.vacated[Goes(dir, s)]
    <3>2. x \in Nat /\ (x = 0 <=> NoTail(Goes(dir, s)))
      BY <1>0, <3>1, JsIs
    <3> HIDE DEF x
    <3>3. x > 0 <=> ~NoTail(Goes(dir, s))
      BY <3>2
    <3> QED BY <2>3, <3>1, <3>3 DEF Free, x
  <2> QED BY <2>2, <2>3
<1> QED BY <1>2, <1>3, <1>4, <1>5

\* Whatever a snake is told, a state remains a state.
LEMMA MoveSnakeType ==
    ASSUME NEW v, NEW js \in JsStates, NEW s, NEW d \in Direction
    PROVE  MoveSnake(v, js, s, d) \in JsStates
<1>1. CASE s \notin DOMAIN js.parts
  BY <1>1, ThrowKeeps DEF MoveSnake
<1>2. CASE s \in DOMAIN js.parts
  <2> DEFINE to == CoordAfterMove(js.parts[s][1], d)
  <2>1. js.parts[s][1] \in Cell
    <3>1. js.parts[s] \in JsBody
      BY <1>2 DEF JsStates, JsParts
    <3>2. js.parts[s] \in Seq(Cell) /\ 1 \in 1 .. Len(js.parts[s])
      BY <3>1 DEF JsBody
    <3> QED BY <3>2
  <2>2. ~OutOfBounds(to) => to \in Cell
    BY <2>1, OntoTheBoard
  <2> HIDE DEF to
  <2>3. MoveSnake(v, js, s, d) = IF OutOfBounds(to) \/ v[to] > 0
                                 THEN RemoveSnake(js, s) ELSE MoveParts(js, s, to)
    BY <1>2 DEF MoveSnake, to
  <2>4. RemoveSnake(js, s) \in JsStates
    BY <1>2, RemoveSnakeIs
  <2>5. to \in Cell => MoveParts(js, s, to) \in JsStates
    BY <1>2, MovePartsIs DEF MovedOn
  <2> QED BY <2>2, <2>3, <2>4, <2>5
<1> QED BY <1>1, <1>2

\* What the next snake of the list does.
LEMMA NextMoveIs ==
    ASSUME NEW dir, ATurn(dir), NEW k \in 1 .. Len(MoveList),
           NEW js, MovedSoFar(dir, k - 1, js)
    PROVE  LET s == MoveList[k]
               r == MoveSnake(Js.vacated, js, s, dir[s])
           IN /\ s \in DOMAIN js.parts /\ js.parts[s] = bodies[s]
              /\ Free(dir, s) =>
                    /\ r = MoveParts(js, s, Goes(dir, s))
                    /\ Goes(dir, s) \in js.food <=> AteAt(dir, k)
              /\ ~Free(dir, s) => r = RemoveSnake(js, s)
<1> DEFINE s == MoveList[k]
           n == Len(MoveList)
<1>1. n \in Nat /\ k > k - 1 /\ ~(k <= k - 1) /\ s \in DOMAIN bodies
  BY MoveFacts
<1>2. s \in DOMAIN js.parts /\ js.parts[s] = bodies[s]
  BY <1>1 DEF MovedSoFar
<1>3. Free(dir, s) <=> ~(OutOfBounds(Goes(dir, s)) \/ Js.vacated[Goes(dir, s)] > 0)
  BY <1>1, MoveFacts
<1>4. Goes(dir, s) \in js.food <=> AteAt(dir, k)
  BY DEF MovedSoFar, AteAt
<1>5. Goes(dir, s) = CoordAfterMove(js.parts[s][1], dir[s])
  BY <1>2 DEF Goes
<1> QED BY <1>2, <1>3, <1>4, <1>5 DEF MoveSnake

\* The next snake moves on or is removed.
LEMMA MoveStep ==
    ASSUME NEW dir, ATurn(dir), NEW k \in 1 .. Len(MoveList),
           NEW js, MovedSoFar(dir, k - 1, js)
    PROVE  MovedSoFar(dir, k, MoveSnake(Js.vacated, js, MoveList[k], dir[MoveList[k]]))
<1> DEFINE n == Len(MoveList)
           L(i) == MoveList[i]
           s == L(k)
           fr(i) == Free(dir, L(i))
           g(i) == Goes(dir, L(i))
           r == MoveSnake(Js.vacated, js, s, dir[s])
           D == DOMAIN bodies
           old(t) == bodies[t]
           after(i) == After(dir, i)
<1>1. /\ n \in Nat /\ s \in DOMAIN js.parts /\ js.parts[s] = bodies[s]
      /\ fr(k) => /\ r = MoveParts(js, s, g(k))
                  /\ g(k) \in js.food <=> AteAt(dir, k)
      /\ ~fr(k) => r = RemoveSnake(js, s)
  BY MoveFacts, NextMoveIs
<1>2. /\ js \in JsStates /\ js.threw = FALSE
      /\ DOMAIN js.parts \subseteq D
      /\ \A i \in 1 .. n :
          /\ L(i) \in DOMAIN js.parts <=> (i <= k - 1 => fr(i))
          /\ i <= k - 1 /\ fr(i) => js.parts[L(i)] = after(i)
          /\ i > k - 1 => js.parts[L(i)] = old(L(i))
      /\ \A f : f \in js.food <=>
                 /\ f \in food
                 /\ \A i \in 1 .. k - 1 : fr(i) => f # g(i)
      /\ YouLives(js) /\ EnemiesLeft(js) /\ InTheGrid(js)
  BY DEF MovedSoFar
<1>3. /\ \A i \in 1 .. n : L(i) = s => i = k
      /\ fr(k) => g(k) \in Cell
      /\ Me \in D /\ s \in D /\ old(s) \in JsBody
  BY MoveFacts DEF ATurn
<1>4. /\ \A i \in 1 .. n : i <= k <=> (i <= k - 1 \/ i = k)
      /\ \A i \in 1 .. n : i > k - 1 <=> (i > k \/ i = k)
      /\ \A i : i \in 1 .. k <=> (i \in 1 .. k - 1 \/ i = k)
      /\ k \in 1 .. n /\ ~(k <= k - 1) /\ k <= k /\ ~(k > k)
  BY <1>1
<1>5. /\ fr(k) => after(k) = Grown(old(s), g(k), AteAt(dir, k))
      /\ AteAt(dir, k) \in BOOLEAN
  BY DEF After, AteAt
<1> HIDE DEF r, L, s, fr, g, after, old, n
<1>6. CASE ~fr(k)
  <2>1. /\ r \in JsStates /\ DOMAIN r.parts = DOMAIN js.parts \ {s}
        /\ \A t \in DOMAIN r.parts : r.parts[t] = js.parts[t]
        /\ r.food = js.food /\ r.threw = js.threw
        /\ YouLives(r) /\ EnemiesLeft(r) /\ InTheGrid(r)
    BY <1>1, <1>2, <1>3, <1>6, RemoveSnakeKeeps DEF D
  <2>2. s = L(k)
    BY DEF s
  <2>3. ASSUME NEW i \in 1 .. n
        PROVE  /\ L(i) \in DOMAIN r.parts <=> (i <= k => fr(i))
               /\ i <= k /\ fr(i) => r.parts[L(i)] = after(i)
               /\ i > k => r.parts[L(i)] = old(L(i))
    <3>1. L(i) \in DOMAIN r.parts <=> (L(i) \in DOMAIN js.parts /\ i # k)
      BY <1>3, <2>1, <2>2
    <3>2. L(i) \in DOMAIN r.parts <=> (i <= k => fr(i))
      BY <1>2, <1>4, <1>6, <3>1
    <3>3. i <= k /\ fr(i) => r.parts[L(i)] = after(i)
      BY <1>2, <1>4, <1>6, <2>1, <3>2
    <3>4. i > k => r.parts[L(i)] = old(L(i))
      <4> SUFFICES ASSUME i > k PROVE r.parts[L(i)] = old(L(i))
        OBVIOUS
      <4>0. ~(i <= k)
        BY <1>1, <1>4
      <4>1. L(i) \in DOMAIN r.parts
        BY <3>2, <4>0
      <4> QED BY <1>2, <1>4, <2>1, <4>1
    <3> QED BY <3>2, <3>3, <3>4
  <2>4. ASSUME NEW f
        PROVE  f \in r.food <=> f \in food /\ \A i \in 1 .. k : fr(i) => f # g(i)
    BY <1>2, <1>4, <1>6, <2>1
  <2>5. DOMAIN r.parts \subseteq D /\ r.threw = FALSE
    BY <1>2, <2>1
  <2> QED BY <2>1, <2>3, <2>4, <2>5 DEF MovedSoFar, r, s, L, fr, g, after, old, n
<1>7. CASE fr(k)
  <2>1. MovedOn(r, js, s, g(k)) /\ g(k) \in Cell
    BY <1>1, <1>2, <1>3, <1>7, MovePartsIs
  <2>2. /\ r \in JsStates /\ r.you = js.you /\ r.enemies = js.enemies
        /\ r.threw = js.threw /\ r.food = js.food \ {g(k)}
        /\ r.parts = [t \in DOMAIN js.parts |-> IF t = s THEN after(k) ELSE js.parts[t]]
        /\ r.grid = MoveInGrid(js.grid, s, g(k), old(s)[Len(old(s))], old(s)[Len(old(s)) - 1])
    <3>1. js.parts[s] = old(s)
      BY <1>1 DEF old
    <3>2. (g(k) \in js.food) = AteAt(dir, k)
      BY <1>1, <1>5, <1>7
    <3>3. Grown(js.parts[s], g(k), g(k) \in js.food) = after(k)
      BY <1>5, <1>7, <3>1, <3>2
    <3> QED BY <2>1, <3>1, <3>3 DEF MovedOn
  <2>3. DOMAIN r.parts = DOMAIN js.parts /\ r.parts[s] = after(k)
        /\ \A t \in DOMAIN js.parts : t # s => r.parts[t] = js.parts[t]
    BY <1>1, <2>2
  <2>4. s = L(k)
    BY DEF s
  <2>5. ASSUME NEW i \in 1 .. n
        PROVE  /\ L(i) \in DOMAIN r.parts <=> (i <= k => fr(i))
               /\ i <= k /\ fr(i) => r.parts[L(i)] = after(i)
               /\ i > k => r.parts[L(i)] = old(L(i))
    <3>1. L(i) \in DOMAIN r.parts <=> (i <= k => fr(i))
      BY <1>2, <1>4, <1>7, <2>3
    <3>2. CASE i = k
      BY <1>4, <2>3, <2>4, <3>1, <3>2
    <3>3. CASE i # k
      <4>1. L(i) # s
        BY <1>3, <3>3
      <4>2. L(i) \in DOMAIN r.parts => r.parts[L(i)] = js.parts[L(i)]
        BY <2>3, <4>1
      <4>3. i <= k /\ fr(i) => r.parts[L(i)] = after(i)
        BY <1>2, <1>4, <3>1, <3>3, <4>2
      <4>4. i > k => r.parts[L(i)] = old(L(i))
        <5> SUFFICES ASSUME i > k PROVE r.parts[L(i)] = old(L(i))
          OBVIOUS
        <5>1. ~(i <= k)
          BY <1>1, <1>4
        <5> QED BY <1>2, <1>4, <3>1, <4>2, <5>1
      <4> QED BY <3>1, <4>3, <4>4
    <3> QED BY <3>2, <3>3
  <2>6. ASSUME NEW f
        PROVE  f \in r.food <=> f \in food /\ \A i \in 1 .. k : fr(i) => f # g(i)
    BY <1>2, <1>4, <1>7, <2>2
  <2>7. DOMAIN r.parts \subseteq D /\ r.threw = FALSE
    BY <1>2, <2>2, <2>3
  <2>8. YouLives(r) /\ EnemiesLeft(r)
    BY <1>2, <2>2, <2>3 DEF YouLives, EnemiesLeft
  <2>9. InTheGrid(r)
    <3> DEFINE b == old(s)
               m == after(k)
               last == b[Len(b)]
               prev == b[Len(b) - 1]
    <3>1. \A c : c \in Range(m) <=> c = g(k) \/ \E i \in 1 .. Len(b) - 1 : b[i] = c
      <4> HIDE DEF b
      <4> QED BY <1>3, <1>5, <1>7, <2>1, GrownRange DEF b
    <3>2. Len(b) \in Nat /\ Len(b) >= 2 /\ DOMAIN b = 1 .. Len(b)
      BY <1>3 DEF JsBody
    <3>3. \A c : c \in Range(b) => c = last \/ \E i \in 1 .. Len(b) - 1 : b[i] = c
      <4> HIDE DEF b
      <4>0. \A x \in Nat : \A i \in 1 .. x : i = x \/ i \in 1 .. x - 1
        OBVIOUS
      <4>1. \A i \in 1 .. Len(b) : i = Len(b) \/ i \in 1 .. Len(b) - 1
        BY <3>2, <4>0
      <4> QED BY <3>2, <4>1 DEF Range
    <3>4. prev \in {b[i] : i \in 1 .. Len(b) - 1}
      <4>1. Len(b) - 1 \in 1 .. Len(b) - 1
        BY <3>2
      <4> QED BY <4>1
    <3>5. /\ js.grid \in Grids /\ s \in DOMAIN js.parts /\ js.parts[s] = b
          /\ DOMAIN js.parts \subseteq Snake
          /\ s # Nobody
      BY <1>1, <1>2, NobodyAssumption DEF JsStates, JsParts, old
    <3> DEFINE entered == [js.grid EXCEPT ![g(k)] = s]
    <3>6. entered \in Grids /\ entered[g(k)] = s
          /\ \A c \in Cell : c # g(k) => entered[c] = js.grid[c]
      BY <2>1, <3>5 DEF Grids
    <3>7. r.grid = IF entered[last] = s /\ prev # last
                   THEN [entered EXCEPT ![last] = Nobody] ELSE entered
      BY <2>2 DEF MoveInGrid
    <3>8. \A c \in Cell : js.grid[c] # Nobody => js.grid[c] \in Under0(js.parts, c)
      BY <1>2 DEF InTheGrid
    <3> HIDE DEF b, m, last, prev, entered
    <3>a. \A c : c \in Range(b) /\ c # last => c \in Range(m)
      BY <3>1, <3>3
    <3>b. ASSUME NEW c \in Cell, r.grid[c] # Nobody PROVE r.grid[c] \in Under0(r.parts, c)
      <4>1. r.grid[c] = entered[c]
            /\ (c = last => ~(entered[last] = s /\ prev # last))
        BY <3>6, <3>7, <3>b DEF Grids
      <4>2. CASE c = g(k)
        <5>1. r.grid[c] = s /\ c \in Range(m)
          BY <3>1, <3>6, <4>1, <4>2
        <5> QED BY <2>3, <3>5, <5>1 DEF Under0, m
      <4>3. CASE c # g(k)
        <5>1. r.grid[c] = js.grid[c] /\ entered[c] = js.grid[c]
          BY <3>6, <4>1, <4>3
        <5> DEFINE q == js.grid[c]
        <5>2. q \in DOMAIN js.parts /\ c \in Range(js.parts[q])
          BY <3>8, <3>b, <5>1 DEF Under0
        <5> HIDE DEF q
        <5>3. CASE q # s
          BY <2>3, <5>1, <5>2, <5>3 DEF Under0, q
        <5>4. CASE q = s
          <6>1. c \in Range(b)
            BY <3>5, <5>2, <5>4
          <6>2. c = last => prev = last
            BY <4>1, <5>1, <5>4 DEF q
          <6>3. c = last => c \in Range(m)
            BY <3>1, <3>4, <6>2 
          <6>4. c \in Range(m)
            BY <3>a, <6>1, <6>3
          <6> QED BY <2>3, <3>5, <5>1, <5>4, <6>4 DEF Under0, q, m
        <5> QED BY <5>3, <5>4
      <4> QED BY <4>2, <4>3
    <3> QED BY <3>b DEF InTheGrid
  <2> QED BY <2>2, <2>5, <2>6, <2>7, <2>8, <2>9
          DEF MovedSoFar, r, s, L, fr, g, after, old, n
<1> QED BY <1>6, <1>7 DEF r, s, L

-----------------------------------------------------------------------------
(* its caches during the moves *)

\* The map after the move of one snake, cell by cell.
LEMMA MapMovesOn ==
    ASSUME NEW b \in JsBody, NEW h \in Cell, NEW ate \in BOOLEAN,
           \A i \in 1 .. Len(b) - 1 : b[i] # h,
           NEW v \in [Cell -> Nat], NEW c \in Cell
    PROVE  LET m == Grown(b, h, ate)
               u == IncrementalUpdate(v, m, ate)
           IN /\ u \in [Cell -> Nat]
              /\ c = h => u[c] = IF Len(m) - 1 > v[c] THEN Len(m) - 1 ELSE v[c]
              /\ c # h /\ (ate \/ \A i \in 1 .. Len(b) - 1 : b[i] # c) => u[c] = v[c]
              /\ ~ate => \A i \in 1 .. Len(b) - 1 :
                    b[i] = c /\ (\A j \in 1 .. Len(b) - 1 : b[j] = c => j = i) =>
                       u[c] = Less(v[c])
<1> DEFINE m == Grown(b, h, ate)
           u == IncrementalUpdate(v, m, ate)
           e == Vacate(v, m[1], Len(m) - 1)
<1>0. PICK n \in Nat : n = Len(b) /\ n >= 2
  BY DEF JsBody
<1>1. /\ m \in JsBody /\ m[1] = h
      /\ Len(m) = n + (IF ate THEN 1 ELSE 0)
      /\ \A i \in 2 .. n : m[i] = b[i - 1]
      /\ ate => m[n + 1] = b[n - 1]
      /\ \A d : d \in Range(m) <=> d = h \/ \E i \in 1 .. n - 1 : b[i] = d
  <2> HIDE DEF m
  <2>1. /\ m \in JsBody /\ m[1] = h
        /\ Len(m) = Len(b) + (IF ate THEN 1 ELSE 0)
        /\ \A i \in 2 .. Len(b) : m[i] = b[i - 1]
        /\ ate => m[Len(b) + 1] = b[Len(b) - 1]
        /\ \A d : d \in Range(m) <=> d = h \/ \E i \in 1 .. Len(b) - 1 : b[i] = d
    BY GrownRange DEF m
  <2> QED BY <1>0, <2>1
<1> HIDE DEF m
<1>2. /\ u \in [Cell -> Nat] /\ e \in [Cell -> Nat]
      /\ ate => u = e
      /\ \A d \in Cell : (\A i \in 2 .. Len(m) : m[i] # d) => u[d] = e[d]
      /\ ~ate => \A i \in 2 .. Len(m) :
            (\A j \in 2 .. Len(m) : m[j] = m[i] => j = i) => u[m[i]] = Less(e[m[i]])
  BY <1>1, IncrementalIs
<1>3. /\ e[h] = IF Len(m) - 1 > v[h] THEN Len(m) - 1 ELSE v[h]
      /\ \A d \in Cell : d # h => e[d] = v[d]
  BY <1>1 DEF Vacate
<1> HIDE DEF u, e
<1>4. ASSUME NEW d \in Cell, \A i \in 1 .. n - 1 : b[i] # d PROVE u[d] = e[d]
  <2>1. ASSUME NEW i \in 2 .. Len(m) PROVE m[i] # d
    <3>1. CASE i <= n
      <4>1. i \in 2 .. n /\ i - 1 \in 1 .. n - 1
        BY <3>1
      <4> QED BY <1>1, <1>4, <4>1
    <3>2. CASE ~(i <= n)
      <4>1. ate /\ i = n + 1 /\ n - 1 \in 1 .. n - 1
        BY <1>0, <1>1, <3>2
      <4> QED BY <1>1, <1>4, <4>1
    <3> QED BY <3>1, <3>2
  <2> QED BY <1>2, <2>1
<1>5. c = h => u[c] = IF Len(m) - 1 > v[c] THEN Len(m) - 1 ELSE v[c]
  <2>1. \A i \in 1 .. n - 1 : b[i] # h
    BY <1>0
  <2> QED BY <1>3, <1>4, <2>1
<1>6. ASSUME c # h, ate \/ \A i \in 1 .. n - 1 : b[i] # c PROVE u[c] = v[c]
  BY <1>2, <1>3, <1>4, <1>6
<1>7. ASSUME ~ate, NEW i \in 1 .. n - 1, b[i] = c, \A j \in 1 .. n - 1 : b[j] = c => j = i
      PROVE  u[c] = Less(v[c])
  <2>1. i + 1 \in 2 .. n /\ (i + 1) - 1 = i /\ Len(m) = n
    BY <1>1, <1>7
  <2>2. m[i + 1] = c /\ c # h
    BY <1>0, <1>1, <1>7, <2>1
  <2>3. ASSUME NEW j \in 2 .. n, m[j] = c PROVE j = i + 1
    <3>1. j - 1 \in 1 .. n - 1 /\ m[j] = b[j - 1]
      BY <1>1
    <3>2. j - 1 = i
      BY <1>7, <2>3, <3>1
    <3> QED BY <3>2
  <2>4. u[m[i + 1]] = Less(e[m[i + 1]])
    BY <1>2, <1>7, <2>1, <2>2, <2>3
  <2> QED BY <1>3, <2>2, <2>4
<1>8. u \in [Cell -> Nat]
  BY <1>2
<1> QED BY <1>0, <1>5, <1>6, <1>7, <1>8 DEF u, m

WithBody(p, s, m) == [q \in DOMAIN p |-> IF q = s THEN m ELSE p[q]]

\* The map counts right in the cell c, where no three parts of s are stacked
\* and where no one else is if its tail is there; s can go to h.
CanCount(p, s, h, ate, v, c) ==
    /\ s \in DOMAIN p /\ p \in [DOMAIN p -> JsBody] /\ h \in Cell /\ ate \in BOOLEAN
    /\ \A i \in 1 .. Len(p[s]) - 1 : p[s][i] # h
    /\ v \in [Cell -> Nat] /\ c \in Cell /\ CountAt(v, p, c)
    /\ \A q \in DOMAIN p \ {s} : c \in Range(p[q]) =>
          \A i \in 1 .. Len(p[s]) - 1 : p[s][i] # c
    /\ \A i, j \in 1 .. Len(p[s]) - 1 : p[s][i] = c /\ p[s][j] = c => i = j

\* It is right there again after the move of s.
LEMMA CountMovesOn ==
    ASSUME NEW p, NEW s, NEW h, NEW ate, NEW v, NEW c, CanCount(p, s, h, ate, v, c)
    PROVE  CountAt(IncrementalUpdate(v, Grown(p[s], h, ate), ate),
                   WithBody(p, s, Grown(p[s], h, ate)), c)
<1> DEFINE D == DOMAIN p
<1>a. /\ s \in D /\ p \in [D -> JsBody] /\ h \in Cell /\ ate \in BOOLEAN
      /\ \A i \in 1 .. Len(p[s]) - 1 : p[s][i] # h
      /\ v \in [Cell -> Nat] /\ c \in Cell /\ CountAt(v, p, c)
      /\ \A q \in D \ {s} : c \in Range(p[q]) =>
            \A i \in 1 .. Len(p[s]) - 1 : p[s][i] # c
      /\ \A i, j \in 1 .. Len(p[s]) - 1 : p[s][i] = c /\ p[s][j] = c => i = j
  BY DEF CanCount
<1>t. s \in D /\ h \in Cell /\ ate \in BOOLEAN /\ v \in [Cell -> Nat] /\ c \in Cell
  BY <1>a
<1> HIDE DEF D
<1> DEFINE b == p[s]
           m == Grown(b, h, ate)
           u == IncrementalUpdate(v, m, ate)
           after == [q \in D |-> IF q = s THEN m ELSE p[q]]
<1>0. PICK n \in Nat : n = Len(b) /\ n >= 2
  <2>1. b \in JsBody
    BY <1>a
  <2> HIDE DEF b
  <2> QED BY <2>1 DEF JsBody
<1>1. /\ b \in JsBody
      /\ \A i \in 1 .. n - 1 : b[i] # h
      /\ \A q \in D \ {s} : c \in Range(p[q]) => \A i \in 1 .. n - 1 : b[i] # c
      /\ \A i, j \in 1 .. n - 1 : b[i] = c /\ b[j] = c => i = j
      /\ \A q \in D : DOMAIN p[q] = 1 .. Len(p[q])
  BY <1>0, <1>a DEF JsBody
<1>2. /\ \A q \in D : \A i \in 1 .. Len(p[q]) : p[q][i] = c => Len(p[q]) - i <= v[c]
      /\ v[c] = 0 \/ \E q \in D : \E i \in 1 .. Len(p[q]) : p[q][i] = c /\ v[c] = Len(p[q]) - i
      /\ v[c] \in Nat
  BY <1>a DEF CountAt, D
<1>3. /\ DOMAIN after = D /\ after[s] = m
      /\ \A q \in D \ {s} : after[q] = p[q]
  BY <1>a
<1> HIDE DEF b
<1>4. /\ m[1] = h
      /\ Len(m) = n + (IF ate THEN 1 ELSE 0)
      /\ \A i \in 2 .. n : m[i] = b[i - 1]
      /\ ate => m[n + 1] = b[n - 1]
  <2> HIDE DEF m
  <2>1. /\ m[1] = h
        /\ Len(m) = Len(b) + (IF ate THEN 1 ELSE 0)
        /\ \A i \in 2 .. Len(b) : m[i] = b[i - 1]
        /\ ate => m[Len(b) + 1] = b[Len(b) - 1]
    <3>1. b \in Seq(Cell) /\ Len(b) >= 2 /\ h \in Cell /\ ate \in BOOLEAN
      BY <1>1, <1>t DEF JsBody
    <3>2. LET g == Grown(b, h, ate)
          IN /\ g[1] = h
             /\ Len(g) = Len(b) + (IF ate THEN 1 ELSE 0)
             /\ \A i \in 2 .. Len(b) : g[i] = b[i - 1]
             /\ ate => g[Len(b) + 1] = b[Len(b) - 1]
      BY <3>1, GrownFacts
    <3> QED BY <3>2 DEF m
  <2> QED BY <1>0, <2>1
<1>5. /\ u \in [Cell -> Nat]
      /\ c = h => u[c] = IF Len(m) - 1 > v[c] THEN Len(m) - 1 ELSE v[c]
      /\ c # h /\ (ate \/ \A i \in 1 .. n - 1 : b[i] # c) => u[c] = v[c]
      /\ ~ate => \A i \in 1 .. n - 1 :
            b[i] = c /\ (\A j \in 1 .. n - 1 : b[j] = c => j = i) => u[c] = Less(v[c])
  <2> HIDE DEF m, u
  <2>1. \A i \in 1 .. Len(b) - 1 : b[i] # h
    BY <1>0, <1>1
  <2>2. /\ u \in [Cell -> Nat]
        /\ c = h => u[c] = IF Len(m) - 1 > v[c] THEN Len(m) - 1 ELSE v[c]
        /\ c # h /\ (ate \/ \A i \in 1 .. Len(b) - 1 : b[i] # c) => u[c] = v[c]
        /\ ~ate => \A i \in 1 .. Len(b) - 1 :
              b[i] = c /\ (\A j \in 1 .. Len(b) - 1 : b[j] = c => j = i) =>
                 u[c] = Less(v[c])
    BY <1>1, <2>1, <1>t, MapMovesOn, SMTT(60) DEF m, u
  <2> QED BY <1>0, <2>2
<1> HIDE DEF m, u, after
<1>6. u[c] \in Nat /\ Len(m) \in Nat
  BY <1>4, <1>5, <1>t
\* the parts behind the head
<1>7. ASSUME NEW i \in 1 .. Len(m), m[i] = c, i # 1
      PROVE  \/ i \in 2 .. n /\ i - 1 \in 1 .. n - 1 /\ b[i - 1] = c
             \/ ate /\ i = n + 1 /\ b[n - 1] = c
  <2>1. CASE i <= n
    <3>1. i \in 2 .. n /\ i - 1 \in 1 .. n - 1
      BY <1>7, <2>1
    <3> QED BY <1>4, <1>7, <3>1
  <2>2. CASE ~(i <= n)
    <3>1. ate /\ i = n + 1
      BY <1>4, <2>2
    <3> QED BY <1>4, <1>7, <3>1
  <2> QED BY <2>1, <2>2
<1>8. n - 1 \in 1 .. n - 1 /\ 1 \in 1 .. Len(m)
  BY <1>0, <1>4
\* the counts of the other snakes
<1>9. ASSUME v[c] <= u[c], \A i \in 1 .. Len(m) : m[i] = c => Len(m) - i <= u[c]
      PROVE  \A q \in D : \A i \in 1 .. Len(after[q]) :
                after[q][i] = c => Len(after[q]) - i <= u[c]
  <2> SUFFICES ASSUME NEW q \in D, NEW i \in 1 .. Len(after[q]), after[q][i] = c
               PROVE  Len(after[q]) - i <= u[c]
    OBVIOUS
  <2>1. CASE q = s
    BY <1>3, <1>9, <2>1
  <2>2. CASE q # s
    <3>1. Len(p[q]) - i <= v[c] /\ Len(p[q]) \in Nat
      BY <1>2, <1>3, <1>a, <2>2 DEF JsBody
    <3> QED BY <1>2, <1>3, <1>6, <1>9, <2>2, <3>1
  <2> QED BY <2>1, <2>2
<1>10. ASSUME u[c] = v[c],
              v[c] # 0 => \A i \in 1 .. n : b[i] = c /\ v[c] = n - i =>
                 \E j \in 1 .. Len(m) : m[j] = c /\ v[c] = Len(m) - j
       PROVE  u[c] = 0 \/ \E q \in D : \E i \in 1 .. Len(after[q]) :
                             after[q][i] = c /\ u[c] = Len(after[q]) - i
  <2>1. CASE v[c] = 0
    BY <1>10, <2>1
  <2>2. CASE v[c] # 0
    <3>1. PICK q \in D : \E i \in 1 .. Len(p[q]) : p[q][i] = c /\ v[c] = Len(p[q]) - i
      BY <1>2, <2>2
    <3>2. CASE q = s
      <4>1. PICK i \in 1 .. n : b[i] = c /\ v[c] = n - i
        BY <1>0, <3>1, <3>2 DEF b
      <4>2. PICK j \in 1 .. Len(m) : m[j] = c /\ v[c] = Len(m) - j
        BY <1>10, <2>2, <4>1
      <4> QED BY <1>3, <1>10, <1>t, <4>2
    <3>3. CASE q # s
      BY <1>3, <1>10, <3>1, <3>3
    <3> QED BY <3>2, <3>3
  <2> QED BY <2>1, <2>2
<1>11. ASSUME c = h PROVE CountAt(u, after, c)
  <2>1. u[c] = IF Len(m) - 1 > v[c] THEN Len(m) - 1 ELSE v[c]
    BY <1>5, <1>11
  <2>2. \A i \in 1 .. Len(m) : m[i] = c => i = 1
    BY <1>1, <1>7, <1>8, <1>11
  <2>3. v[c] <= u[c] /\ Len(m) - 1 <= u[c]
    BY <1>2, <1>6, <2>1
  <2>4. \A i \in 1 .. Len(m) : m[i] = c => Len(m) - i <= u[c]
    BY <2>2, <2>3
  <2>5. u[c] = 0 \/ \E q \in D : \E i \in 1 .. Len(after[q]) :
                             after[q][i] = c /\ u[c] = Len(after[q]) - i
    <3>1. CASE Len(m) - 1 > v[c]
      <4>1. s \in D /\ after[s][1] = c /\ u[c] = Len(after[s]) - 1 /\ 1 \in 1 .. Len(after[s])
        BY <1>3, <1>4, <1>8, <1>11, <1>t, <2>1, <3>1
      <4> QED BY <4>1
    <3>2. CASE ~(Len(m) - 1 > v[c])
      <4>1. u[c] = v[c]
        BY <2>1, <3>2
      <4>2. ASSUME v[c] # 0, NEW i \in 1 .. n, b[i] = c, v[c] = n - i PROVE FALSE
        <5>1. i \in 1 .. n - 1
          BY <1>2, <4>2
        <5> QED BY <1>1, <1>11, <4>2, <5>1
      <4> QED BY <1>10, <4>1, <4>2
    <3> QED BY <3>1, <3>2
  <2> QED BY <1>3, <1>9, <2>3, <2>4, <2>5 DEF CountAt
<1>12. ASSUME c # h, \A i \in 1 .. n - 1 : b[i] # c PROVE CountAt(u, after, c)
  <2>1. u[c] = v[c]
    BY <1>5, <1>12
  <2>2. ASSUME NEW i \in 1 .. Len(m) PROVE m[i] # c
    BY <1>4, <1>7, <1>8, <1>12
  <2>3. u[c] = 0 \/ \E q \in D : \E i \in 1 .. Len(after[q]) :
                             after[q][i] = c /\ u[c] = Len(after[q]) - i
    <3>1. ASSUME v[c] # 0, NEW i \in 1 .. n, b[i] = c, v[c] = n - i PROVE FALSE
      <4>1. i \in 1 .. n - 1
        BY <1>2, <3>1
      <4> QED BY <1>12, <3>1, <4>1
    <3> QED BY <1>10, <2>1, <3>1
  <2>4. v[c] <= u[c]
    BY <1>2, <2>1
  <2> QED BY <1>3, <1>9, <2>2, <2>3, <2>4 DEF CountAt
<1>13. ASSUME c # h, NEW k \in 1 .. n - 1, b[k] = c
       PROVE  CountAt(u, after, c)
  <2>1. \A q \in D \ {s} : c \notin Range(p[q])
    BY <1>1, <1>13
  <2>2. \A j \in 1 .. n - 1 : b[j] = c => j = k
    BY <1>1, <1>13
  <2>3. k \in 1 .. n /\ n - k <= v[c] /\ n - k > 0
    BY <1>0, <1>2, <1>13, <1>t DEF b
  <2>4. v[c] = n - k
    <3>1. v[c] # 0
      BY <1>2, <2>3
    <3>2. PICK q \in D : \E i \in 1 .. Len(p[q]) : p[q][i] = c /\ v[c] = Len(p[q]) - i
      BY <1>2, <3>1
    <3>3. q = s
      BY <1>1, <2>1, <3>2 DEF Range
    <3>4. PICK i \in 1 .. n : b[i] = c /\ v[c] = n - i
      BY <1>0, <3>2, <3>3 DEF b
    <3>5. i \in 1 .. n - 1
      BY <1>2, <3>1, <3>4
    <3> QED BY <2>2, <3>4, <3>5
  <2>5. k + 1 \in 1 .. Len(m) /\ k + 1 \in 2 .. n /\ (k + 1) - 1 = k
    <3>1. k + 1 \in 1 .. n /\ k + 1 \in 2 .. n /\ (k + 1) - 1 = k
      OBVIOUS
    <3>2. Len(m) = n \/ Len(m) = n + 1
      BY <1>4
    <3> QED BY <3>1, <3>2
  <2>6. m[k + 1] = c
    BY <1>4, <1>13, <2>5
  <2>7. u[c] = Len(m) - (k + 1)
    <3>1. CASE ate
      <4>1. u[c] = v[c] /\ Len(m) = n + 1
        BY <1>4, <1>5, <1>13, <3>1
      <4> QED BY <2>4, <4>1
    <3>2. CASE ~ate
      <4>1. u[c] = Less(v[c]) /\ Len(m) = n
        BY <1>4, <1>5, <1>13, <2>2, <3>2
      <4> QED BY <2>3, <2>4, <4>1 DEF Less
    <3> QED BY <3>1, <3>2
  <2>8. ASSUME NEW i \in 1 .. Len(m), m[i] = c PROVE Len(m) - i <= u[c]
    <3>1. i # 1
      BY <1>4, <1>13, <2>8
    <3>2. CASE i \in 2 .. n /\ i - 1 \in 1 .. n - 1 /\ b[i - 1] = c
      <4>1. i - 1 = k
        BY <2>2, <3>2
      <4> QED BY <1>6, <2>7, <4>1
    <3>3. CASE ate /\ i = n + 1
      BY <1>4, <1>6, <3>3
    <3> QED BY <1>7, <2>8, <3>1, <3>2, <3>3
  <2>9. ASSUME NEW q \in D, NEW i \in 1 .. Len(after[q]), after[q][i] = c
        PROVE  Len(after[q]) - i <= u[c]
    <3>1. CASE q = s
      BY <1>3, <2>8, <2>9, <3>1
    <3>2. CASE q # s
      BY <1>1, <1>3, <2>1, <2>9, <3>2 DEF Range
    <3> QED BY <3>1, <3>2
  <2>10. \E q \in D : \E i \in 1 .. Len(after[q]) : after[q][i] = c /\ u[c] = Len(after[q]) - i
    BY <1>3, <1>t, <2>5, <2>6, <2>7
  <2> QED BY <1>3, <2>9, <2>10 DEF CountAt
<1>14. c = h \/ (c # h /\ \A i \in 1 .. n - 1 : b[i] # c)
       \/ (c # h /\ \E k \in 1 .. n - 1 : b[k] = c)
  OBVIOUS
<1>15. CountAt(u, after, c)
  BY <1>11, <1>12, <1>13, <1>14
<1>16. after = WithBody(p, s, m)
  BY DEF after, WithBody, D
<1> QED BY <1>15, <1>16 DEF u, m, b

\* Three parts or more of a snake lie in the cell before the turn.
Stacked(c) ==
    \E s \in DOMAIN bodies : \E i, j, k \in 1 .. Len(bodies[s]) :
       i < j /\ j < k /\ bodies[s][i] = c /\ bodies[s][j] = c /\ bodies[s][k] = c

\* The cell was the end of the tail of one of the first k snakes, which has
\* moved, and a head has come there: its own, or that of a snake, not mine,
\* after whose move and before the tail's another one has died.
Cleared(dir, k, c) ==
    \E l \in 1 .. k :
       /\ Free(dir, MoveList[l])
       /\ c = bodies[MoveList[l]][Len(bodies[MoveList[l]])]
       /\ \E i \in 1 .. l :
             /\ Free(dir, MoveList[i]) /\ Goes(dir, MoveList[i]) = c
             /\ i = l \/ (1 < i /\ \E j \in i + 1 .. l - 1 : ~Free(dir, MoveList[j]))

\* What the caches have after the moves of the first k snakes of the list.
CachedSoFar(dir, k, js) ==
    /\ \A c \in Cell : Stacked(c) \/ CountAt(js.vacated, js.parts, c)
    /\ \A c \in Cell : \/ Cleared(dir, k, c) \/ Under0(js.parts, c) = {}
                       \/ js.grid[c] # Nobody
    /\ \A i \in 1 .. k : Free(dir, MoveList[i]) =>
          \A t \in 1 .. Len(MoveList) :
             t > k /\ js.grid[Goes(dir, MoveList[i])] = MoveList[t] =>
                1 < i /\ \E j \in i + 1 .. k : ~Free(dir, MoveList[j])

\* Where the snakes are in the middle of the moves: in a cell of one's tail
\* there is nobody else, and in the cell of its end no one but a head that has
\* come there.
LEMMA WhoIsThere ==
    ASSUME NEW dir, ATurn(dir), NEW k \in Nat, NEW js, MovedSoFar(dir, k, js),
           NEW i \in 1 .. Len(MoveList), MoveList[i] \in DOMAIN js.parts,
           NEW s \in DOMAIN bodies, s # MoveList[i],
           NEW c \in Range(bodies[s]), c \in Range(js.parts[MoveList[i]])
    PROVE  /\ i <= k /\ Free(dir, MoveList[i]) /\ Goes(dir, MoveList[i]) = c
           /\ \A j \in 1 .. Len(bodies[s]) - 1 : bodies[s][j] # c
<1> DEFINE q == MoveList[i]
<1>1. q \in DOMAIN bodies /\ bodies[q] \in JsBody /\ bodies[s] \in JsBody
      /\ (Free(dir, q) => Goes(dir, q) \in Cell) /\ i \in Nat
  BY MoveFacts DEF MovedSoFar
<1>2. Range(bodies[q]) \cap Range(bodies[s]) = {}
  BY <1>1 DEF ATurn, GameInv, BodiesDisjoint, cells
<1>3. /\ q \in DOMAIN js.parts <=> (i <= k => Free(dir, q))
      /\ i <= k /\ Free(dir, q) => js.parts[q] = After(dir, i)
      /\ i > k => js.parts[q] = bodies[q]
  BY DEF MovedSoFar
<1>4. c \in Range(js.parts[q]) /\ q \in DOMAIN js.parts
  OBVIOUS
<1>5. After(dir, i) = Grown(bodies[q], Goes(dir, q), AteAt(dir, i)) /\ AteAt(dir, i) \in BOOLEAN
  BY DEF After, AteAt
<1> HIDE DEF q
<1>6. i <= k /\ Free(dir, q) /\ js.parts[q] = After(dir, i)
  <2>1. CASE i > k
    BY <1>2, <1>3, <1>4, <2>1
  <2>2. CASE i <= k
    BY <1>3, <1>4, <2>2
  <2> QED BY <1>1, <2>1, <2>2
<1>7. Goes(dir, q) = c
  <2> DEFINE b == bodies[q]
             h == Goes(dir, q)
             ate == AteAt(dir, i)
  <2>1. c \in Range(Grown(b, h, ate)) /\ b \in JsBody /\ h \in Cell /\ ate \in BOOLEAN
    BY <1>1, <1>4, <1>5, <1>6
  <2>a. Range(b) \cap Range(bodies[s]) = {} /\ c \in Range(bodies[s])
    BY <1>2
  <2> HIDE DEF b, h, ate
  <2>2. c = h \/ \E j \in 1 .. Len(b) - 1 : b[j] = c
    BY <2>1, GrownRange
  <2>3. \A x \in Nat : \A j \in 1 .. x - 1 : j \in 1 .. x
    OBVIOUS
  <2>4. DOMAIN b = 1 .. Len(b) /\ Len(b) \in Nat
    BY <2>1 DEF JsBody
  <2>5. \A j \in 1 .. Len(b) - 1 : b[j] \in Range(b)
    BY <2>3, <2>4 DEF Range
  <2> QED BY <2>2, <2>5, <2>a DEF h
<1>8. \A j \in 1 .. Len(bodies[s]) - 1 : bodies[s][j] # c
  BY <1>6, <1>7 DEF Free, NoTail
<1> QED BY <1>6, <1>7, <1>8 DEF q

\* A snake that dies has everything made anew, mine on top.
LEMMA CacheAfterDeath ==
    ASSUME NEW dir, ATurn(dir), NEW k \in 1 .. Len(MoveList), NEW js,
           MovedSoFar(dir, k, js), Fresh(js), ~Free(dir, MoveList[k])
    PROVE  CachedSoFar(dir, k, js)
<1> DEFINE n == Len(MoveList)
           grid == js.grid
           L(i) == MoveList[i]
<1>1. /\ js \in JsStates /\ js.parts \in JsParts /\ InOrder(js.order, DOMAIN js.parts)
      /\ js.you \in DOMAIN js.parts \cup {Nobody} /\ YouLives(js)
  BY DEF MovedSoFar, JsStates
<1>2. /\ \A c \in Cell : /\ Under0(js.parts, c) # {} => grid[c] # Nobody
                         /\ js.you \in Under0(js.parts, c) => grid[c] = js.you
  BY <1>1, FilledGridIs DEF Fresh
<1>3. \A c \in Cell : CountAt(js.vacated, js.parts, c)
  BY <1>1, FreshCounts
<1>4. n \in Nat /\ L(1) = Me /\ 1 \in 1 .. n /\ \A i, j \in 1 .. n : L(i) = L(j) => i = j
  BY MoveFacts
<1>5. ASSUME NEW i \in 1 .. k, Free(dir, L(i)), NEW t \in 1 .. n, t > k,
             grid[Goes(dir, L(i))] = L(t)
      PROVE  1 < i /\ \E j \in i + 1 .. k : ~Free(dir, L(j))
  <2>1. i # k
    BY <1>5
  <2>2. i # 1
    <3> SUFFICES ASSUME i = 1 PROVE FALSE
      OBVIOUS
    <3>1. Free(dir, Me) /\ 1 <= k
      BY <1>4, <1>5
    <3>2. Me \in DOMAIN js.parts /\ js.parts[Me] = After(dir, 1)
      BY <1>4, <3>1 DEF MovedSoFar
    <3>3. js.you = Me
      BY <1>1, <3>2 DEF YouLives
    <3> DEFINE h == Goes(dir, Me)
    <3>4. h \in Cell /\ bodies[Me] \in JsBody
      BY <3>1, MoveFacts DEF ATurn
    <3>5. h \in Range(js.parts[Me])
      <4>1. js.parts[Me] = Grown(bodies[Me], h, AteAt(dir, 1)) /\ AteAt(dir, 1) \in BOOLEAN
        BY <1>4, <3>2 DEF After, AteAt
      <4> HIDE DEF h
      <4> QED BY <3>4, <4>1, GrownRange
    <3>6. grid[h] = Me
      BY <1>2, <3>2, <3>3, <3>4, <3>5 DEF Under0
    <3>7. L(t) = L(1)
      BY <1>4, <1>5, <3>6
    <3>8. t = 1
      BY <1>4, <3>7
    <3> QED BY <1>5, <3>8
  <2>3. 1 < i /\ k \in i + 1 .. k
    BY <2>1, <2>2
  <2> QED BY <2>3
<1> QED BY <1>2, <1>3, <1>5 DEF CachedSoFar

\* After the move of a snake that goes on, the map is right where no three
\* parts were stacked ...
LEMMA CountStep ==
    ASSUME NEW dir, ATurn(dir), NEW k \in 1 .. Len(MoveList),
           NEW js, MovedSoFar(dir, k - 1, js), CachedSoFar(dir, k - 1, js),
           NEW r, MovedOn(r, js, MoveList[k], Goes(dir, MoveList[k])),
           Free(dir, MoveList[k]), NEW c \in Cell, ~Stacked(c)
    PROVE  CountAt(r.vacated, r.parts, c)
<1> DEFINE s == MoveList[k]
           h == Goes(dir, s)
           D == DOMAIN js.parts
           b == bodies[s]
           n == Len(b)
           p == js.parts
           ate == h \in js.food
           v == js.vacated
<1>1. s \in D /\ p[s] = b
  BY NextMoveIs
<1>2. /\ h \in Cell /\ s \in DOMAIN bodies /\ b \in JsBody
      /\ k - 1 \in Nat /\ \A t \in DOMAIN bodies : \E i \in 1 .. Len(MoveList) : MoveList[i] = t
  BY MoveFacts
<1>3. js \in JsStates /\ p \in [D -> JsBody] /\ v \in [Cell -> Nat] /\ D \subseteq DOMAIN bodies
  BY DEF MovedSoFar, JsStates, JsParts
<1>4. \A i \in 1 .. n - 1 : b[i] # h
  BY <1>2 DEF Free, NoTail
<1>5. CountAt(v, p, c)
  BY DEF CachedSoFar
<1>6. \A i \in 1 .. n : b[i] \in Range(b)
  <2> HIDE DEF b
  <2> QED BY <1>2 DEF Range, JsBody
<1>n. n \in Nat /\ n >= 2 /\ DOMAIN b = 1 .. n
  BY <1>2 DEF JsBody
<1>7. ASSUME NEW q \in D \ {s}, c \in Range(p[q]), NEW i \in 1 .. n - 1
      PROVE  b[i] # c
  <2> SUFFICES ASSUME b[i] = c PROVE FALSE
    OBVIOUS
  <2>1. PICK j \in 1 .. Len(MoveList) : MoveList[j] = q
    BY <1>2, <1>3
  <2>2. i \in 1 .. n
    BY <1>n
  <2>3. c \in Range(bodies[s])
    BY <1>6, <2>2
  <2>4. \A x \in 1 .. Len(bodies[s]) - 1 : bodies[s][x] # c
    <3> HIDE DEF D, b, n, h, ate
    <3>1. /\ k - 1 \in Nat /\ MovedSoFar(dir, k - 1, js)
          /\ MoveList[j] \in DOMAIN js.parts /\ s \in DOMAIN bodies /\ s # MoveList[j]
          /\ c \in Range(bodies[s]) /\ c \in Range(js.parts[MoveList[j]])
      BY <1>2, <1>7, <2>1, <2>3 DEF D
    <3> QED BY <3>1, WhoIsThere
  <2> QED BY <2>4
<1>8. ASSUME NEW i \in 1 .. n - 1, NEW j \in 1 .. n - 1, b[i] = c, b[j] = c, i < j PROVE FALSE
  <2>1. i \in 1 .. n /\ j \in 1 .. n /\ n \in j .. n /\ j < n /\ n \in 1 .. n /\ n - 1 \in 1 .. n
        /\ n \in i .. n
    <3> HIDE DEF n, b
    <3> QED BY <1>n, <1>8
  <2>2. IsPath(b)
    BY <1>2 DEF ATurn, GameInv, BodiesArePaths
  <2>3. \A x, y \in 1 .. n : x < y /\ b[x] = b[y] => \A z \in x .. n : b[z] = b[x]
    <3>1. \A x, y \in DOMAIN b : x < y /\ b[x] = b[y] => \A z \in x .. Len(b) : b[z] = b[x]
      BY <2>2 DEF IsPath
    <3> QED BY <1>n, <3>1
  <2>4. b[n] = c
    BY <1>8, <2>1, <2>3
  <2> QED BY <1>2, <1>8, <2>1, <2>4 DEF Stacked
<1>9. \A i, j \in 1 .. n - 1 : b[i] = c /\ b[j] = c => i = j
  <2> SUFFICES ASSUME NEW i \in 1 .. n - 1, NEW j \in 1 .. n - 1, b[i] = c, b[j] = c, i # j
               PROVE FALSE
    OBVIOUS
  <2>1. i < j \/ j < i
    OBVIOUS
  <2> QED BY <1>8, <2>1
<1>10. /\ r.vacated = IncrementalUpdate(v, Grown(b, h, ate), ate)
       /\ r.parts = [t \in D |-> IF t = s THEN Grown(b, h, ate) ELSE p[t]]
  BY <1>1 DEF MovedOn
<1> DEFINE m == Grown(p[s], h, ate)
<1>11. CountAt(IncrementalUpdate(v, m, ate), WithBody(p, s, m), c)
  <2>1. ate \in BOOLEAN
    OBVIOUS
  <2>2. /\ \A i \in 1 .. Len(p[s]) - 1 : p[s][i] # h
        /\ \A q \in D \ {s} : c \in Range(p[q]) => \A i \in 1 .. Len(p[s]) - 1 : p[s][i] # c
        /\ \A i, j \in 1 .. Len(p[s]) - 1 : p[s][i] = c /\ p[s][j] = c => i = j
    BY <1>1, <1>4, <1>7, <1>9
  <2> HIDE DEF s, h, p, ate, v
  <2>3. D = DOMAIN p
    BY DEF p
  <2> HIDE DEF D
  <2>4. CanCount(p, s, h, ate, v, c)
    BY <1>1, <1>2, <1>3, <1>5, <2>1, <2>2, <2>3 DEF CanCount
  <2> QED BY <2>4, CountMovesOn
<1>12. IncrementalUpdate(v, m, ate) = r.vacated /\ WithBody(p, s, m) = r.parts
  <2> HIDE DEF ate, h, s, v
  <2> QED BY <1>1, <1>10 DEF WithBody
<1> QED BY <1>11, <1>12

\* ... and the grid has somebody in each cell that a snake lies in, except for
\* those that the move of a tail has cleared.
LEMMA GridStep ==
    ASSUME NEW dir, ATurn(dir), NEW k \in 1 .. Len(MoveList),
           NEW js, MovedSoFar(dir, k - 1, js), CachedSoFar(dir, k - 1, js),
           NEW r, MovedOn(r, js, MoveList[k], Goes(dir, MoveList[k])),
           Free(dir, MoveList[k]), MovedSoFar(dir, k, r)
    PROVE  /\ \A c \in Cell : \/ Cleared(dir, k, c) \/ Under0(r.parts, c) = {}
                              \/ r.grid[c] # Nobody
           /\ \A i \in 1 .. k : Free(dir, MoveList[i]) =>
                 \A t \in 1 .. Len(MoveList) :
                    t > k /\ r.grid[Goes(dir, MoveList[i])] = MoveList[t] =>
                       1 < i /\ \E j \in i + 1 .. k : ~Free(dir, MoveList[j])
<1> DEFINE s == MoveList[k]
           h == Goes(dir, s)
           D == DOMAIN js.parts
           b == bodies[s]
           n == Len(b)
           last == b[n]
           prev == b[n - 1]
           m == Grown(b, h, h \in js.food)
           entered == [js.grid EXCEPT ![h] = s]
<1>1. s \in D /\ js.parts[s] = b
  BY NextMoveIs
<1>2. /\ h \in Cell /\ s \in DOMAIN bodies /\ b \in JsBody /\ s # Nobody
      /\ k \in Nat /\ k - 1 \in Nat /\ Len(MoveList) \in Nat
      /\ \A t \in DOMAIN bodies : \E i \in 1 .. Len(MoveList) : MoveList[i] = t
      /\ \A i, j \in 1 .. Len(MoveList) : MoveList[i] = MoveList[j] => i = j
      /\ \A i \in 1 .. Len(MoveList) : MoveList[i] # Nobody
      /\ \A i \in 1 .. Len(MoveList) : Free(dir, MoveList[i]) => Goes(dir, MoveList[i]) \in Cell
  BY MoveFacts, NobodyAssumption
<1>3. /\ js.grid \in Grids /\ D \subseteq DOMAIN bodies /\ D \subseteq Snake
      /\ DOMAIN r.parts \subseteq DOMAIN bodies
  BY DEF MovedSoFar, JsStates, JsParts
<1>4. n \in Nat /\ n >= 2 /\ DOMAIN b = 1 .. n /\ n \in 1 .. n /\ n - 1 \in 1 .. n - 1
      /\ \A i \in 1 .. n : b[i] \in Cell
  BY <1>2 DEF JsBody
<1>5. last \in Cell /\ last \in Range(b)
  BY <1>4 DEF Range
<1>6. /\ DOMAIN r.parts = D /\ r.parts[s] = m
      /\ \A t \in D : t # s => r.parts[t] = js.parts[t]
      /\ r.grid = IF entered[last] = s /\ prev # last
                  THEN [entered EXCEPT ![last] = Nobody] ELSE entered
  BY <1>1 DEF MovedOn, MoveInGrid
<1>7. /\ entered \in Grids /\ entered[h] = s
      /\ \A c \in Cell : c # h => entered[c] = js.grid[c]
  BY <1>1, <1>2, <1>3 DEF Grids
<1>8. \A c : c \in Range(m) <=> c = h \/ \E i \in 1 .. n - 1 : b[i] = c
  <2> DEFINE ate == h \in js.food
  <2>1. ate \in BOOLEAN
    OBVIOUS
  <2> HIDE DEF h, b, ate
  <2>2. \A c : c \in Range(Grown(b, h, ate)) <=> c = h \/ \E i \in 1 .. Len(b) - 1 : b[i] = c
    BY <1>2, <2>1, GrownRange
  <2> QED BY <2>2 DEF ate
<1>9. /\ \A c \in Cell : \/ Cleared(dir, k - 1, c) \/ Under0(js.parts, c) = {}
                         \/ js.grid[c] # Nobody
      /\ \A i \in 1 .. k - 1 : Free(dir, MoveList[i]) =>
            \A t \in 1 .. Len(MoveList) :
               t > k - 1 /\ js.grid[Goes(dir, MoveList[i])] = MoveList[t] =>
                  1 < i /\ \E j \in i + 1 .. k - 1 : ~Free(dir, MoveList[j])
  BY DEF CachedSoFar
<1>10. \A i \in 1 .. n - 1 : b[i] = last => prev = last
  <2> SUFFICES ASSUME NEW i \in 1 .. n - 1, b[i] = last PROVE prev = last
    OBVIOUS
  <2>1. IsPath(b)
    BY <1>2 DEF ATurn, GameInv, BodiesArePaths
  <2>2. \A x, y \in DOMAIN b : x < y /\ b[x] = b[y] => \A z \in x .. n : b[z] = b[x]
    BY <2>1 DEF IsPath
  <2> HIDE DEF n, b
  <2>3. i \in 1 .. n /\ i < n /\ n - 1 \in i .. n
    BY <1>4
  <2> QED BY <1>4, <2>2, <2>3
<1>m. \A c : Cleared(dir, k - 1, c) => Cleared(dir, k, c)
  <2>1. 1 .. k - 1 \subseteq 1 .. k
    OBVIOUS
  <2> QED BY <2>1 DEF Cleared
<1>s. /\ s = MoveList[k] /\ k \in 1 .. k /\ Free(dir, s) /\ h = Goes(dir, s)
      /\ last = b[n] /\ b = bodies[s] /\ n = Len(b)
  BY <1>2
<1> HIDE DEF s, h, m, entered, last, prev, b, n, D
<1>11. ASSUME NEW c \in Cell, Under0(r.parts, c) # {}, r.grid[c] = Nobody
       PROVE  Cleared(dir, k, c)
  <2>1. CASE c = last /\ entered[last] = s /\ prev # last
    <3>1. ASSUME h = last PROVE Cleared(dir, k, c)
      BY <1>s, <2>1, <3>1 DEF Cleared
    <3>2. PICK q \in D : c \in Range(r.parts[q])
      BY <1>6, <1>11 DEF Under0
    <3>3. CASE q = s
      <4>1. c \in Range(m) /\ ~ \E i \in 1 .. n - 1 : b[i] = c
        BY <1>6, <1>10, <2>1, <3>2, <3>3
      <4>2. h = last
        BY <1>8, <2>1, <4>1
      <4> QED BY <3>1, <4>2
    <3>4. CASE q # s
      <4>1. PICK i \in 1 .. Len(MoveList) : MoveList[i] = q
        BY <1>2, <1>3, <3>2
      <4>2. c \in Range(bodies[s]) /\ MoveList[i] \in DOMAIN r.parts /\ s # MoveList[i]
            /\ c \in Range(r.parts[MoveList[i]])
        BY <1>5, <1>6, <1>s, <2>1, <3>2, <3>4, <4>1
      <4>3. i <= k /\ Free(dir, q) /\ Goes(dir, q) = c
        BY <1>2, <4>1, <4>2, WhoIsThere
      <4>4. i # k /\ i \in 1 .. k - 1 /\ i \in 1 .. k
        BY <1>s, <3>4, <4>1, <4>3
      <4>5. CASE h # last
        <5>1. js.grid[Goes(dir, MoveList[i])] = MoveList[k] /\ k > k - 1
          BY <1>2, <1>5, <1>7, <1>s, <2>1, <4>1, <4>3, <4>5
        <5>2. 1 < i /\ \E j \in i + 1 .. k - 1 : ~Free(dir, MoveList[j])
          BY <1>9, <4>1, <4>3, <4>4, <5>1
        <5> QED BY <1>s, <2>1, <4>1, <4>3, <4>4, <5>2 DEF Cleared
      <4> QED BY <3>1, <4>5
    <3> QED BY <3>3, <3>4
  <2>2. CASE ~(c = last /\ entered[last] = s /\ prev # last)
    <3>1. r.grid[c] = entered[c]
      BY <1>6, <1>7, <2>2 DEF Grids
    <3>2. c # h /\ js.grid[c] = Nobody
      BY <1>2, <1>7, <1>11, <3>1
    <3>3. Under0(js.parts, c) # {}
      <4>1. PICK q \in D : c \in Range(r.parts[q])
        BY <1>6, <1>11 DEF Under0
      <4>2. CASE q # s
        BY <1>6, <4>1, <4>2 DEF Under0, D
      <4>3. CASE q = s
        <5>1. PICK i \in 1 .. n - 1 : b[i] = c
          BY <1>6, <1>8, <3>2, <4>1, <4>3
        <5>2. i \in DOMAIN b
          BY <1>4
        <5>3. c \in Range(js.parts[s])
          BY <1>1, <5>1, <5>2 DEF Range
        <5> QED BY <1>1, <5>3 DEF Under0, D
      <4> QED BY <4>2, <4>3
    <3> QED BY <1>9, <1>m, <3>2, <3>3
  <2> QED BY <2>1, <2>2
<1>12. ASSUME NEW i \in 1 .. k, Free(dir, MoveList[i]),
              NEW t \in 1 .. Len(MoveList), t > k,
              r.grid[Goes(dir, MoveList[i])] = MoveList[t]
       PROVE  1 < i /\ \E j \in i + 1 .. k : ~Free(dir, MoveList[j])
  <2> DEFINE c == Goes(dir, MoveList[i])
  <2>1. i \in 1 .. Len(MoveList) /\ c \in Cell /\ MoveList[t] # Nobody /\ MoveList[t] # s
        /\ t > k - 1
    BY <1>2, <1>12, <1>s
  <2> HIDE DEF c
  <2>2. r.grid[c] = entered[c]
    BY <1>6, <1>7, <1>12, <2>1 DEF c, Grids
  <2>3. c # h /\ js.grid[c] = MoveList[t]
    BY <1>7, <1>12, <2>1, <2>2 DEF c
  <2>4. i # k /\ i \in 1 .. k - 1
    BY <1>s, <2>3 DEF c
  <2>5. 1 < i /\ \E j \in i + 1 .. k - 1 : ~Free(dir, MoveList[j])
    BY <1>9, <1>12, <2>1, <2>3, <2>4 DEF c
  <2>6. i + 1 .. k - 1 \subseteq i + 1 .. k
    OBVIOUS
  <2> QED BY <2>5, <2>6
<1> QED BY <1>11, <1>12

\* The caches after the next move.
LEMMA CacheStep ==
    ASSUME NEW dir, ATurn(dir), NEW k \in 1 .. Len(MoveList),
           NEW js, MovedSoFar(dir, k - 1, js), CachedSoFar(dir, k - 1, js)
    PROVE  CachedSoFar(dir, k, MoveSnake(Js.vacated, js, MoveList[k], dir[MoveList[k]]))
<1> DEFINE s == MoveList[k]
           r == MoveSnake(Js.vacated, js, s, dir[s])
<1>1. /\ s \in DOMAIN js.parts
      /\ Free(dir, s) => r = MoveParts(js, s, Goes(dir, s))
      /\ ~Free(dir, s) => r = RemoveSnake(js, s)
  BY NextMoveIs
<1>j. js \in JsStates
  BY DEF MovedSoFar
<1>2. MovedSoFar(dir, k, r)
  BY MoveStep
<1>3. Free(dir, s) => Goes(dir, s) \in Cell
  BY MoveFacts
<1> HIDE DEF r
<1>4. CASE ~Free(dir, s)
  <2>0. Fresh(RemoveSnake(js, s))
    <3> HIDE DEF s
    <3> QED BY <1>1, <1>j, RemoveSnakeIs
  <2>1. Fresh(r)
    BY <1>1, <1>4, <2>0
  <2> QED BY <1>2, <1>4, <2>1, CacheAfterDeath DEF r
<1>5. CASE Free(dir, s)
  <2>1. MovedOn(r, js, s, Goes(dir, s))
    BY <1>1, <1>3, <1>5, <1>j, MovePartsIs
  <2> HIDE DEF s
  <2>2. s = MoveList[k]
    BY DEF s
  <2>3. \A c \in Cell : Stacked(c) \/ CountAt(r.vacated, r.parts, c)
    BY <1>5, <2>1, <2>2, CountStep
  <2>4. /\ \A c \in Cell : \/ Cleared(dir, k, c) \/ Under0(r.parts, c) = {}
                           \/ r.grid[c] # Nobody
        /\ \A i \in 1 .. k : Free(dir, MoveList[i]) =>
              \A t \in 1 .. Len(MoveList) :
                 t > k /\ r.grid[Goes(dir, MoveList[i])] = MoveList[t] =>
                    1 < i /\ \E j \in i + 1 .. k : ~Free(dir, MoveList[j])
    BY <1>2, <1>5, <2>1, <2>2, GridStep
  <2>5. CachedSoFar(dir, k, r)
    BY <2>3, <2>4 DEF CachedSoFar
  <2> QED BY <2>5 DEF r, s
<1> QED BY <1>4, <1>5

AfterMoving(dir) ==
    FoldLeft(LAMBDA acc, s : MoveSnake(Js.vacated, acc, s, dir[s]), Js, MoveList)

\* The loop over the list.
LEMMA MovesOutcome ==
    ASSUME NEW dir, ATurn(dir)
    PROVE  /\ MovedSoFar(dir, Len(MoveList), AfterMoving(dir))
           /\ CachedSoFar(dir, Len(MoveList), AfterMoving(dir))
<1>0. PICK n \in Nat : n = Len(MoveList)
  BY MoveFacts
<1> DEFINE L == MoveList
           S == JsStates
           v == Js.vacated
           base == Js
           moved == FoldLeft(LAMBDA acc, s : MoveSnake(v, acc, s, dir[s]), base, L)
           step == [k \in 1 .. n |-> [a \in S |-> MoveSnake(v, a, L[k], dir[L[k]])]]
           IsFold(g) == g = [s \in SUBSET (1 .. n) |-> IF s = {} THEN base
                    ELSE MoveSnake(v, g[s \ {Max(s)}], L[Max(s)], dir[L[Max(s)]])]
           it == CHOOSE g : IsFold(g)
<1>1. /\ GameInv /\ Me \in DOMAIN bodies /\ dir \in [DOMAIN bodies -> Direction]
      /\ L \in [1 .. n -> DOMAIN bodies]
      /\ \A s \in DOMAIN bodies : \E i \in 1 .. n : L[i] = s
  BY <1>0, MoveFacts DEF ATurn
<1>2. base \in S /\ base.parts = bodies /\ base.food = food /\ base.threw = FALSE
      /\ base.you = Me /\ Fresh(base) /\ InOrder(base.enemies, DOMAIN bodies \ {Me})
      /\ InOrder(base.order, DOMAIN bodies)
  BY <1>1, JsIs DEF JsStates
<1> HIDE DEF L, base, v
<1>3. ASSUME NEW a \in S, NEW k \in 1 .. n PROVE MoveSnake(v, a, L[k], dir[L[k]]) \in S
  <2>1. dir[L[k]] \in Direction
    BY <1>1
  <2> QED BY <2>1, MoveSnakeType
<1>4. IsFold(it)
  <2>1. PICK g \in [SUBSET (1 .. n) -> S] : Folding(g, n, base, step)
    <3>1. base \in S /\ step \in [1 .. n -> [S -> S]]
      BY <1>2, <1>3
    <3> HIDE DEF S, step
    <3> QED BY <3>1, FoldExists
  <2>2. ASSUME NEW s \in SUBSET (1 .. n), s # {}
        PROVE  step[Max(s)][g[s \ {Max(s)}]]
                 = MoveSnake(v, g[s \ {Max(s)}], L[Max(s)], dir[L[Max(s)]])
    <3>1. Max(s) \in 1 .. n /\ g[s \ {Max(s)}] \in S
      BY <2>2, MaxIsIn
    <3> QED BY <3>1
  <2>3. IsFold(g)
    <3> HIDE DEF step
    <3> QED BY <2>1, <2>2 DEF Folding
  <2> HIDE DEF IsFold
  <2> QED BY <2>3
<1>5. moved = it[1 .. n]
  <2>1. DOMAIN L = 1 .. n
    BY <1>1
  <2> QED BY <2>1 DEF FoldLeft, MapThenFoldSet
<1>6. it[1 .. 0] = base
  <2>1. 1 .. 0 = {}
    OBVIOUS
  <2> QED BY <1>4, <2>1
<1>7. ASSUME NEW k \in 1 .. n
      PROVE  it[1 .. k] = MoveSnake(v, it[1 .. (k - 1)], L[k], dir[L[k]])
  <2>1. /\ 1 .. k \in SUBSET (1 .. n) /\ 1 .. k # {} /\ Max(1 .. k) = k
        /\ (1 .. k) \ {Max(1 .. k)} = 1 .. (k - 1)
    BY Segments
  <2> QED BY <1>4, <2>1
<1> HIDE DEF it, step, IsFold, moved
<1> DEFINE T == {k \in 0 .. n : MovedSoFar(dir, k, it[1 .. k]) /\ CachedSoFar(dir, k, it[1 .. k])}
<1>8. 0 \in T
  <2>1. \A i \in 1 .. n : L[i] \in DOMAIN bodies /\ i > 0 /\ ~(i <= 0)
    BY <1>1
  <2>2. 1 .. 0 = {}
    OBVIOUS
  <2>3. YouLives(base) /\ EnemiesLeft(base)
    <3>1. \A x \in DOMAIN bodies : DOMAIN base.parts # DOMAIN bodies \ {x}
      BY <1>2
    <3> QED BY <1>1, <1>2, <3>1 DEF YouLives, EnemiesLeft
  <2>4. InTheGrid(base) /\ \A c \in Cell : Under0(base.parts, c) = {} \/ base.grid[c] # Nobody
    <3>1. base.parts \in JsParts /\ InOrder(base.order, DOMAIN base.parts)
          /\ base.you \in DOMAIN base.parts \cup {Nobody}
          /\ base.grid = FilledGrid(base.order, base.parts, base.you)
      BY <1>2 DEF JsStates, Fresh
    <3> QED BY <3>1, FilledGridIs DEF InTheGrid
  <2>5. \A c \in Cell : CountAt(base.vacated, base.parts, c)
    BY <1>2, FreshCounts
  <2>6. MovedSoFar(dir, 0, base)
    BY <1>0, <1>2, <2>1, <2>2, <2>3, <2>4 DEF MovedSoFar, L
  <2>7. CachedSoFar(dir, 0, base)
    BY <2>2, <2>4, <2>5 DEF CachedSoFar
  <2> QED BY <1>6, <2>6, <2>7
<1>9. ASSUME NEW k \in 1 .. n, k - 1 \in T PROVE k \in T
  <2> DEFINE js == it[1 .. (k - 1)]
             r == it[1 .. k]
  <2>1. MovedSoFar(dir, k - 1, js) /\ CachedSoFar(dir, k - 1, js) /\ k \in 1 .. Len(MoveList)
    BY <1>0, <1>9
  <2>2. r = MoveSnake(v, js, L[k], dir[L[k]])
    BY <1>7
  <2> HIDE DEF js, r
  <2>3. MovedSoFar(dir, k, r) /\ CachedSoFar(dir, k, r)
    BY <2>1, <2>2, MoveStep, CacheStep DEF v, L
  <2> QED BY <2>3 DEF r
<1>10. n \in T
  <2> HIDE DEF T
  <2> QED BY <1>8, <1>9, BoundedInduction
<1> QED BY <1>0, <1>5, <1>10 DEF moved, base, v, L, AfterMoving

-----------------------------------------------------------------------------
(* its head-on collisions *)

\* what they leave of a state as it is after the moves
Kept(js, M) ==
    /\ js \in JsStates
    /\ DOMAIN js.parts \subseteq DOMAIN M.parts
    /\ \A s \in DOMAIN js.parts : js.parts[s] = M.parts[s]
    /\ js.food = M.food
    /\ YouLives(js) /\ EnemiesLeft(js) /\ InTheGrid(js)
AfterMoves(M) ==
    Me \in DOMAIN bodies /\ DOMAIN M.parts \subseteq DOMAIN bodies /\ Kept(M, M)

Alike(M, s, t) == M.parts[s][1] = M.parts[t][1]
Loses(M, s, t) == s # t /\ Alike(M, s, t) /\ Len(M.parts[s]) <= Len(M.parts[t])

\* A removal keeps the rest, and makes all caches anew.
LEMMA KeptRemoved ==
    ASSUME NEW M, AfterMoves(M), NEW js, Kept(js, M), NEW s \in DOMAIN js.parts
    PROVE  LET r == RemoveSnake(js, s)
           IN /\ Kept(r, M) /\ Fresh(r) /\ r.threw = js.threw
              /\ DOMAIN r.parts = DOMAIN js.parts \ {s}
<1> DEFINE r == RemoveSnake(js, s)
<1>1. /\ Me \in DOMAIN bodies /\ js \in JsStates
      /\ DOMAIN js.parts \subseteq DOMAIN bodies /\ YouLives(js) /\ EnemiesLeft(js)
  BY DEF AfterMoves, Kept
<1>2. /\ r \in JsStates /\ Fresh(r)
      /\ DOMAIN r.parts = DOMAIN js.parts \ {s}
      /\ \A t \in DOMAIN r.parts : r.parts[t] = js.parts[t]
      /\ r.food = js.food /\ r.threw = js.threw
      /\ YouLives(r) /\ EnemiesLeft(r) /\ InTheGrid(r)
  BY <1>1, RemoveSnakeKeeps
<1> HIDE DEF r
<1> QED BY <1>2 DEF Kept, r

\* Two snakes that meet head-on: nothing happens unless both are there with
\* their heads in one cell; then the shorter one is removed, or both.
MetOnce(M, js, s, o, r) ==
    LET P == DOMAIN js.parts
    IN /\ Kept(r, M)
       /\ o = s \/ o \notin P \/ ~Alike(M, s, o) => r = js
       /\ o # s /\ o \in P /\ Alike(M, s, o) =>
             /\ s \notin P => r.threw = TRUE /\ r.parts = js.parts
             /\ s \in P =>
                   /\ Fresh(r) /\ r.threw = js.threw
                   /\ DOMAIN r.parts =
                         P \ {q \in {s, o} : \E x \in {s, o} : Loses(M, q, x)}

\* The body of the inner loop is such a meeting, in whatever order they meet.
LEMMA MeetingIs ==
    ASSUME NEW M, AfterMoves(M), NEW js, Kept(js, M),
           NEW s \in DOMAIN M.parts, NEW o \in DOMAIN M.parts
    PROVE  MetOnce(M, js, s, o, MeetHeadOn(js, s, M.parts[s][1], o))
<1> DEFINE P == DOMAIN js.parts
           pos == M.parts[s][1]
           r == MeetHeadOn(js, s, pos, o)
<1>1. /\ js \in JsStates /\ P \subseteq DOMAIN M.parts
      /\ \A t \in P : js.parts[t] = M.parts[t]
      /\ M \in JsStates
  BY DEF Kept, AfterMoves
<1>9. ASSUME NEW t \in DOMAIN M.parts PROVE Len(M.parts[t]) \in Nat
  BY <1>1 DEF JsStates, JsParts, JsBody
<1>2. CASE o = s \/ o \notin P \/ ~Alike(M, s, o)
  <2>1. r = js
    BY <1>1, <1>2 DEF MeetHeadOn, Alike
  <2> HIDE DEF r
  <2> QED BY <1>2, <2>1 DEF r, MetOnce
<1>3. CASE o # s /\ o \in P /\ Alike(M, s, o) /\ s \notin P
  <2>1. r = [js EXCEPT !.threw = TRUE]
    BY <1>1, <1>3 DEF MeetHeadOn, Alike
  <2> DEFINE q == [js EXCEPT !.threw = TRUE]
  <2>2. /\ q \in JsStates /\ q.threw = TRUE
        /\ q.order = js.order /\ q.parts = js.parts /\ q.you = js.you
        /\ q.enemies = js.enemies /\ q.food = js.food /\ q.grid = js.grid
    BY <1>1, ThrowKeeps
  <2> HIDE DEF q, r
  <2>3. Kept(q, M)
    BY <2>2 DEF Kept, YouLives, EnemiesLeft, InTheGrid
  <2> QED BY <1>3, <2>1, <2>2, <2>3 DEF r, q, MetOnce
<1>4. CASE o # s /\ o \in P /\ Alike(M, s, o) /\ s \in P
  <2> DEFINE mine == Len(js.parts[s])
             theirs == Len(js.parts[o])
             survived == IF mine <= theirs THEN RemoveSnake(js, s) ELSE js
  <2>1. r = IF theirs <= mine THEN RemoveSnake(survived, o) ELSE survived
    BY <1>1, <1>4 DEF MeetHeadOn, Alike
  <2>2. mine = Len(M.parts[s]) /\ theirs = Len(M.parts[o]) /\ mine \in Nat /\ theirs \in Nat
    BY <1>1, <1>4, <1>9
  <2>3. /\ Kept(survived, M) /\ survived.threw = js.threw
        /\ mine <= theirs => Fresh(survived)
        /\ DOMAIN survived.parts = IF mine <= theirs THEN P \ {s} ELSE P
    <3>1. CASE mine <= theirs
      <4>1. survived = RemoveSnake(js, s)
        BY <3>1
      <4>2. /\ Kept(RemoveSnake(js, s), M) /\ Fresh(RemoveSnake(js, s))
            /\ RemoveSnake(js, s).threw = js.threw
            /\ DOMAIN RemoveSnake(js, s).parts = P \ {s}
        BY <1>4, KeptRemoved
      <4> HIDE DEF survived, mine, theirs
      <4> QED BY <3>1, <4>1, <4>2
    <3>2. CASE ~(mine <= theirs)
      <4>1. survived = js
        BY <3>2
      <4> HIDE DEF survived, mine, theirs
      <4> QED BY <3>2, <4>1
    <3> QED BY <3>1, <3>2
  <2> HIDE DEF survived, r, mine, theirs
  <2>4. o \in DOMAIN survived.parts
    BY <1>4, <2>3
  <2>5. /\ Kept(r, M) /\ r.threw = js.threw /\ Fresh(r)
        /\ DOMAIN r.parts = DOMAIN survived.parts \ (IF theirs <= mine THEN {o} ELSE {})
    <3>1. CASE theirs <= mine
      <4>1. /\ Kept(RemoveSnake(survived, o), M) /\ Fresh(RemoveSnake(survived, o))
            /\ RemoveSnake(survived, o).threw = survived.threw
            /\ DOMAIN RemoveSnake(survived, o).parts = DOMAIN survived.parts \ {o}
        BY <2>3, <2>4, KeptRemoved
      <4>2. r = RemoveSnake(survived, o)
        BY <2>1, <3>1
      <4> QED BY <2>3, <3>1, <4>1, <4>2
    <3>2. CASE ~(theirs <= mine)
      <4>1. r = survived /\ mine <= theirs
        BY <2>1, <2>2, <3>2
      <4> QED BY <2>3, <3>2, <4>1
    <3> QED BY <3>1, <3>2
  <2>6. /\ (\E x \in {s, o} : Loses(M, s, x)) <=> mine <= theirs
        /\ (\E x \in {s, o} : Loses(M, o, x)) <=> theirs <= mine
    BY <1>4, <2>2 DEF Loses, Alike
  <2>7. DOMAIN r.parts = P \ {q \in {s, o} : \E x \in {s, o} : Loses(M, q, x)}
    BY <1>4, <2>3, <2>5, <2>6
  <2> QED BY <1>4, <2>5, <2>7 DEF r, MetOnce
<1> QED BY <1>2, <1>3, <1>4

InPairs(M) ==
    \A q, s, t \in DOMAIN M.parts :
       Alike(M, q, s) /\ Alike(M, q, t) /\ q # s /\ q # t => s = t

\* The inner loop after the snakes that it has met: unless it has thrown, or
\* the caches are new, nothing has happened; and if no three heads are in one
\* cell it removes from the two that are there the one that loses, or both.
Meeting(M, start, s, met, js) ==
    /\ Kept(js, M)
    /\ DOMAIN js.parts \subseteq DOMAIN start.parts
    /\ \/ js.threw = TRUE
       \/ Fresh(js)
       \/ js = start /\ \A t \in met : t = s \/ ~Alike(M, s, t)
    /\ InPairs(M) =>
          /\ js.threw = start.threw
          /\ \A q \in DOMAIN start.parts :
                q \in DOMAIN js.parts <=>
                   ~ \E x \in met : \/ q = s /\ Loses(M, s, x)
                                    \/ q = x /\ Loses(M, x, s)

\* One snake more that the inner loop meets.
LEMMA MeetingGoesOn ==
    ASSUME NEW M, AfterMoves(M), NEW start, Kept(start, M),
           NEW s \in DOMAIN start.parts, NEW met \in SUBSET DOMAIN start.parts,
           NEW js, Meeting(M, start, s, met, js),
           NEW o \in DOMAIN start.parts, o \notin met
    PROVE  Meeting(M, start, s, met \cup {o}, MeetHeadOn(js, s, start.parts[s][1], o))
<1> DEFINE P == DOMAIN js.parts
           r == MeetHeadOn(js, s, M.parts[s][1], o)
           lost(q, x) == \/ q = s /\ Loses(M, s, x)
                         \/ q = x /\ Loses(M, x, s)
<1>1. /\ Kept(js, M) /\ P \subseteq DOMAIN start.parts
      /\ \/ js.threw = TRUE
         \/ Fresh(js)
         \/ js = start /\ \A t \in met : t = s \/ ~Alike(M, s, t)
      /\ InPairs(M) => /\ js.threw = start.threw
                       /\ \A q \in DOMAIN start.parts :
                             q \in P <=> ~ \E x \in met : lost(q, x)
  BY DEF Meeting
<1>2. /\ s \in DOMAIN M.parts /\ o \in DOMAIN M.parts /\ start.parts[s] = M.parts[s]
      /\ DOMAIN start.parts \subseteq DOMAIN M.parts
  BY DEF Kept
<1>3. /\ Kept(r, M)
      /\ o = s \/ o \notin P \/ ~Alike(M, s, o) => r = js
      /\ o # s /\ o \in P /\ Alike(M, s, o) =>
            /\ s \notin P => r.threw = TRUE /\ r.parts = js.parts
            /\ s \in P =>
                  /\ Fresh(r) /\ r.threw = js.threw
                  /\ DOMAIN r.parts = P \ {q \in {s, o} : \E x \in {s, o} : Loses(M, q, x)}
  <2>1. MetOnce(M, js, s, o, r)
    BY <1>1, <1>2, MeetingIs
  <2> HIDE DEF r
  <2> QED BY <2>1 DEF MetOnce
<1> HIDE DEF r
<1>4. Alike(M, s, o) <=> Alike(M, o, s)
  BY DEF Alike
<1>5. ~Loses(M, s, s)
  BY DEF Loses
<1>6. CASE o = s \/ o \notin P \/ ~Alike(M, s, o)
  <2>1. r = js
    BY <1>3, <1>6
  <2>2. \/ r.threw = TRUE
        \/ Fresh(r)
        \/ r = start /\ \A t \in met \cup {o} : t = s \/ ~Alike(M, s, t)
    BY <1>1, <1>6, <2>1
  <2>3. ASSUME InPairs(M), NEW q \in DOMAIN start.parts
        PROVE  q \in P <=> ~ \E x \in met \cup {o} : lost(q, x)
    <3>1. q \in P <=> ~ \E x \in met : lost(q, x)
      BY <1>1, <2>3
    <3>2. o # s => o \in P
      BY <1>1, <2>3
    <3>3. ~lost(q, o)
      BY <1>4, <1>5, <1>6, <3>2 DEF Loses
    <3> QED BY <3>1, <3>3
  <2>4. Meeting(M, start, s, met \cup {o}, r)
    BY <1>1, <2>1, <2>2, <2>3 DEF Meeting
  <2> QED BY <1>2, <2>4 DEF r
<1>7. CASE o # s /\ o \in P /\ Alike(M, s, o) /\ s \notin P
  <2>1. r.threw = TRUE
    BY <1>3, <1>7
  <2>2. ~InPairs(M)
    <3> SUFFICES ASSUME InPairs(M) PROVE FALSE
      OBVIOUS
    <3>1. PICK x \in met : lost(s, x)
      BY <1>1, <1>7
    <3>2. x # s /\ Alike(M, s, x) /\ x \in DOMAIN M.parts
      BY <1>2, <1>5, <3>1 DEF Loses
    <3>3. x = o
      BY <1>2, <1>7, <3>2 DEF InPairs
    <3> QED BY <3>3
  <2>3. DOMAIN r.parts \subseteq DOMAIN start.parts
    BY <1>1, <1>3, <1>7
  <2>4. Meeting(M, start, s, met \cup {o}, r)
    BY <1>3, <2>1, <2>2, <2>3 DEF Meeting
  <2> QED BY <1>2, <2>4 DEF r
<1>8. CASE o # s /\ o \in P /\ Alike(M, s, o) /\ s \in P
  <2>1. /\ Fresh(r) /\ r.threw = js.threw
        /\ DOMAIN r.parts = P \ {q \in {s, o} : \E x \in {s, o} : Loses(M, q, x)}
    BY <1>3, <1>8
  <2>2. ASSUME InPairs(M), NEW q \in DOMAIN start.parts
        PROVE  q \in DOMAIN r.parts <=> ~ \E x \in met \cup {o} : lost(q, x)
    <3>1. q \in P <=> ~ \E x \in met : lost(q, x)
      BY <1>1, <2>2
    <3>2. (q \in {s, o} /\ \E x \in {s, o} : Loses(M, q, x)) <=> lost(q, o)
      BY <1>8 DEF Loses
    <3> QED BY <2>1, <3>1, <3>2
  <2>3. DOMAIN r.parts \subseteq DOMAIN start.parts
    BY <1>1, <2>1
  <2>4. Meeting(M, start, s, met \cup {o}, r)
    BY <1>1, <1>3, <2>1, <2>2, <2>3 DEF Meeting
  <2> QED BY <1>2, <2>4 DEF r
<1> QED BY <1>6, <1>7, <1>8

\* The inner loop meets each of the snakes that were there before it.
LEMMA MeetingOutcome ==
    ASSUME NEW M, AfterMoves(M), NEW start, Kept(start, M), NEW s \in DOMAIN start.parts
    PROVE  LET met == FoldLeft(LAMBDA inner, other :
                                  MeetHeadOn(inner, s, start.parts[s][1], other),
                               start, start.order)
           IN Meeting(M, start, s, DOMAIN start.parts, met)
<1>0. PICK n \in Nat : n = Len(start.order)
  BY InOrderFacts DEF Kept, JsStates
<1> DEFINE L == start.order
           D == DOMAIN start.parts
           S == {js \in JsStates : Kept(js, M)}
           pos == start.parts[s][1]
           base == start
           met == FoldLeft(LAMBDA inner, other : MeetHeadOn(inner, s, pos, other), base, L)
           step == [k \in 1 .. n |-> [a \in S |-> MeetHeadOn(a, s, pos, L[k])]]
           IsFold(g) == g = [t \in SUBSET (1 .. n) |-> IF t = {} THEN base
                    ELSE MeetHeadOn(g[t \ {Max(t)}], s, pos, L[Max(t)])]
           it == CHOOSE g : IsFold(g)
<1>1. /\ start \in JsStates /\ InOrder(L, D) /\ D \subseteq DOMAIN M.parts
      /\ pos = M.parts[s][1]
  BY DEF Kept, JsStates
<1>2. /\ L \in [1 .. n -> D]
      /\ \A i, j \in 1 .. n : L[i] = L[j] => i = j
      /\ \A t \in D : \E i \in 1 .. n : L[i] = t
  <2>1. n = Len(L)
    BY <1>0
  <2> HIDE DEF L, D
  <2> QED BY <1>1, <2>1, InOrderFacts
<1> HIDE DEF L, base, pos, D
<1>b. base \in S
  BY <1>1 DEF base
<1>s. s \in D
  BY DEF D
<1>3. ASSUME NEW a \in S, NEW k \in 1 .. n PROVE MeetHeadOn(a, s, pos, L[k]) \in S
  <2>1. L[k] \in DOMAIN M.parts /\ s \in DOMAIN M.parts
    BY <1>1, <1>2, <1>s
  <2>2. MetOnce(M, a, s, L[k], MeetHeadOn(a, s, M.parts[s][1], L[k]))
    BY <2>1, MeetingIs
  <2>3. Kept(MeetHeadOn(a, s, pos, L[k]), M)
    BY <1>1, <2>2 DEF MetOnce
  <2> QED BY <2>3 DEF Kept
<1>4. IsFold(it)
  <2>1. PICK g \in [SUBSET (1 .. n) -> S] : Folding(g, n, base, step)
    <3>1. step \in [1 .. n -> [S -> S]]
      BY <1>3
    <3> HIDE DEF S, step
    <3> QED BY <1>b, <3>1, FoldExists
  <2>2. ASSUME NEW t \in SUBSET (1 .. n), t # {}
        PROVE  step[Max(t)][g[t \ {Max(t)}]]
                 = MeetHeadOn(g[t \ {Max(t)}], s, pos, L[Max(t)])
    <3>1. Max(t) \in 1 .. n /\ g[t \ {Max(t)}] \in S
      BY <2>2, MaxIsIn
    <3> HIDE DEF S
    <3> QED BY <3>1
  <2>3. IsFold(g)
    <3> HIDE DEF step
    <3> QED BY <2>1, <2>2 DEF Folding
  <2> HIDE DEF IsFold
  <2> QED BY <2>3
<1>5. met = it[1 .. n]
  <2>1. DOMAIN L = 1 .. n
    BY <1>2
  <2> QED BY <2>1 DEF FoldLeft, MapThenFoldSet
<1>6. it[1 .. 0] = base
  <2>1. 1 .. 0 = {}
    OBVIOUS
  <2> QED BY <1>4, <2>1
<1>7. ASSUME NEW k \in 1 .. n
      PROVE  it[1 .. k] = MeetHeadOn(it[1 .. (k - 1)], s, pos, L[k])
  <2>1. /\ 1 .. k \in SUBSET (1 .. n) /\ 1 .. k # {} /\ Max(1 .. k) = k
        /\ (1 .. k) \ {Max(1 .. k)} = 1 .. (k - 1)
    BY Segments
  <2> QED BY <1>4, <2>1
<1> HIDE DEF it, step, IsFold, met, S
<1> DEFINE T == {k \in 0 .. n : Meeting(M, base, s, Met(L, k), it[1 .. k])}
<1>m. /\ Met(L, 0) = {}
      /\ \A k \in 1 .. n : /\ Met(L, k) = Met(L, k - 1) \cup {L[k]}
                           /\ Met(L, k - 1) \subseteq D
                           /\ L[k] \in D /\ L[k] \notin Met(L, k - 1)
  BY <1>2, MetGrows
<1>8. 0 \in T
  <2>1. Meeting(M, base, s, {}, base)
    BY DEF Meeting, base
  <2> QED BY <1>6, <1>m, <2>1
<1>9. ASSUME NEW k \in 1 .. n, k - 1 \in T PROVE k \in T
  <2> DEFINE js == it[1 .. (k - 1)]
             r == it[1 .. k]
  <2>1. Meeting(M, base, s, Met(L, k - 1), js)
    BY <1>9
  <2>2. r = MeetHeadOn(js, s, pos, L[k])
    BY <1>7
  <2> HIDE DEF js, r
  <2>3. Met(L, k - 1) \in SUBSET DOMAIN start.parts /\ L[k] \in DOMAIN start.parts
        /\ L[k] \notin Met(L, k - 1)
    BY <1>m DEF D
  <2>4. Meeting(M, start, s, Met(L, k - 1), js)
    BY <2>1 DEF base
  <2>5. Meeting(M, start, s, Met(L, k - 1) \cup {L[k]}, MeetHeadOn(js, s, start.parts[s][1], L[k]))
    BY <2>3, <2>4, MeetingGoesOn
  <2>6. Meeting(M, base, s, Met(L, k), r)
    BY <1>m, <2>2, <2>5 DEF pos, base
  <2> QED BY <2>6 DEF r
<1>10. n \in T
  <2> HIDE DEF T
  <2> QED BY <1>8, <1>9, BoundedInduction
<1>11. Met(L, n) = D
  BY <1>2 DEF Met
<1> QED BY <1>5, <1>10, <1>11 DEF met, base, pos, L, D

\* The outer loop after the snakes that it has met.
Settling(M, met, js) ==
    /\ Kept(js, M)
    /\ \/ js.threw = TRUE
       \/ Fresh(js)
       \/ js = M /\ \A s \in met : \A t \in DOMAIN M.parts : t = s \/ ~Alike(M, s, t)
    /\ InPairs(M) =>
          /\ js.threw = M.threw
          /\ \A q \in DOMAIN M.parts :
                q \in DOMAIN js.parts <=>
                   ~ \E x \in DOMAIN M.parts : Loses(M, q, x) /\ (q \in met \/ x \in met)

\* one round of the outer loop
MeetAll(js, s) ==
    IF s \notin DOMAIN js.parts THEN js
    ELSE FoldLeft(LAMBDA inner, other : MeetHeadOn(inner, s, js.parts[s][1], other),
                  js, js.order)

\* One snake more whose meetings the outer loop has settled.
LEMMA SettlingGoesOn ==
    ASSUME NEW M, AfterMoves(M), NEW met \in SUBSET DOMAIN M.parts,
           NEW js, Settling(M, met, js), NEW s \in DOMAIN M.parts, s \notin met
    PROVE  Settling(M, met \cup {s}, MeetAll(js, s))
<1> DEFINE D == DOMAIN M.parts
           P == DOMAIN js.parts
           r == MeetAll(js, s)
           lost(q, seen) == \E x \in D : Loses(M, q, x) /\ (q \in seen \/ x \in seen)
<1>1. /\ Kept(js, M) /\ P \subseteq D
      /\ \/ js.threw = TRUE
         \/ Fresh(js)
         \/ js = M /\ \A t \in met : \A u \in D : u = t \/ ~Alike(M, t, u)
  BY DEF Settling, Kept
<1>2. InPairs(M) => js.threw = M.threw /\ \A q \in D : q \in P <=> ~lost(q, met)
  BY DEF Settling
<1>3. ASSUME InPairs(M), NEW p \in D, NEW q \in D, NEW x \in D,
             Loses(M, p, q), Loses(M, q, x) \/ Loses(M, x, q)
      PROVE  p = x
  <2>1. Alike(M, q, p) /\ Alike(M, q, x) /\ q # p /\ q # x
    BY <1>3 DEF Loses, Alike
  <2> QED BY <1>3, <2>1 DEF InPairs
<1>4. CASE s \notin P
  <2>1. r = js
    BY <1>4 DEF MeetAll
  <2>2. js # M
    BY <1>4
  <2>3. ASSUME InPairs(M), NEW q \in D PROVE lost(q, met \cup {s}) => lost(q, met)
    <3>1. PICK x \in D : Loses(M, s, x) /\ x \in met
      BY <1>2, <1>4, <2>3
    <3> SUFFICES ASSUME NEW y \in D, Loses(M, q, y), q = s \/ y = s
                 PROVE  lost(q, met)
      OBVIOUS
    <3>2. CASE q = s
      BY <3>1, <3>2
    <3>3. CASE y = s
      <4>1. q = x
        BY <1>3, <2>3, <3>1, <3>3
      <4> QED BY <3>1, <4>1
    <3> QED BY <3>2, <3>3
  <2>4. ASSUME InPairs(M), NEW q \in D PROVE q \in P <=> ~lost(q, met \cup {s})
    BY <1>2, <2>3, <2>4
  <2> HIDE DEF r
  <2>5. Settling(M, met \cup {s}, js)
    BY <1>1, <1>2, <2>2, <2>4 DEF Settling
  <2> QED BY <2>1, <2>5 DEF r
<1>5. CASE s \in P
  <2>1. Meeting(M, js, s, P, r)
    <3>1. r = FoldLeft(LAMBDA inner, other : MeetHeadOn(inner, s, js.parts[s][1], other),
                       js, js.order)
      BY <1>5 DEF MeetAll
    <3> HIDE DEF r
    <3> QED BY <1>1, <1>5, <3>1, MeetingOutcome
  <2> HIDE DEF r
  <2>2. /\ Kept(r, M) /\ DOMAIN r.parts \subseteq P
        /\ \/ r.threw = TRUE
           \/ Fresh(r)
           \/ r = js /\ \A t \in P : t = s \/ ~Alike(M, s, t)
    BY <2>1 DEF Meeting
  <2>3. \/ r.threw = TRUE
        \/ Fresh(r)
        \/ r = M /\ \A t \in met \cup {s} : \A u \in D : u = t \/ ~Alike(M, t, u)
    BY <1>1, <2>2
  <2>4. ASSUME InPairs(M)
        PROVE  /\ r.threw = js.threw
               /\ \A q \in P : q \in DOMAIN r.parts <=>
                     ~ \E x \in P : \/ q = s /\ Loses(M, s, x)
                                    \/ q = x /\ Loses(M, x, s)
    BY <2>1, <2>4 DEF Meeting
  <2>5. ASSUME InPairs(M), NEW q \in D, q \in DOMAIN r.parts
        PROVE  ~lost(q, met \cup {s})
    <3> SUFFICES ASSUME NEW y \in D, Loses(M, q, y), q \in met \cup {s} \/ y \in met \cup {s}
                 PROVE  FALSE
      OBVIOUS
    <3>1. q \in P /\ ~lost(q, met)
      BY <1>2, <2>2, <2>5
    <3>2. CASE q = s
      <4>1. y \in P
        <5> SUFFICES ASSUME y \notin P PROVE FALSE
          OBVIOUS
        <5>1. PICK x \in D : Loses(M, y, x) /\ (y \in met \/ x \in met)
          BY <1>2, <2>5
        <5>2. x = q
          BY <1>3, <2>5, <5>1
        <5>3. y \in met
          BY <3>2, <5>1, <5>2
        <5> QED BY <3>1, <5>3
      <4> QED BY <2>4, <2>5, <3>1, <3>2, <4>1
    <3>3. CASE q # s /\ y = s
      BY <2>4, <2>5, <3>1, <3>3
    <3> QED BY <3>1, <3>2, <3>3
  <2>6. ASSUME InPairs(M), NEW q \in D, ~lost(q, met \cup {s})
        PROVE  q \in DOMAIN r.parts
    <3>1. q \in P
      BY <1>2, <2>6
    <3> SUFFICES ASSUME NEW x \in P, \/ q = s /\ Loses(M, s, x)
                                     \/ q = x /\ Loses(M, x, s)
                 PROVE  FALSE
      BY <2>4, <2>6, <3>1
    <3> QED BY <1>1, <2>6
  <2>7. Settling(M, met \cup {s}, r)
    BY <1>2, <2>2, <2>3, <2>4, <2>5, <2>6 DEF Settling
  <2> QED BY <2>7 DEF r
<1> QED BY <1>4, <1>5

\* The outer loop settles the meetings of all the snakes.
LEMMA CollisionsOutcome ==
    ASSUME NEW M, AfterMoves(M)
    PROVE  Settling(M, DOMAIN M.parts, HeadOnCollisions(M))
<1>0. PICK n \in Nat : n = Len(M.order)
  BY InOrderFacts DEF AfterMoves, Kept, JsStates
<1> DEFINE L == M.order
           D == DOMAIN M.parts
           S == {js \in JsStates : Kept(js, M)}
           base == M
           settled == FoldLeft(LAMBDA outer, s : MeetAll(outer, s), base, L)
           step == [k \in 1 .. n |-> [a \in S |-> MeetAll(a, L[k])]]
           IsFold(g) == g = [t \in SUBSET (1 .. n) |-> IF t = {} THEN base
                    ELSE MeetAll(g[t \ {Max(t)}], L[Max(t)])]
           it == CHOOSE g : IsFold(g)
<1>1. M \in JsStates /\ InOrder(L, D)
  BY DEF AfterMoves, Kept, JsStates
<1>2. /\ L \in [1 .. n -> D]
      /\ \A i, j \in 1 .. n : L[i] = L[j] => i = j
      /\ \A t \in D : \E i \in 1 .. n : L[i] = t
  <2>1. n = Len(L)
    BY <1>0
  <2> HIDE DEF L, D
  <2> QED BY <1>1, <2>1, InOrderFacts
<1>u. HeadOnCollisions(M) = settled
  BY DEF HeadOnCollisions, MeetAll
<1>b. base \in S
  BY <1>1 DEF AfterMoves
<1> HIDE DEF L, base, D
<1>3. ASSUME NEW a \in S, NEW k \in 1 .. n PROVE MeetAll(a, L[k]) \in S
  <2>1. CASE L[k] \notin DOMAIN a.parts
    BY <2>1 DEF MeetAll
  <2>2. CASE L[k] \in DOMAIN a.parts
    <3> DEFINE r == MeetAll(a, L[k])
    <3>1. r = FoldLeft(LAMBDA inner, other : MeetHeadOn(inner, L[k], a.parts[L[k]][1], other),
                       a, a.order)
      BY <2>2 DEF MeetAll
    <3> HIDE DEF r
    <3>2. Meeting(M, a, L[k], DOMAIN a.parts, r)
      BY <2>2, <3>1, MeetingOutcome
    <3>3. r \in S
      BY <3>2 DEF Meeting, Kept
    <3> QED BY <3>3 DEF r
  <2> QED BY <2>1, <2>2
<1>4. IsFold(it)
  <2>1. PICK g \in [SUBSET (1 .. n) -> S] : Folding(g, n, base, step)
    <3>1. step \in [1 .. n -> [S -> S]]
      BY <1>3
    <3> HIDE DEF S, step
    <3> QED BY <1>b, <3>1, FoldExists
  <2>2. ASSUME NEW t \in SUBSET (1 .. n), t # {}
        PROVE  step[Max(t)][g[t \ {Max(t)}]] = MeetAll(g[t \ {Max(t)}], L[Max(t)])
    <3>1. Max(t) \in 1 .. n /\ g[t \ {Max(t)}] \in S
      BY <2>2, MaxIsIn
    <3> HIDE DEF S
    <3> QED BY <3>1
  <2>3. IsFold(g)
    <3> HIDE DEF step
    <3> QED BY <2>1, <2>2 DEF Folding
  <2> HIDE DEF IsFold
  <2> QED BY <2>3
<1>5. settled = it[1 .. n]
  <2>1. DOMAIN L = 1 .. n
    BY <1>2
  <2> QED BY <2>1 DEF FoldLeft, MapThenFoldSet
<1>6. it[1 .. 0] = base
  <2>1. 1 .. 0 = {}
    OBVIOUS
  <2> QED BY <1>4, <2>1
<1>7. ASSUME NEW k \in 1 .. n
      PROVE  it[1 .. k] = MeetAll(it[1 .. (k - 1)], L[k])
  <2>1. /\ 1 .. k \in SUBSET (1 .. n) /\ 1 .. k # {} /\ Max(1 .. k) = k
        /\ (1 .. k) \ {Max(1 .. k)} = 1 .. (k - 1)
    BY Segments
  <2> QED BY <1>4, <2>1
<1> HIDE DEF it, step, IsFold, settled, S
<1> DEFINE T == {k \in 0 .. n : Settling(M, Met(L, k), it[1 .. k])}
<1>m. /\ Met(L, 0) = {}
      /\ \A k \in 1 .. n : /\ Met(L, k) = Met(L, k - 1) \cup {L[k]}
                           /\ Met(L, k - 1) \subseteq D
                           /\ L[k] \in D /\ L[k] \notin Met(L, k - 1)
  BY <1>2, MetGrows
<1>8. 0 \in T
  <2>1. Settling(M, {}, base)
    BY DEF Settling, base, AfterMoves
  <2> QED BY <1>6, <1>m, <2>1
<1>9. ASSUME NEW k \in 1 .. n, k - 1 \in T PROVE k \in T
  <2> DEFINE js == it[1 .. (k - 1)]
             r == it[1 .. k]
  <2>1. Settling(M, Met(L, k - 1), js)
    BY <1>9
  <2>2. r = MeetAll(js, L[k])
    BY <1>7
  <2> HIDE DEF js, r
  <2>3. Met(L, k - 1) \in SUBSET DOMAIN M.parts /\ L[k] \in DOMAIN M.parts
        /\ L[k] \notin Met(L, k - 1)
    BY <1>m DEF D
  <2>5. Settling(M, Met(L, k - 1) \cup {L[k]}, MeetAll(js, L[k]))
    BY <2>1, <2>3, SettlingGoesOn
  <2>6. Settling(M, Met(L, k), r)
    BY <1>m, <2>2, <2>5
  <2> QED BY <2>6 DEF r
<1>10. n \in T
  <2> HIDE DEF T
  <2> QED BY <1>8, <1>9, BoundedInduction
<1>11. Met(L, n) = D
  BY <1>2 DEF Met
<1> QED BY <1>u, <1>5, <1>10, <1>11 DEF D

-----------------------------------------------------------------------------
(* the whole turn of the JavaScript game state *)

\* What the collisions settle is what the turn returns, less the food under a
\* snake.
Returned(H, r) ==
    /\ r.order = H.order /\ r.parts = H.parts /\ r.you = H.you
    /\ r.enemies = H.enemies /\ r.grid = H.grid /\ r.vacated = H.vacated
    /\ r.threw = H.threw /\ r.food = {f \in H.food : H.grid[f] = Nobody}

\* ... which is what the last statement of newStateAfterMoves does.
LEMMA ReturnedIs ==
    ASSUME NEW H \in JsStates
    PROVE  Returned(H, [H EXCEPT !.food = {f \in @ : H.grid[f] = Nobody}])
<1> DEFINE F == {f \in H.food : H.grid[f] = Nobody}
<1> HIDE DEF F
<1>1. LET r == [H EXCEPT !.food = F]
      IN /\ r.order = H.order /\ r.parts = H.parts /\ r.you = H.you
         /\ r.enemies = H.enemies /\ r.grid = H.grid /\ r.vacated = H.vacated
         /\ r.threw = H.threw /\ r.food = F
  BY DEF JsStates
<1> QED BY <1>1 DEF Returned, F

\* M is the state after the moves and H the one after the collisions.
Played(dir, M, H) ==
    /\ MovedSoFar(dir, Len(MoveList), M) /\ CachedSoFar(dir, Len(MoveList), M)
    /\ AfterMoves(M) /\ Settling(M, DOMAIN M.parts, H)
    /\ Returned(H, NewStateAfterMoves(Js, dir))

\* A turn goes through the moves and the collisions.
LEMMA TurnIsPlayed ==
    ASSUME NEW dir, ATurn(dir)
    PROVE  \E M : \E H : Played(dir, M, H)
<1> DEFINE M == AfterMoving(dir)
           H == HeadOnCollisions(M)
           r == NewStateAfterMoves(Js, dir)
<1>1. GameInv /\ Me \in DOMAIN bodies
  BY DEF ATurn
<1>2. r = [H EXCEPT !.food = {f \in @ : H.grid[f] = Nobody}]
  <2>1. NewGameState(Js.order, Js.parts, Js.you, Js.food) = Js /\ Js.you = Me
    BY <1>1, JsIs
  <2>2. <<Js.you>> \o Js.enemies = MoveList
    BY <2>1 DEF MoveList
  <2> QED BY <2>1, <2>2 DEF NewStateAfterMoves, AfterMoving
<1>3. MovedSoFar(dir, Len(MoveList), M) /\ CachedSoFar(dir, Len(MoveList), M)
  BY MovesOutcome
<1> HIDE DEF M, H, r
<1>4. AfterMoves(M)
  BY <1>1, <1>3 DEF AfterMoves, Kept, MovedSoFar
<1>5. Settling(M, DOMAIN M.parts, H)
  BY <1>4, CollisionsOutcome DEF H
<1>6. Returned(H, r)
  <2>1. H \in JsStates
    BY <1>5 DEF Settling, Kept
  <2> QED BY <1>2, <2>1, ReturnedIs
<1>7. Played(dir, M, H)
  BY <1>3, <1>4, <1>5, <1>6 DEF Played, r
<1> QED BY <1>7

\* After the moves, snake by snake: one that is at food has eaten unless it has
\* met another there.
HasMoved(dir, M, s) ==
    \E ate \in BOOLEAN :
       /\ M.parts[s] = Grown(bodies[s], Goes(dir, s), ate)
       /\ ate => Goes(dir, s) \in food
       /\ \/ ate \/ Goes(dir, s) \notin food
          \/ \E t \in DOMAIN M.parts \ {s} : Goes(dir, t) = Goes(dir, s)

\* ... and the food that is left is where no head is.
LEMMA MovesAre ==
    ASSUME NEW dir, ATurn(dir), NEW M, MovedSoFar(dir, Len(MoveList), M)
    PROVE  /\ M \in JsStates /\ M.threw = FALSE
           /\ DOMAIN M.parts = {s \in DOMAIN bodies : Free(dir, s)}
           /\ \A s \in DOMAIN M.parts : HasMoved(dir, M, s)
           /\ \A f : f \in M.food <=>
                 f \in food /\ \A s \in DOMAIN M.parts : f # Goes(dir, s)
<1>1. PICK n \in Nat : n = Len(MoveList)
  BY MoveFacts
<1> DEFINE L == MoveList
           D == DOMAIN bodies
           P == DOMAIN M.parts
<1>2. /\ L \in [1 .. n -> D]
      /\ \A i, j \in 1 .. n : L[i] = L[j] => i = j
      /\ \A s \in D : \E i \in 1 .. n : L[i] = s
  BY <1>1, MoveFacts
<1>3. /\ M \in JsStates /\ M.threw = FALSE /\ P \subseteq D
      /\ \A i \in 1 .. n :
            /\ L[i] \in P <=> Free(dir, L[i])
            /\ Free(dir, L[i]) => M.parts[L[i]] = After(dir, i)
      /\ \A f : f \in M.food <=>
                   f \in food /\ \A i \in 1 .. n : Free(dir, L[i]) => f # Goes(dir, L[i])
  <2>1. \A i \in 1 .. n : i <= n
    OBVIOUS
  <2> QED BY <1>1, <2>1 DEF MovedSoFar
<1> HIDE DEF L, D, P
<1>4. \A s \in D : s \in P <=> Free(dir, s)
  BY <1>2, <1>3
<1>5. ASSUME NEW s \in P
      PROVE  \E ate \in BOOLEAN :
                 /\ M.parts[s] = Grown(bodies[s], Goes(dir, s), ate)
                 /\ ate => Goes(dir, s) \in food
                 /\ \/ ate \/ Goes(dir, s) \notin food
                    \/ \E t \in P \ {s} : Goes(dir, t) = Goes(dir, s)
  <2>1. PICK i \in 1 .. n : L[i] = s
    BY <1>2, <1>3
  <2>2. M.parts[s] = Grown(bodies[s], Goes(dir, s), AteAt(dir, i))
    BY <1>3, <1>4, <2>1 DEF After, L
  <2>3. AteAt(dir, i) \in BOOLEAN /\ (AteAt(dir, i) => Goes(dir, s) \in food)
    BY <2>1 DEF AteAt, L
  <2>4. ASSUME ~AteAt(dir, i), Goes(dir, s) \in food
        PROVE  \E t \in P \ {s} : Goes(dir, t) = Goes(dir, s)
    <3>1. PICK j \in 1 .. i - 1 : Free(dir, L[j]) /\ Goes(dir, L[j]) = Goes(dir, s)
      BY <2>1, <2>4 DEF AteAt, L
    <3>2. j \in 1 .. n /\ j # i
      OBVIOUS
    <3>3. L[j] \in P \ {s}
      BY <1>2, <1>3, <2>1, <3>1, <3>2
    <3> QED BY <3>1, <3>3
  <2> QED BY <2>2, <2>3, <2>4
<1>7. ASSUME NEW s \in P PROVE HasMoved(dir, M, s)
  BY <1>5 DEF HasMoved, P
<1>6. ASSUME NEW f
      PROVE  f \in M.food <=> f \in food /\ \A s \in P : f # Goes(dir, s)
  BY <1>2, <1>3, <1>4
<1> QED BY <1>3, <1>4, <1>6, <1>7 DEF P, D

-----------------------------------------------------------------------------
\* Sets with two or three elements at least.
LEMMA TwoOrThree ==
    ASSUME NEW S, IsFiniteSet(S)
    PROVE  /\ Cardinality(S) \in Nat
           /\ \A x, y \in S : x # y => Cardinality(S) >= 2
           /\ \A x, y, z \in S : x # y /\ x # z /\ y # z => Cardinality(S) >= 3
<1>1. Cardinality(S) \in Nat
  BY FS_CardinalityType
<1>2. ASSUME NEW x \in S, NEW y \in S, x # y
      PROVE  /\ Cardinality(S) >= 2
             /\ \A z \in S : z # x /\ z # y => Cardinality(S) >= 3
  <2> DEFINE A == S \ {x}
             B == A \ {y}
  <2>1. IsFiniteSet(A) /\ Cardinality(A) = Cardinality(S) - 1
    BY FS_RemoveElement
  <2>2. y \in A
    BY <1>2
  <2> HIDE DEF A
  <2>3. IsFiniteSet(B) /\ Cardinality(B) = Cardinality(A) - 1
    BY <2>1, <2>2, FS_RemoveElement
  <2> HIDE DEF B
  <2>4. Cardinality(B) \in Nat
    BY <2>3, FS_CardinalityType
  <2>5. ASSUME NEW z \in S, z # x, z # y PROVE Cardinality(B) # 0
    <3>1. z \in B
      BY <2>5 DEF A, B
    <3> QED BY <2>3, <3>1, FS_EmptySet
  <2> QED BY <1>1, <2>1, <2>3, <2>4, <2>5
<1> QED BY <1>1, <1>2

\* A list of the elements of a set is as long as the set is large.
LEMMA ListLength ==
    ASSUME NEW D, NEW seq, InOrder(seq, D)
    PROVE  IsFiniteSet(D) /\ Cardinality(D) = Len(seq) /\ Len(seq) \in Nat
<1>1. PICK n \in Nat : n = Len(seq)
  BY InOrderFacts
<1>2. /\ seq \in [1 .. n -> D]
      /\ \A i, j \in 1 .. n : seq[i] = seq[j] => i = j
      /\ \A s \in D : \E i \in 1 .. n : seq[i] = s
  BY <1>1, InOrderFacts
<1>3. IsFiniteSet(1 .. n) /\ Cardinality(1 .. n) = n
  BY FS_Interval
<1>4. seq \in Surjection(1 .. n, D) /\ seq \in Injection(1 .. n, D)
  BY <1>2 DEF Surjection, Injection, IsInjective
<1> QED BY <1>1, <1>3, <1>4, FS_Surjection

\* With at most one snake missing the enemies are those that are left.
LEMMA EnemiesAre ==
    ASSUME NEW H \in JsStates, Me \in DOMAIN bodies,
           DOMAIN H.parts \subseteq DOMAIN bodies,
           YouLives(H), EnemiesLeft(H), H.you = Me,
           InOrder(order, DOMAIN bodies), Len(H.order) >= Len(order) - 1
    PROVE  Range(H.enemies) = Range(H.order) \ {Me}
<1> DEFINE D == DOMAIN bodies
           P == DOMAIN H.parts
<1>1. Me \in P
  BY NobodyAssumption, GameAssumption DEF YouLives
<1>2. InOrder(H.order, P)
  BY DEF JsStates
<1>3. Range(H.order) = P
  <2>1. PICK n \in Nat : n = Len(H.order)
    BY <1>2, InOrderFacts
  <2>2. /\ H.order \in [1 .. n -> P]
        /\ \A s \in P : \E i \in 1 .. n : H.order[i] = s
    <3> HIDE DEF P
    <3> QED BY <1>2, <2>1, InOrderFacts
  <2> QED BY <2>2 DEF Range
<1>4. CASE P = D
  <2>1. InOrder(H.enemies, D \ {Me})
    BY <1>4 DEF EnemiesLeft
  <2>2. PICK n \in Nat : n = Len(H.enemies)
    BY <2>1, InOrderFacts
  <2>3. /\ H.enemies \in [1 .. n -> D \ {Me}]
        /\ \A s \in D \ {Me} : \E i \in 1 .. n : H.enemies[i] = s
    <3> DEFINE E == D \ {Me}
               seq == H.enemies
    <3> HIDE DEF E, seq
    <3>1. InOrder(seq, E) /\ n = Len(seq)
      BY <2>1, <2>2 DEF E, seq
    <3>2. /\ seq \in [1 .. n -> E]
          /\ \A s \in E : \E i \in 1 .. n : seq[i] = s
      BY <3>1, InOrderFacts
    <3> QED BY <3>2 DEF E, seq
  <2>4. Range(H.enemies) = D \ {Me}
    BY <2>3 DEF Range
  <2> QED BY <1>3, <1>4, <2>4
<1>5. CASE P # D
  <2>1. PICK x \in D : x \notin P
    BY <1>5
  <2> DEFINE A == D \ {x}
  <2>2. /\ IsFiniteSet(D) /\ Cardinality(D) = Len(order) /\ Len(order) \in Nat
        /\ IsFiniteSet(P) /\ Cardinality(P) = Len(H.order) /\ Len(H.order) \in Nat
    BY <1>2, ListLength
  <2>3. IsFiniteSet(A) /\ Cardinality(A) = Cardinality(D) - 1
    BY <2>2, FS_RemoveElement
  <2>4. P \in SUBSET A
    BY <2>1
  <2> HIDE DEF A
  <2>5. Cardinality(P) <= Cardinality(A) /\ (Cardinality(A) = Cardinality(P) => A = P)
    BY <2>3, <2>4, FS_Subset
  <2>6. Cardinality(A) = Cardinality(P)
    BY <2>2, <2>3, <2>5
  <2>7. P = D \ {x} /\ x \in D \ {Me}
    BY <1>1, <2>1, <2>5, <2>6 DEF A
  <2>8. Range(H.enemies) = P \ {Me}
    BY <2>7 DEF EnemiesLeft
  <2> QED BY <1>3, <2>8
<1> QED BY <1>4, <1>5

\* No three heads meet and no two at food.
FewHeads(dir) ==
    \A c \in Cell : Cardinality(headsAt(dir, c)) <= IF c \in food THEN 1 ELSE 2

\* Fewer heads than three in a cell, and than two at food.
LEMMA FewMeet ==
    ASSUME NEW dir, ATurn(dir), FewHeads(dir),
           NEW q \in DOMAIN bodies, NEW s \in DOMAIN bodies,
           q # s, Goes(dir, q) = Goes(dir, s), Goes(dir, s) \in Cell
    PROVE  /\ Goes(dir, s) \notin food
           /\ \A t \in DOMAIN bodies : Goes(dir, t) = Goes(dir, s) => t = q \/ t = s
<1> DEFINE c == Goes(dir, s)
           H == headsAt(dir, c)
<1>1. H = {t \in DOMAIN bodies : Goes(dir, t) = c}
  BY DEF headsAt, Goes
<1>2. IsFiniteSet(H)
  <2>1. H \in SUBSET Snake
    BY <1>1 DEF ATurn, GameInv, TypeOK
  <2> QED BY <2>1, GameAssumption, FS_Subset
<1>3. Cardinality(H) <= IF c \in food THEN 1 ELSE 2
  BY DEF FewHeads
<1> HIDE DEF H, c
<1>4. q \in H /\ s \in H
  BY <1>1 DEF c
<1>5. Cardinality(H) \in Nat /\ Cardinality(H) >= 2
  BY <1>2, <1>4, TwoOrThree
<1>6. c \notin food
  BY <1>3, <1>5
<1>7. ASSUME NEW t \in DOMAIN bodies, Goes(dir, t) = c, t # q, t # s PROVE FALSE
  <2>1. t \in H
    BY <1>1, <1>7
  <2>2. Cardinality(H) >= 3
    BY <1>2, <1>4, <1>7, <2>1, TwoOrThree
  <2> QED BY <1>3, <1>5, <2>2
<1> QED BY <1>6, <1>7 DEF c

\* What the rules call a head and a tail.
LEMMA RulesSay ==
    ASSUME NEW dir, ATurn(dir)
    PROVE  \A s \in DOMAIN bodies :
              /\ Rules!head(s, dir) = Goes(dir, s)
              /\ Rules!wins(s, dir) <=>
                    \A r \in DOMAIN bodies : r # s /\ Goes(dir, r) = Goes(dir, s) =>
                                                Len(bodies[r]) < Len(bodies[s])
              /\ Rules!eats(s, dir) <=> Goes(dir, s) \in food /\ Rules!wins(s, dir)
              /\ s \in Rules!survivors(dir) <=> Rules!wins(s, dir) /\ Free(dir, s)
              /\ Goes(dir, s) \in food => Free(dir, s)
<1>0. TypeOK /\ dir \in [DOMAIN bodies -> Direction]
  BY DEF ATurn, GameInv
<1>1. ASSUME NEW s \in DOMAIN bodies PROVE Rules!head(s, dir) = Goes(dir, s)
  BY RulesHead DEF Goes
<1>2. ASSUME NEW c PROVE c \in Rules!tails(dir) <=> ~NoTail(c)
  BY <1>0, TailsAre DEF NoTail
<1> SUFFICES ASSUME NEW s \in DOMAIN bodies
             PROVE  /\ Rules!head(s, dir) = Goes(dir, s)
                    /\ Rules!wins(s, dir) <=>
                          \A r \in DOMAIN bodies : r # s /\ Goes(dir, r) = Goes(dir, s) =>
                                                      Len(bodies[r]) < Len(bodies[s])
                    /\ Rules!eats(s, dir) <=> Goes(dir, s) \in food /\ Rules!wins(s, dir)
                    /\ s \in Rules!survivors(dir) <=> Rules!wins(s, dir) /\ Free(dir, s)
                    /\ Goes(dir, s) \in food => Free(dir, s)
  OBVIOUS
<1>3. Rules!wins(s, dir) <=>
        \A r \in DOMAIN bodies : r # s /\ Goes(dir, r) = Goes(dir, s) =>
                                    Len(bodies[r]) < Len(bodies[s])
  BY <1>1 DEF Rules!wins, Rules!alive, Rules!size
<1>4. Rules!eats(s, dir) <=> Goes(dir, s) \in food /\ Rules!wins(s, dir)
  BY <1>1 DEF Rules!eats
<1>5. s \in Rules!survivors(dir) <=> Rules!wins(s, dir) /\ Free(dir, s)
  <2>1. Free(dir, s) <=> ~OutOfBounds(Goes(dir, s)) /\ NoTail(Goes(dir, s))
    BY DEF Free
  <2>2. Goes(dir, s) \in Rules!tails(dir) <=> ~NoTail(Goes(dir, s))
    BY <1>2
  <2>3. Rules!OutOfBounds(Goes(dir, s)) <=> OutOfBounds(Goes(dir, s))
    BY RulesBounds
  <2>4. s \in Rules!survivors(dir) <=>
          /\ Rules!wins(s, dir) /\ ~Rules!OutOfBounds(Goes(dir, s))
          /\ Goes(dir, s) \notin Rules!tails(dir)
    BY <1>1 DEF Rules!survivors, Rules!alive
  <2> QED BY <2>1, <2>2, <2>3, <2>4
<1>6. ASSUME Goes(dir, s) \in food PROVE Free(dir, s)
  <2> DEFINE c == Goes(dir, s)
  <2>1. c \in Cell /\ c \in food
    BY <1>0, <1>6 DEF TypeOK
  <2> HIDE DEF c
  <2>2. ~OutOfBounds(c)
    BY <2>1, BoardAssumption DEF OutOfBounds, Cell
  <2>3. ASSUME NEW r \in DOMAIN bodies, NEW i \in 1 .. Len(bodies[r]) - 1, bodies[r][i] = c
        PROVE  FALSE
    <3>1. bodies[r] \in Seq(Cell)
      BY <1>0 DEF TypeOK
    <3>2. c \in cells(r)
      BY <2>3, <3>1 DEF cells, Range
    <3> QED BY <2>1, <3>2 DEF ATurn, GameInv, FoodFree
  <2> QED BY <2>2, <2>3 DEF Free, NoTail, c
<1> QED BY <1>1, <1>3, <1>4, <1>5, <1>6

\* The moved bodies when few heads meet.
LEMMA MovedAsRuled ==
    ASSUME NEW dir, ATurn(dir), FewHeads(dir), NEW M, MovedSoFar(dir, Len(MoveList), M)
    PROVE  /\ InPairs(M)
           /\ \A s \in DOMAIN M.parts :
                 /\ M.parts[s] = Rules!moved(s, dir)
                 /\ Rules!wins(s, dir) <=> ~ \E t \in DOMAIN M.parts : Loses(M, s, t)
<1> DEFINE D == DOMAIN bodies
           P == DOMAIN M.parts
<1>1. P = {s \in D : Free(dir, s)}
  BY MovesAre
<1>2. \A s \in D : Len(bodies[s]) \in Nat /\ (Free(dir, s) => Goes(dir, s) \in Cell)
  BY MoveFacts DEF JsBody
<1>3. ASSUME NEW s \in P
      PROVE  /\ M.parts[s] = Grown(bodies[s], Goes(dir, s), Goes(dir, s) \in food)
             /\ M.parts[s] = Rules!moved(s, dir)
             /\ M.parts[s][1] = Goes(dir, s)
             /\ Goes(dir, s) \notin food => Len(M.parts[s]) = Len(bodies[s])
  <2>1. PICK ate \in BOOLEAN :
           /\ M.parts[s] = Grown(bodies[s], Goes(dir, s), ate)
           /\ ate => Goes(dir, s) \in food
           /\ \/ ate \/ Goes(dir, s) \notin food
              \/ \E t \in P \ {s} : Goes(dir, t) = Goes(dir, s)
    <3>1. HasMoved(dir, M, s)
      BY <1>3, MovesAre
    <3> QED BY <3>1 DEF HasMoved
  <2>2. ASSUME NEW t \in D, t # s, Goes(dir, t) = Goes(dir, s)
        PROVE  Goes(dir, s) \notin food
    BY <1>1, <1>2, <2>2, FewMeet
  <2>3. ate <=> Goes(dir, s) \in food
    BY <1>1, <2>1, <2>2
  <2>4. Rules!eats(s, dir) <=> Goes(dir, s) \in food
    BY <1>1, <2>2, RulesSay
  <2>5. M.parts[s] = Grown(bodies[s], Goes(dir, s), Goes(dir, s) \in food)
    BY <2>1, <2>3
  <2>6. Rules!moved(s, dir) = Grown(bodies[s], Goes(dir, s), Goes(dir, s) \in food)
    <3>1. Rules!head(s, dir) = Goes(dir, s)
      BY <1>1, RulesSay
    <3> QED BY <2>4, <3>1 DEF Rules!moved, Rules!size, Grown
  <2>7. /\ Grown(bodies[s], Goes(dir, s), Goes(dir, s) \in food)[1] = Goes(dir, s)
        /\ Len(Grown(bodies[s], Goes(dir, s), Goes(dir, s) \in food))
             = Len(bodies[s]) + (IF Goes(dir, s) \in food THEN 1 ELSE 0)
    <3> DEFINE b == bodies[s]
               h == Goes(dir, s)
               e == Goes(dir, s) \in food
    <3>1. b \in Seq(Cell) /\ Len(b) >= 2 /\ h \in Cell /\ e \in BOOLEAN
      BY <1>1, <1>2, MoveFacts DEF JsBody
    <3> HIDE DEF b, h, e
    <3>2. Grown(b, h, e)[1] = h /\ Len(Grown(b, h, e)) = Len(b) + (IF e THEN 1 ELSE 0)
      BY <3>1, GrownFacts
    <3> QED BY <3>2 DEF b, h, e
  <2> QED BY <1>1, <1>2, <2>5, <2>6, <2>7
<1>4. \A s, t \in P : Alike(M, s, t) <=> Goes(dir, s) = Goes(dir, t)
  BY <1>3 DEF Alike
<1>5. InPairs(M)
  <2> SUFFICES ASSUME NEW q \in P, NEW s \in P, NEW t \in P,
                      Alike(M, q, s), Alike(M, q, t), q # s, q # t
               PROVE  s = t
    BY DEF InPairs
  <2>1. Goes(dir, q) = Goes(dir, s) /\ Goes(dir, t) = Goes(dir, s)
    BY <1>4
  <2>2. t = q \/ t = s
    BY <1>1, <1>2, <2>1, FewMeet
  <2> QED BY <2>2
<1>6. ASSUME NEW s \in P
      PROVE  Rules!wins(s, dir) <=> ~ \E t \in P : Loses(M, s, t)
  <2>1. ASSUME NEW t \in D, t # s, Goes(dir, t) = Goes(dir, s)
        PROVE  t \in P /\ (Loses(M, s, t) <=> ~(Len(bodies[t]) < Len(bodies[s])))
    <3>1. t \in P
      BY <1>1, <2>1 DEF Free
    <3>2. Goes(dir, s) \notin food
      BY <1>1, <1>2, <2>1, FewMeet
    <3>3. Len(M.parts[s]) = Len(bodies[s]) /\ Len(M.parts[t]) = Len(bodies[t])
      BY <1>3, <2>1, <3>1, <3>2
    <3>4. Alike(M, s, t)
      BY <1>4, <2>1, <3>1
    <3> QED BY <1>1, <1>2, <2>1, <3>1, <3>3, <3>4 DEF Loses
  <2>2. ASSUME NEW t \in P, Loses(M, s, t)
        PROVE  t \in D /\ t # s /\ Goes(dir, t) = Goes(dir, s)
    BY <1>1, <1>4, <2>2 DEF Loses
  <2>3. Rules!wins(s, dir) <=>
          \A r \in D : r # s /\ Goes(dir, r) = Goes(dir, s) => Len(bodies[r]) < Len(bodies[s])
    BY <1>1, RulesSay
  <2> QED BY <2>1, <2>2, <2>3
<1> QED BY <1>3, <1>5, <1>6

\* What the turn is to come to.
AsRuled(dir, js) ==
    /\ ~js.threw
    /\ js.parts = Rules!BodiesAfter(dir)
    /\ js.food = Rules!FoodAfter(dir)
    /\ js.you = Me <=> Me \in DOMAIN js.parts
    /\ Range(js.order) = DOMAIN js.parts

\* The turn, once and for all directions that the snakes may choose.
LEMMA JsTurnIsRules ==
    ASSUME NEW dir, ATurn(dir), FewHeads(dir)
    PROVE  AsRuled(dir, NewStateAfterMoves(Js, dir))
<1>1. PICK M : \E H : Played(dir, M, H)
  BY TurnIsPlayed
<1>2. PICK H : Played(dir, M, H)
  BY <1>1
<1> DEFINE r == NewStateAfterMoves(Js, dir)
           D == DOMAIN bodies
           P == DOMAIN M.parts
<1>3. /\ MovedSoFar(dir, Len(MoveList), M) /\ Settling(M, P, H) /\ Returned(H, r)
  BY <1>2 DEF Played
<1> HIDE DEF r
<1>4. /\ InPairs(M)
      /\ \A s \in P : /\ M.parts[s] = Rules!moved(s, dir)
                      /\ Rules!wins(s, dir) <=> ~ \E t \in P : Loses(M, s, t)
  BY <1>3, MovedAsRuled
<1>5. M.threw = FALSE /\ P = {s \in D : Free(dir, s)}
      /\ \A f : f \in M.food <=> f \in food /\ \A s \in P : f # Goes(dir, s)
  BY <1>3, MovesAre
<1>6. /\ H \in JsStates /\ DOMAIN H.parts \subseteq P
      /\ \A s \in DOMAIN H.parts : H.parts[s] = M.parts[s]
      /\ H.food = M.food /\ YouLives(H) /\ InTheGrid(H)
      /\ H.threw = M.threw
      /\ \A q \in P : q \in DOMAIN H.parts <=> ~ \E x \in P : Loses(M, q, x)
  BY <1>3, <1>4 DEF Settling, Kept
<1>7. ~r.threw
  BY <1>3, <1>5, <1>6 DEF Returned
<1>8. H.parts = Rules!BodiesAfter(dir)
  <2>1. Rules!survivors(dir) \subseteq D
    BY DEF Rules!survivors, Rules!alive
  <2>2. DOMAIN H.parts = Rules!survivors(dir)
    BY <1>4, <1>5, <1>6, <2>1, RulesSay
  <2> DEFINE X == DOMAIN H.parts
  <2>3. H.parts = [s \in X |-> H.parts[s]]
    BY <1>6 DEF JsStates, JsParts
  <2>4. \A s \in X : H.parts[s] = Rules!moved(s, dir)
    BY <1>4, <1>6
  <2> QED BY <2>2, <2>3, <2>4 DEF Rules!BodiesAfter
<1>9. r.food = Rules!FoodAfter(dir)
  <2>1. ASSUME NEW f \in M.food PROVE H.grid[f] = Nobody
    <3> SUFFICES ASSUME H.grid[f] # Nobody PROVE FALSE
      OBVIOUS
    <3>1. f \in Cell /\ f \in food
      BY <1>5 DEF ATurn, GameInv, TypeOK
    <3>2. PICK s \in DOMAIN H.parts : f \in Range(H.parts[s])
      BY <1>6, <3>1 DEF InTheGrid, Under0
    <3>3. s \in P /\ H.parts[s] = M.parts[s] /\ s \in D
      BY <1>5, <1>6
    <3> DEFINE b == bodies[s]
               h == Goes(dir, s)
    <3>4. PICK ate \in BOOLEAN : M.parts[s] = Grown(b, h, ate)
      <4>1. HasMoved(dir, M, s)
        BY <1>3, <3>3, MovesAre
      <4> QED BY <4>1 DEF HasMoved
    <3>5. b \in Seq(Cell) /\ Len(b) >= 2 /\ h \in Cell /\ b \in JsBody
      BY <1>5, <3>3, MoveFacts DEF JsBody
    <3> DEFINE m == Grown(b, h, ate)
    <3>6. /\ m \in Seq(Cell) /\ Len(m) = Len(b) + (IF ate THEN 1 ELSE 0)
          /\ m[1] = h
          /\ \A i \in 2 .. Len(b) : m[i] = b[i - 1]
          /\ ate => m[Len(b) + 1] = b[Len(b) - 1]
      <4> HIDE DEF b, h
      <4> QED BY <3>5, GrownFacts
    <3>7. f \in Range(m)
      BY <3>2, <3>3, <3>4
    <3> HIDE DEF m, b
    <3>8. PICK n \in Nat : n = Len(b) /\ n >= 2
      BY <3>5
    <3>9. PICK i \in 1 .. Len(m) : m[i] = f
      BY <3>6, <3>7 DEF Range
    <3>10. i = 1 \/ i \in 2 .. n \/ (ate /\ i = n + 1)
      BY <3>6, <3>8, <3>9
    <3>11. f \in Range(b)
      <4>1. DOMAIN b = 1 .. n
        BY <3>5, <3>8
      <4>2. i # 1
        BY <1>5, <3>3, <3>6, <3>9
      <4>3. \E j \in 1 .. n : b[j] = f
        <5>1. CASE i \in 2 .. n
          <6>1. i - 1 \in 1 .. n /\ b[i - 1] = f
            BY <3>6, <3>8, <3>9, <5>1
          <6> QED BY <6>1
        <5>2. CASE ate /\ i = n + 1
          <6>1. n - 1 \in 1 .. n /\ b[n - 1] = f
            BY <3>6, <3>8, <3>9, <5>2
          <6> QED BY <6>1
        <5> QED BY <3>10, <4>2, <5>1, <5>2
      <4> QED BY <4>1, <4>3 DEF Range
    <3> QED BY <3>1, <3>3, <3>11 DEF b, ATurn, GameInv, FoodFree, cells
  <2>2. r.food = M.food
    BY <1>3, <1>6, <2>1 DEF Returned
  <2>3. ASSUME NEW f \in food
        PROVE  (\A s \in P : f # Goes(dir, s)) <=>
               ~ \E s \in D : Rules!eats(s, dir) /\ Rules!head(s, dir) = f
    <3>1. ASSUME NEW s \in D, Rules!eats(s, dir), Rules!head(s, dir) = f
          PROVE  s \in P /\ f = Goes(dir, s)
      BY <1>5, <3>1, RulesSay
    <3>2. ASSUME NEW s \in P, f = Goes(dir, s)
          PROVE  s \in D /\ Rules!eats(s, dir) /\ Rules!head(s, dir) = f
      <4>1. s \in D /\ Goes(dir, s) \in Cell
        BY <1>5, MoveFacts
      <4>2. \A t \in D : t # s => Goes(dir, t) # Goes(dir, s)
        BY <2>3, <3>2, <4>1, FewMeet
      <4> QED BY <2>3, <3>2, <4>1, <4>2, RulesSay
    <3> QED BY <3>1, <3>2
  <2>4. Rules!FoodAfter(dir) =
          {f \in food : ~ \E s \in D : Rules!eats(s, dir) /\ Rules!head(s, dir) = f}
    BY DEF Rules!FoodAfter, Rules!alive
  <2>5. M.food = {f \in food : \A s \in P : f # Goes(dir, s)}
    BY <1>5
  <2> QED BY <2>2, <2>3, <2>4, <2>5
<1>10. r.you = Me <=> Me \in DOMAIN r.parts
  BY <1>3, <1>6, NobodyAssumption, GameAssumption DEF Returned, YouLives
<1>11. Range(r.order) = DOMAIN r.parts
  <2> DEFINE X == DOMAIN H.parts
  <2>1. InOrder(H.order, X)
    BY <1>6 DEF JsStates
  <2>2. PICK n \in Nat : n = Len(H.order)
    BY <2>1, InOrderFacts
  <2>3. H.order \in [1 .. n -> X] /\ \A s \in X : \E i \in 1 .. n : H.order[i] = s
    <3> HIDE DEF X
    <3> QED BY <2>1, <2>2, InOrderFacts
  <2>4. Range(H.order) = X
    BY <2>3 DEF Range
  <2> QED BY <1>3, <2>4 DEF Returned
<1>12. r.parts = Rules!BodiesAfter(dir)
  BY <1>3, <1>8 DEF Returned
<1>13. AsRuled(dir, r)
  BY <1>7, <1>9, <1>10, <1>11, <1>12 DEF AsRuled
<1> QED BY <1>13 DEF r

\* The JavaScript turn, which moves the snakes one after another and removes
\* the dead as it goes, comes to what the rules say, as long as no three heads
\* meet and no two meet at a piece of food (game_state.js:144-246).
THEOREM JsFollowsRules == Spec => []JsTurnFollowsRules
<1>1. GameInv => JsTurnFollowsRules
  <2> SUFFICES ASSUME GameInv, Me \in DOMAIN bodies,
                      NEW dir \in [DOMAIN bodies -> Direction], FewHeads(dir)
               PROVE  AsRuled(dir, NewStateAfterMoves(Js, dir))
    BY DEF JsTurnFollowsRules, AsRuled, FewHeads
  <2>1. ATurn(dir)
    BY DEF ATurn
  <2> QED BY <2>1, JsTurnIsRules
<1> QED BY <1>1, GameInvariance, PTL

\* After the moves two snakes are in one cell only if their heads are.
LEMMA ApartAfterMoves ==
    ASSUME NEW dir, ATurn(dir), NEW M, MovedSoFar(dir, Len(MoveList), M),
           NEW s \in DOMAIN M.parts, NEW t \in DOMAIN M.parts, s # t,
           ~Alike(M, s, t), NEW c \in Cell
    PROVE  ~(c \in Range(M.parts[s]) /\ c \in Range(M.parts[t]))
<1> DEFINE InTail(q) == \E i \in 1 .. Len(bodies[q]) - 1 : bodies[q][i] = c
<1>1. ASSUME NEW q \in DOMAIN M.parts
      PROVE  /\ q \in DOMAIN bodies /\ Free(dir, q)
             /\ M.parts[q][1] = Goes(dir, q)
             /\ c \in Range(M.parts[q]) => c = Goes(dir, q) \/ InTail(q)
  <2> DEFINE b == bodies[q]
             h == Goes(dir, q)
  <2>1. q \in DOMAIN bodies /\ Free(dir, q)
    <3>1. DOMAIN M.parts = {x \in DOMAIN bodies : Free(dir, x)}
      BY MovesAre
    <3> QED BY <3>1
  <2>2. PICK ate \in BOOLEAN : M.parts[q] = Grown(b, h, ate)
    <3>1. HasMoved(dir, M, q)
      BY MovesAre
    <3> QED BY <3>1 DEF HasMoved
  <2> DEFINE m == Grown(b, h, ate)
  <2>3. b \in Seq(Cell) /\ Len(b) >= 2 /\ h \in Cell
    BY <2>1, MoveFacts DEF JsBody
  <2>4. /\ m \in Seq(Cell) /\ Len(m) = Len(b) + (IF ate THEN 1 ELSE 0)
        /\ m[1] = h
        /\ \A i \in 2 .. Len(b) : m[i] = b[i - 1]
        /\ ate => m[Len(b) + 1] = b[Len(b) - 1]
    <3> HIDE DEF b, h
    <3> QED BY <2>3, GrownFacts
  <2> HIDE DEF m, b, h
  <2>5. PICK n \in Nat : n = Len(b) /\ n >= 2
    BY <2>3
  <2>6. ASSUME c \in Range(m) PROVE c = h \/ \E i \in 1 .. n - 1 : b[i] = c
    <3>1. PICK i \in 1 .. Len(m) : m[i] = c
      BY <2>4, <2>6 DEF Range
    <3>2. i = 1 \/ i \in 2 .. n \/ (ate /\ i = n + 1)
      BY <2>4, <2>5, <3>1
    <3>3. CASE i \in 2 .. n
      <4>1. i - 1 \in 1 .. n - 1 /\ b[i - 1] = c
        BY <2>4, <2>5, <3>1, <3>3
      <4> QED BY <4>1
    <3>4. CASE ate /\ i = n + 1
      <4>1. n - 1 \in 1 .. n - 1 /\ b[n - 1] = c
        BY <2>4, <2>5, <3>1, <3>4
      <4> QED BY <4>1
    <3> QED BY <2>4, <3>1, <3>2, <3>3, <3>4
  <2>7. c \in Range(m) => c = h \/ InTail(q)
    BY <2>5, <2>6 DEF b
  <2> QED BY <2>1, <2>2, <2>4, <2>7 DEF m, h
<1> SUFFICES ASSUME c \in Range(M.parts[s]), c \in Range(M.parts[t]) PROVE FALSE
  OBVIOUS
<1>2. Goes(dir, s) # Goes(dir, t)
  BY <1>1 DEF Alike
<1>3. (c = Goes(dir, s) \/ InTail(s)) /\ (c = Goes(dir, t) \/ InTail(t))
  BY <1>1
<1>4. ASSUME NEW q \in DOMAIN M.parts, NEW r \in DOMAIN M.parts, c = Goes(dir, q), InTail(r)
      PROVE  FALSE
  BY <1>1, <1>4 DEF Free, NoTail
<1>5. CASE InTail(s) /\ InTail(t)
  <2>1. s \in DOMAIN bodies /\ t \in DOMAIN bodies
    BY <1>1
  <2>2. ASSUME NEW q \in DOMAIN bodies, InTail(q) PROVE c \in cells(q)
    <3>1. bodies[q] \in Seq(Cell) /\ Len(bodies[q]) >= 2
      BY DEF ATurn, GameInv, TypeOK
    <3>2. PICK i \in 1 .. Len(bodies[q]) - 1 : bodies[q][i] = c
      BY <2>2
    <3>3. i \in DOMAIN bodies[q]
      BY <3>1, <3>2
    <3> QED BY <3>2, <3>3 DEF cells, Range
  <2> QED BY <1>5, <2>1, <2>2 DEF ATurn, GameInv, BodiesDisjoint
<1> QED BY <1>2, <1>3, <1>4, <1>5

\* Two counts of one cell that are both right are the same.
LEMMA CountsAgree ==
    ASSUME NEW parts \in JsParts, NEW c \in Cell,
           NEW v, v[c] \in Nat, CountAt(v, parts, c),
           NEW w, w[c] \in Nat, CountAt(w, parts, c)
    PROVE  v[c] = w[c]
<1>1. ASSUME NEW a, a[c] \in Nat, CountAt(a, parts, c),
             NEW b, b[c] \in Nat, CountAt(b, parts, c)
      PROVE  a[c] <= b[c]
  <2>1. CASE a[c] = 0
    BY <1>1, <2>1
  <2>2. CASE a[c] # 0
    <3>1. PICK s \in DOMAIN parts : \E i \in 1 .. Len(parts[s]) :
                 parts[s][i] = c /\ a[c] = Len(parts[s]) - i
      BY <1>1, <2>2 DEF CountAt
    <3>2. PICK i \in 1 .. Len(parts[s]) : parts[s][i] = c /\ a[c] = Len(parts[s]) - i
      BY <3>1
    <3>3. Len(parts[s]) - i <= b[c]
      BY <1>1, <3>2 DEF CountAt
    <3> QED BY <3>2, <3>3
  <2> QED BY <2>1, <2>2
<1> QED BY <1>1

\* What is asked of the caches.
LeftIn(js, i) == MoveList[i] \in DOMAIN js.parts
StackedCells ==
    {c \in Cell : \E s \in DOMAIN bodies :
        Cardinality({i \in DOMAIN bodies[s] : bodies[s][i] = c}) > 2}
ClearedCells(js) ==
    LET left == {i \in DOMAIN MoveList : MoveList[i] \in DOMAIN js.parts}
    IN {Last(bodies[MoveList[k]]) : k \in {l \in left :
           \E i \in left :
              /\ js.parts[MoveList[i]][1] = Last(bodies[MoveList[l]])
              /\ i = l \/ (1 < i /\ \E j \in i + 1 .. l - 1 : j \notin left)}}
CachesFresh(js) ==
    /\ \A c \in Cell \ StackedCells :
          js.vacated[c] = VacatedMap(PartsInOrder(js.order, js.parts))[c]
    /\ \A c \in Cell \ ClearedCells(js) :
          js.grid[c] = FilledGrid(js.order, js.parts, js.you)[c]
    /\ js.you = Me /\ Len(js.order) >= Len(order) - 1 =>
          Range(js.enemies) = Range(js.order) \ {Me}

\* A cell with three parts is one of those that the property leaves out.
LEMMA StackedIs ==
    ASSUME GameInv, NEW c \in Cell, Stacked(c)
    PROVE  c \in StackedCells
<1>1. PICK s \in DOMAIN bodies : \E i, j, k \in 1 .. Len(bodies[s]) :
         i < j /\ j < k /\ bodies[s][i] = c /\ bodies[s][j] = c /\ bodies[s][k] = c
  BY DEF Stacked
<1> DEFINE b == bodies[s]
           S == {i \in DOMAIN b : b[i] = c}
<1>2. PICK n \in Nat : n = Len(b) /\ DOMAIN b = 1 .. n
  <2>1. b \in Seq(Cell)
    BY DEF GameInv, TypeOK
  <2> HIDE DEF b
  <2> QED BY <2>1
<1>3. PICK i \in 1 .. n, j \in 1 .. n, k \in 1 .. n :
         i < j /\ j < k /\ b[i] = c /\ b[j] = c /\ b[k] = c
  BY <1>1, <1>2
<1>4. i \in S /\ j \in S /\ k \in S /\ i # j /\ i # k /\ j # k
  BY <1>2, <1>3
<1>5. IsFiniteSet(S)
  <2>1. S \in SUBSET (1 .. n) /\ IsFiniteSet(1 .. n)
    BY <1>2, FS_Interval
  <2> QED BY <2>1, FS_Subset
<1> HIDE DEF S
<1>6. Cardinality(S) \in Nat /\ Cardinality(S) >= 3
  BY <1>4, <1>5, TwoOrThree
<1>7. Cardinality(S) > 2
  BY <1>6
<1> QED BY <1>7 DEF StackedCells, S

\* So is one that the move of a tail has cleared under a head.
LEMMA ClearedIs ==
    ASSUME NEW dir, ATurn(dir), NEW M, MovedSoFar(dir, Len(MoveList), M),
           NEW c, Cleared(dir, Len(MoveList), c)
    PROVE  c \in ClearedCells(M)
<1> DEFINE L == MoveList
           left == {i \in DOMAIN L : L[i] \in DOMAIN M.parts}
<1>1. PICK n \in Nat : n = Len(L) /\ L \in [1 .. n -> DOMAIN bodies]
  BY MoveFacts
<1> HIDE DEF L
<1>2. PICK l \in 1 .. n :
         /\ Free(dir, L[l]) /\ c = bodies[L[l]][Len(bodies[L[l]])]
         /\ \E i \in 1 .. l :
               /\ Free(dir, L[i]) /\ Goes(dir, L[i]) = c
               /\ i = l \/ (1 < i /\ \E j \in i + 1 .. l - 1 : ~Free(dir, L[j]))
  BY <1>1 DEF Cleared, L
<1>3. PICK i \in 1 .. l :
         /\ Free(dir, L[i]) /\ Goes(dir, L[i]) = c
         /\ i = l \/ (1 < i /\ \E j \in i + 1 .. l - 1 : ~Free(dir, L[j]))
  BY <1>2
<1>4. i \in 1 .. n /\ \A j \in i + 1 .. l - 1 : j \in 1 .. n
  BY <1>2, <1>3
<1>5. \A j \in 1 .. n : j \in left <=> Free(dir, L[j])
  <2>1. DOMAIN M.parts = {s \in DOMAIN bodies : Free(dir, s)}
    BY MovesAre
  <2> QED BY <1>1, <2>1
<1>6. M.parts[L[i]][1] = c
  <2> DEFINE s == L[i]
  <2>1. s \in DOMAIN M.parts
    BY <1>3, <1>4, <1>5
  <2> HIDE DEF s
  <2>2. HasMoved(dir, M, s) /\ s \in DOMAIN bodies /\ Free(dir, s)
    <3>1. DOMAIN M.parts = {x \in DOMAIN bodies : Free(dir, x)}
      BY MovesAre
    <3>2. HasMoved(dir, M, s)
      BY <2>1, MovesAre
    <3> QED BY <2>1, <3>1, <3>2
  <2> DEFINE b == bodies[s]
             h == Goes(dir, s)
  <2>3. PICK ate \in BOOLEAN : M.parts[s] = Grown(b, h, ate)
    BY <2>2 DEF HasMoved
  <2>4. b \in Seq(Cell) /\ Len(b) >= 2 /\ h \in Cell
    BY <2>2, MoveFacts DEF JsBody
  <2> HIDE DEF b, h
  <2>5. Grown(b, h, ate)[1] = h
    BY <2>4, GrownFacts
  <2> QED BY <1>3, <2>3, <2>5 DEF s, h
<1> HIDE DEF left
<1>7. l \in left /\ i \in left
  BY <1>2, <1>3, <1>4, <1>5
<1>8. i = l \/ (1 < i /\ \E j \in i + 1 .. l - 1 : j \notin left)
  BY <1>3, <1>4, <1>5
<1>9. Last(bodies[L[l]]) = c
  BY <1>2 DEF Last
<1> QED BY <1>6, <1>7, <1>8, <1>9 DEF ClearedCells, L, left

\* If nothing happened after the moves the caches are those that were kept.
LEMMA KeptCaches ==
    ASSUME NEW dir, ATurn(dir), NEW M, MovedSoFar(dir, Len(MoveList), M),
           CachedSoFar(dir, Len(MoveList), M),
           \A s, t \in DOMAIN M.parts : s = t \/ ~Alike(M, s, t)
    PROVE  /\ \A c \in Cell \ StackedCells :
                 M.vacated[c] = VacatedMap(PartsInOrder(M.order, M.parts))[c]
           /\ \A c \in Cell \ ClearedCells(M) :
                 M.grid[c] = FilledGrid(M.order, M.parts, M.you)[c]
<1> DEFINE parts == M.parts
           seq == M.order
           you == M.you
           v == VacatedMap(PartsInOrder(seq, parts))
           grid == FilledGrid(seq, parts, you)
<1>1. /\ parts \in JsParts /\ InOrder(seq, DOMAIN parts)
      /\ you \in DOMAIN parts \cup {Nobody}
      /\ M.vacated \in [Cell -> Nat] /\ InTheGrid(M)
  BY DEF MovedSoFar, JsStates
<1>2. ASSUME NEW c \in Cell, c \notin StackedCells PROVE M.vacated[c] = v[c]
  <2>1. ~Stacked(c)
    BY <1>2, StackedIs DEF ATurn
  <2>2. CountAt(M.vacated, parts, c)
    BY <2>1 DEF CachedSoFar
  <2> HIDE DEF parts, seq, v
  <2>3. v \in [Cell -> Nat] /\ CountAt(v, parts, c)
    BY <1>1, NewCounts DEF v
  <2>4. M.vacated[c] \in Nat /\ v[c] \in Nat
    BY <1>1, <2>3
  <2> QED BY <1>1, <2>2, <2>3, <2>4, CountsAgree
<1>3. ASSUME NEW c \in Cell, c \notin ClearedCells(M) PROVE M.grid[c] = grid[c]
  <2>1. ~Cleared(dir, Len(MoveList), c)
    BY <1>3, ClearedIs
  <2>2. Under0(parts, c) = {} \/ M.grid[c] # Nobody
    BY <2>1 DEF CachedSoFar
  <2>3. M.grid[c] # Nobody => M.grid[c] \in Under0(parts, c)
    BY <1>1 DEF InTheGrid
  <2>4. /\ grid[c] # Nobody => grid[c] \in Under0(parts, c)
        /\ Under0(parts, c) # {} => grid[c] # Nobody
    <3> HIDE DEF parts, seq, you
    <3> QED BY <1>1, FilledGridIs
  <2>5. ASSUME NEW s \in Under0(parts, c), NEW t \in Under0(parts, c) PROVE s = t
    BY ApartAfterMoves DEF Under0
  <2> HIDE DEF grid, parts
  <2> QED BY <2>2, <2>3, <2>4, <2>5
<1> QED BY <1>2, <1>3

\* The caches after the turn: either some snake has died head-on, and they are
\* new, or no two heads are in one cell, and the moves have kept them.
LEMMA JsCachesAre ==
    ASSUME NEW dir, ATurn(dir), ~NewStateAfterMoves(Js, dir).threw
    PROVE  CachesFresh(NewStateAfterMoves(Js, dir))
<1>1. PICK M : \E H : Played(dir, M, H)
  BY TurnIsPlayed
<1>2. PICK H : Played(dir, M, H)
  BY <1>1
<1> DEFINE r == NewStateAfterMoves(Js, dir)
<1>3. /\ MovedSoFar(dir, Len(MoveList), M) /\ CachedSoFar(dir, Len(MoveList), M)
      /\ Settling(M, DOMAIN M.parts, H) /\ Returned(H, r) /\ ~r.threw
  BY <1>2 DEF Played
<1> HIDE DEF r
<1>4. /\ H \in JsStates /\ DOMAIN H.parts \subseteq DOMAIN bodies
      /\ YouLives(H) /\ EnemiesLeft(H)
      /\ \/ Fresh(H)
         \/ H = M /\ \A s, t \in DOMAIN M.parts : s = t \/ ~Alike(M, s, t)
  <2>1. H.threw # TRUE
    BY <1>3 DEF Returned
  <2>2. DOMAIN M.parts \subseteq DOMAIN bodies
    BY <1>3 DEF MovedSoFar
  <2> QED BY <1>3, <2>1, <2>2 DEF Settling, Kept
<1>5. H.you = Me /\ Len(H.order) >= Len(order) - 1 =>
         Range(H.enemies) = Range(H.order) \ {Me}
  <2>1. Me \in DOMAIN bodies /\ InOrder(order, DOMAIN bodies)
    BY DEF ATurn, GameInv, TypeOK
  <2> QED BY <1>4, <2>1, EnemiesAre
<1>6. CachesFresh(H)
  <2>1. CASE Fresh(H)
    BY <1>5, <2>1 DEF Fresh, CachesFresh
  <2>2. CASE H = M /\ \A s, t \in DOMAIN M.parts : s = t \/ ~Alike(M, s, t)
    <3>1. /\ \A c \in Cell \ StackedCells :
                M.vacated[c] = VacatedMap(PartsInOrder(M.order, M.parts))[c]
          /\ \A c \in Cell \ ClearedCells(M) :
                M.grid[c] = FilledGrid(M.order, M.parts, M.you)[c]
      BY <1>3, <2>2, KeptCaches
    <3>2. H = M
      BY <2>2
    <3> QED BY <1>5, <3>1, <3>2 DEF CachesFresh
  <2> QED BY <1>4, <2>1, <2>2
<1>7. CachesFresh(r)
  BY <1>3, <1>6 DEF Returned, CachesFresh, ClearedCells
<1> QED BY <1>7 DEF r

\* The caches that were kept up to date during the turn are those that would be
\* built from its result, but for stacked parts and for a head that has come to
\* where the end of a tail was (game_state.js:145-203, 286-327, 438-446).
THEOREM JsCaches == Spec => []JsCachesFresh
<1>1. GameInv => JsCachesFresh
  <2> SUFFICES ASSUME GameInv, Me \in DOMAIN bodies,
                      NEW dir \in [DOMAIN bodies -> Direction],
                      ~NewStateAfterMoves(Js, dir).threw
               PROVE  CachesFresh(NewStateAfterMoves(Js, dir))
    BY DEF JsCachesFresh, CachesFresh, StackedCells, ClearedCells, MoveList
  <2>1. ATurn(dir)
    BY DEF ATurn
  <2> QED BY <2>1, JsCachesAre
<1> QED BY <1>1, GameInvariance, PTL
=============================================================================
