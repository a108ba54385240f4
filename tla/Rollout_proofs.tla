--------------------------- MODULE Rollout_proofs ---------------------------
(***************************************************************************)
(* A branch's future tells the truth about the game it was played in, on   *)
(* every board, for any number of snakes and for any prefix.               *)
(***************************************************************************)
EXTENDS MCRollout, GameTurn_proofs

\* What updateFoodsEaten finds under a snake after a turn: the food it has
\* eaten, and no other.
LEMMA UnderTheSnake ==
    ASSUME GameInv, NEW dir \in [DOMAIN bodies -> Direction],
           NEW new, new = Rules!BodiesAfter(dir), NEW s \in DOMAIN new
    PROVE  /\ Under(new, food, s) =
                IF Rules!eats(s, dir) THEN {Rules!head(s, dir)} ELSE {}
           /\ \A f \in Range(new[s]) \cap food :
                 f = Rules!head(s, dir) /\ Rules!eats(s, dir)
<1> DEFINE b == bodies[s]
           m == new[s]
           h == Rules!head(s, dir)
           ate == Rules!eats(s, dir)
<1>1. /\ s \in DOMAIN bodies /\ m = Rules!moved(s, dir) /\ Rules!wins(s, dir)
      /\ h \notin Rules!tails(dir)
  BY DEF Rules!BodiesAfter, Rules!survivors, Rules!alive
<1>2. /\ b \in Seq(Cell) /\ Len(b) \in Nat /\ Len(b) >= 2
      /\ m \in Seq(Point)
      /\ Len(m) = Len(b) + (IF ate THEN 1 ELSE 0)
      /\ m[1] = h
      /\ \A i \in 2 .. Len(b) : m[i] = b[i - 1]
      /\ ate => m[Len(b) + 1] = b[Len(b) - 1]
  BY <1>1, MovedFacts DEF GameInv
<1>3. ate <=> h \in food
  BY <1>1 DEF Rules!eats
<1>4. \A i \in 1 .. Len(b) : b[i] \notin food
  BY <1>1, <1>2 DEF GameInv, FoodFree, cells, Range
<1>5. \A i \in 2 .. Len(m) : m[i] \in Rules!tails(dir)
  BY <1>1 DEF Rules!tails, Rules!alive
<1> HIDE DEF b, m, h, ate
<1>6. \A i \in 2 .. Len(m) : m[i] \notin food
  <2> SUFFICES ASSUME NEW i \in 2 .. Len(m) PROVE m[i] \notin food
    OBVIOUS
  <2>1. CASE i <= Len(b)
    BY <1>2, <1>4, <2>1
  <2>2. CASE i > Len(b)
    <3>1. ate /\ i = Len(b) + 1
      BY <1>2, <2>2
    <3> QED BY <1>2, <1>4, <3>1
  <2> QED BY <1>2, <2>1, <2>2
<1>7. Len(m) \in Nat /\ Len(m) >= 2
  BY <1>2
<1>8. /\ Front(m) \in Seq(Point) /\ Len(Front(m)) = Len(m) - 1
      /\ DOMAIN Front(m) = 1 .. Len(m) - 1
      /\ \A i \in 1 .. Len(m) - 1 : Front(m)[i] = m[i]
  BY <1>2, <1>7 DEF Front
<1>9. m[1] # m[Len(m)]
  BY <1>1, <1>2, <1>5, <1>7 DEF h
<1>10. \A f \in food : At(new, s, f) <=> f = h
  <2> SUFFICES ASSUME NEW f \in food PROVE At(new, s, f) <=> f = h
    OBVIOUS
  <2>1. At(new, s, f) <=> /\ \E i \in 1 .. Len(m) - 1 : f = m[i]
                          /\ f # m[Len(m)]
    BY <1>8 DEF At, Last, Range, m
  <2>2. \A i \in 1 .. Len(m) - 1 : f = m[i] => i = 1
    BY <1>6, <1>7
  <2>3. 1 \in 1 .. Len(m) - 1
    BY <1>7
  <2> QED BY <1>2, <1>9, <2>1, <2>2, <2>3
<1>11. \A f \in Range(m) \cap food : f = h /\ ate
  <2> SUFFICES ASSUME NEW f \in Range(m), f \in food PROVE f = h /\ ate
    OBVIOUS
  <2>1. PICK i \in 1 .. Len(m) : f = m[i]
    BY <1>2 DEF Range
  <2>2. i = 1
    BY <1>6, <2>1
  <2> QED BY <1>2, <1>3, <2>1, <2>2
<1>12. Under(new, food, s) = IF ate THEN {h} ELSE {}
  BY <1>3, <1>10 DEF Under
<1> QED BY <1>11, <1>12 DEF m, h, ate

\* A branch starts with an empty record.
THEOREM RolloutInitInv == RolloutInit => RolloutInv
<1> SUFFICES ASSUME RolloutInit PROVE RolloutInv
  OBVIOUS
<1>1. Init /\ turns = 0 /\ obituaries = <<>> /\ foodsEaten = <<>>
  BY DEF RolloutInit
<1>2. GameInv
  BY <1>1, GameInitInv
<1>3. PICK at \in [Snake -> Cell] :
        bodies = [s \in Snake |-> [i \in 1 .. StartLength |-> at[s]]]
  BY <1>1 DEF Init, StartBodies, Injection
<1>4. StartLength \in Nat /\ StartLength >= 2
  BY GameAssumption
<1>5. DOMAIN bodies = Snake /\ \A s \in Snake :
        /\ Len(bodies[s]) = StartLength /\ DOMAIN bodies[s] = 1 .. StartLength
        /\ \A i \in 1 .. StartLength : bodies[s][i] = bodies[s][1]
  BY <1>3, <1>4
<1>7. firstMoves \in Seq(Direction)
  BY RolloutAssumption DEF RolloutInit
<1>8. DOMAIN obituaries = {} /\ DOMAIN foodsEaten = {}
  BY <1>1
<1>9. MealsAgree
  <2>1. \A s \in Snake : Meals(s) = <<>>
    BY <1>8 DEF Meals
  <2>2. StartLength = StartLength + Len(<<>>)
    BY <1>4
  <2> QED BY <1>5, <2>1, <2>2 DEF MealsAgree
<1>10. MealsInOrder /\ ObituariesAgree
  BY <1>5, <1>8 DEF MealsInOrder, ObituariesAgree, Range
<1>11. AnswerLeadsHere
  BY <1>1, <1>4 DEF AnswerLeadsHere
<1> QED BY <1>1, <1>2, <1>7, <1>9, <1>10, <1>11 DEF RolloutInv, FutureExact

\* What a turn of a branch does to the snakes that are left.
LEMMA TurnFacts ==
    ASSUME RolloutInv, NEW dir \in [DOMAIN bodies -> Direction], ApplyTurn(dir)
    PROVE  /\ bodies' = Rules!BodiesAfter(dir) /\ food' = Rules!FoodAfter(dir)
           /\ DOMAIN bodies' \subseteq DOMAIN bodies
           /\ \A s \in DOMAIN bodies' :
                 /\ bodies'[s] = Rules!moved(s, dir)
                 /\ Under(bodies', food, s) =
                      IF Rules!eats(s, dir) THEN {Rules!head(s, dir)} ELSE {}
                 /\ Len(bodies'[s]) = Len(bodies[s])
                                        + (IF Rules!eats(s, dir) THEN 1 ELSE 0)
                 /\ Len(bodies[s]) \in Nat
                 /\ bodies'[s][1] = CoordAfterMove(bodies[s][1], dir[s])
                 /\ \A i \in 2 .. Len(bodies[s]) : bodies'[s][i] = bodies[s][i - 1]
<1>1. bodies' = Rules!BodiesAfter(dir) /\ food' = Rules!FoodAfter(dir)
  BY TurnIsRules DEF RolloutInv, GameInv, ApplyTurn
<1>2. /\ DOMAIN bodies' \subseteq DOMAIN bodies
      /\ \A s \in DOMAIN bodies' : bodies'[s] = Rules!moved(s, dir)
  BY <1>1 DEF Rules!BodiesAfter, Rules!survivors, Rules!alive
<1>3. ASSUME NEW s \in DOMAIN bodies'
      PROVE  /\ Len(bodies'[s]) = Len(bodies[s])
                                    + (IF Rules!eats(s, dir) THEN 1 ELSE 0)
             /\ Len(bodies[s]) \in Nat
             /\ bodies'[s][1] = CoordAfterMove(bodies[s][1], dir[s])
             /\ \A i \in 2 .. Len(bodies[s]) : bodies'[s][i] = bodies[s][i - 1]
  <2>1. s \in DOMAIN bodies /\ bodies'[s] = Rules!moved(s, dir)
    BY <1>2
  <2>2. TypeOK
    BY DEF RolloutInv, GameInv
  <2> DEFINE m == Rules!moved(s, dir)
  <2>3. /\ Len(m) = Len(bodies[s]) + (IF Rules!eats(s, dir) THEN 1 ELSE 0)
        /\ Len(bodies[s]) \in Nat
        /\ m[1] = Rules!head(s, dir)
        /\ \A i \in 2 .. Len(bodies[s]) : m[i] = bodies[s][i - 1]
    BY <2>1, <2>2, MovedFacts
  <2> HIDE DEF m
  <2> QED BY <2>1, <2>3, RulesHead DEF m
<1>4. \A s \in DOMAIN bodies' : Under(bodies', food, s) =
                      IF Rules!eats(s, dir) THEN {Rules!head(s, dir)} ELSE {}
  <2> DEFINE new == bodies'
  <2>1. new = Rules!BodiesAfter(dir)
    BY <1>1
  <2> HIDE DEF new
  <2>2. \A s \in DOMAIN new : Under(new, food, s) =
                      IF Rules!eats(s, dir) THEN {Rules!head(s, dir)} ELSE {}
    BY <2>1, UnderTheSnake DEF RolloutInv
  <2> QED BY <2>2 DEF new
<1> QED BY <1>1, <1>2, <1>3, <1>4

\* A record of meals that ends before this turn stays in order when this
\* turn is appended.
LEMMA AppendMeal ==
    ASSUME NEW n \in Nat, NEW meals \in Seq(1 .. n),
           \A i, j \in DOMAIN meals : i < j => meals[i] < meals[j]
    PROVE  LET more == Append(meals, n + 1)
           IN /\ more \in Seq(1 .. n + 1) \ {<<>>}
              /\ Len(more) = Len(meals) + 1
              /\ \A i, j \in DOMAIN more : i < j => more[i] < more[j]
              /\ IsPrefix(meals, more)
<1> DEFINE more == Append(meals, n + 1)
<1>0. PICK l \in Nat : l = Len(meals)
  OBVIOUS
<1>1. /\ meals \in Seq(1 .. n + 1) /\ n + 1 \in 1 .. n + 1
      /\ DOMAIN meals = 1 .. l
  <2>1. 1 .. n \subseteq 1 .. n + 1
    OBVIOUS
  <2> QED BY <1>0, <2>1, SeqMonotonic
<1>2. /\ more \in Seq(1 .. n + 1) /\ Len(more) = l + 1
      /\ \A i \in 1 .. l : more[i] = meals[i]
      /\ more[l + 1] = n + 1
  BY <1>0, <1>1
<1> HIDE DEF more
<1>3. DOMAIN more = 1 .. l + 1 /\ more # <<>>
  BY <1>2
<1>4. \A i \in 1 .. l : meals[i] \in 1 .. n
  BY <1>0
<1>5. ASSUME NEW i \in 1 .. l + 1, NEW j \in 1 .. l + 1, i < j
      PROVE  more[i] < more[j]
  <2>1. CASE j = l + 1
    <3>1. i \in 1 .. l /\ more[j] = n + 1
      BY <1>2, <1>5, <2>1
    <3>2. more[i] \in 1 .. n
      BY <1>2, <1>4, <3>1
    <3> QED BY <3>1, <3>2
  <2>2. CASE j # l + 1
    <3>1. i \in 1 .. l /\ j \in 1 .. l
      BY <1>5, <2>2
    <3> QED BY <1>1, <1>2, <1>5, <3>1
  <2> QED BY <2>1, <2>2
<1>6. IsPrefix(meals, more)
  <2>1. SubSeq(meals, 1, l) \in Seq(1 .. n + 1) /\ SubSeq(more, 1, l) \in Seq(1 .. n + 1)
        /\ Len(SubSeq(meals, 1, l)) = l /\ Len(SubSeq(more, 1, l)) = l
        /\ \A i \in 1 .. l : SubSeq(meals, 1, l)[i] = meals[i]
                             /\ SubSeq(more, 1, l)[i] = more[i]
    BY <1>0, <1>1, <1>2
  <2>2. SubSeq(meals, 1, l) = SubSeq(more, 1, l)
    BY <1>2, <2>1, SeqEqual
  <2>3. Len(meals) <= Len(more) /\ SubSeq(meals, 1, Len(meals)) = SubSeq(more, 1, Len(meals))
    BY <1>0, <1>2, <2>2
  <2> QED BY <2>3 DEF IsPrefix
<1> QED BY <1>0, <1>2, <1>3, <1>5, <1>6 DEF more

\* The meals that a future has recorded of a snake so far.
LEMMA MealsSoFar ==
    ASSUME RolloutInv, NEW s
    PROVE  /\ Meals(s) \in Seq(1 .. turns)
           /\ \A i, j \in DOMAIN Meals(s) : i < j => Meals(s)[i] < Meals(s)[j]
<1>1. CASE s \in DOMAIN foodsEaten
  BY <1>1 DEF RolloutInv, FutureExact, MealsInOrder, Meals
<1>2. CASE s \notin DOMAIN foodsEaten
  <2>1. Meals(s) = <<>> /\ DOMAIN <<>> = {}
    BY <1>2 DEF Meals
  <2> QED BY <2>1
<1> QED BY <1>1, <1>2

\* updateFoodsEaten adds this turn's meal to the record of each snake that has
\* eaten and is left.
LEMMA RecordOfMeals ==
    ASSUME RolloutInv, NEW dir \in [DOMAIN bodies -> Direction], ApplyTurn(dir),
           foodsEaten' = UpdateFoodsEaten(bodies', food)
    PROVE  LET fed == {s \in DOMAIN bodies' : Rules!eats(s, dir)}
           IN /\ DOMAIN foodsEaten' = DOMAIN foodsEaten \cup fed
              /\ \A s \in DOMAIN foodsEaten' :
                    foodsEaten'[s] = IF s \in fed THEN Append(Meals(s), turns + 1)
                                     ELSE foodsEaten[s]
<1> DEFINE fed == {s \in DOMAIN bodies' : Rules!eats(s, dir)}
           under(s) == Under(bodies', food, s)
           entries(s) == [i \in 1 .. Cardinality(under(s)) |-> turns + 1]
<1>1. \A s \in DOMAIN bodies' :
        under(s) = IF Rules!eats(s, dir) THEN {Rules!head(s, dir)} ELSE {}
  BY TurnFacts
<1>2. ASSUME NEW s \in fed PROVE Meals(s) \o entries(s) = Append(Meals(s), turns + 1)
  <2>1. Cardinality(under(s)) = 1
    BY <1>1, FS_Singleton
  <2>2. turns \in Nat /\ Meals(s) \in Seq(Nat)
    <3>1. turns \in Nat /\ 1 .. turns \subseteq Nat
      BY DEF RolloutInv
    <3> QED BY <3>1, MealsSoFar, SeqMonotonic
  <2>3. entries(s) = <<turns + 1>>
    BY <2>1, <2>2
  <2> HIDE DEF entries
  <2> QED BY <2>2, <2>3
<1>3. {s \in DOMAIN bodies' : under(s) # {}} = fed
  BY <1>1
<1>4. foodsEaten' = [s \in DOMAIN foodsEaten \cup fed |->
                       IF s \in fed THEN Meals(s) \o entries(s) ELSE foodsEaten[s]]
  BY <1>3 DEF UpdateFoodsEaten
<1> HIDE DEF fed, entries
<1> QED BY <1>2, <1>4 DEF fed

\* Records are added and never revised: a snake that has died is never lost
\* again, and meals are appended.
LEMMA RecordsStep ==
    ASSUME RolloutInv, NEW dir \in [DOMAIN bodies -> Direction], ApplyTurn(dir),
           obituaries' = UpdateObituaries(bodies, bodies'),
           foodsEaten' = UpdateFoodsEaten(bodies', food)
    PROVE  /\ \A s \in DOMAIN obituaries :
                 s \in DOMAIN obituaries' /\ obituaries'[s] = obituaries[s]
           /\ \A s \in DOMAIN foodsEaten :
                 s \in DOMAIN foodsEaten' /\ IsPrefix(foodsEaten[s], foodsEaten'[s])
<1>1. \A s \in DOMAIN obituaries : s \notin DOMAIN bodies
  BY DEF RolloutInv, FutureExact, ObituariesAgree
<1>2. \A s \in DOMAIN obituaries :
        s \in DOMAIN obituaries' /\ obituaries'[s] = obituaries[s]
  BY <1>1 DEF UpdateObituaries
<1>3. ASSUME NEW s \in DOMAIN foodsEaten
      PROVE  s \in DOMAIN foodsEaten' /\ IsPrefix(foodsEaten[s], foodsEaten'[s])
  <2>1. Meals(s) = foodsEaten[s] /\ turns \in Nat
    BY DEF Meals, RolloutInv
  <2>2. IsPrefix(foodsEaten[s], Append(foodsEaten[s], turns + 1))
    <3>1. /\ Meals(s) \in Seq(1 .. turns)
          /\ \A i, j \in DOMAIN Meals(s) : i < j => Meals(s)[i] < Meals(s)[j]
      BY MealsSoFar
    <3>2. IsPrefix(Meals(s), Append(Meals(s), turns + 1))
      BY <2>1, <3>1, AppendMeal
    <3> QED BY <2>1, <3>2
  <2>3. IsPrefix(foodsEaten[s], foodsEaten[s])
    BY <2>1, MealsSoFar DEF IsPrefix
  <2> QED BY <2>1, <2>2, <2>3, RecordOfMeals
<1> QED BY <1>2, <1>3

\* After a turn every future still says exactly when each snake has eaten.
LEMMA MealsStep ==
    ASSUME RolloutInv, NEW dir \in [DOMAIN bodies -> Direction], ApplyTurn(dir),
           turns' = turns + 1,
           obituaries' = UpdateObituaries(bodies, bodies'),
           foodsEaten' = UpdateFoodsEaten(bodies', food)
    PROVE  FutureExact'
<1> DEFINE fed == {s \in DOMAIN bodies' : Rules!eats(s, dir)}
           lost == DOMAIN bodies \ DOMAIN bodies'
<1>0. turns \in Nat /\ TypeOK /\ FutureExact
  BY DEF RolloutInv, GameInv
<1>1. /\ DOMAIN foodsEaten' = DOMAIN foodsEaten \cup fed
      /\ \A s \in DOMAIN foodsEaten' :
            foodsEaten'[s] = IF s \in fed THEN Append(Meals(s), turns + 1)
                             ELSE foodsEaten[s]
  BY RecordOfMeals
<1>2. /\ DOMAIN obituaries' = DOMAIN obituaries \cup lost
      /\ \A s \in DOMAIN obituaries' :
            obituaries'[s] = IF s \in lost THEN turns + 1 ELSE obituaries[s]
  BY DEF UpdateObituaries
<1>3. /\ DOMAIN bodies' \subseteq DOMAIN bodies
      /\ \A s \in DOMAIN bodies' :
            /\ Len(bodies'[s]) = Len(bodies[s])
                                   + (IF Rules!eats(s, dir) THEN 1 ELSE 0)
            /\ Len(bodies[s]) \in Nat
  BY TurnFacts
<1>4. ASSUME NEW s
      PROVE  /\ Append(Meals(s), turns + 1) \in Seq(1 .. turns + 1) \ {<<>>}
             /\ Len(Append(Meals(s), turns + 1)) = Len(Meals(s)) + 1
             /\ Len(Meals(s)) \in Nat
             /\ LET more == Append(Meals(s), turns + 1)
                IN \A i, j \in DOMAIN more : i < j => more[i] < more[j]
  <2>1. /\ Meals(s) \in Seq(1 .. turns)
        /\ \A i, j \in DOMAIN Meals(s) : i < j => Meals(s)[i] < Meals(s)[j]
    BY MealsSoFar
  <2>2. Len(Meals(s)) \in Nat
    BY <2>1
  <2> QED BY <1>0, <2>1, <2>2, AppendMeal
<1> HIDE DEF fed, lost
<1>5. ObituariesAgree'
  <2>1. DOMAIN obituaries' = Snake \ DOMAIN bodies'
    BY <1>0, <1>2, <1>3 DEF FutureExact, ObituariesAgree, TypeOK, lost
  <2>2. ASSUME NEW s \in DOMAIN obituaries' PROVE obituaries'[s] \in 1 .. turns + 1
    <3>1. CASE s \in lost
      BY <1>0, <1>2, <3>1
    <3>2. CASE s \notin lost
      <4>1. s \in DOMAIN obituaries /\ obituaries'[s] = obituaries[s]
        BY <1>2, <3>2
      <4>2. obituaries[s] \in 1 .. turns
        BY <1>0, <4>1 DEF FutureExact, ObituariesAgree, Range
      <4> QED BY <1>0, <4>1, <4>2
    <3> QED BY <3>1, <3>2
  <2> QED BY <2>1, <2>2 DEF ObituariesAgree, Range
<1>6. MealsAgree'
  <2> SUFFICES ASSUME NEW s \in DOMAIN bodies'
               PROVE  Len(bodies'[s]) = StartLength + Len(Meals(s)')
    BY DEF MealsAgree
  <2>1. Len(bodies[s]) = StartLength + Len(Meals(s)) /\ StartLength \in Nat
    BY <1>0, <1>3, GameAssumption DEF FutureExact, MealsAgree
  <2>2. CASE s \in fed
    <3>1. Meals(s)' = Append(Meals(s), turns + 1)
      BY <1>1, <2>2 DEF Meals
    <3>2. Len(Meals(s)') = Len(Meals(s)) + 1 /\ Len(Meals(s)) \in Nat
      BY <1>4, <3>1
    <3>3. Len(bodies'[s]) = Len(bodies[s]) + 1
      BY <1>3, <2>2 DEF fed
    <3> QED BY <2>1, <3>2, <3>3
  <2>3. CASE s \notin fed
    <3>1. Meals(s)' = Meals(s)
      BY <1>1, <2>3 DEF Meals
    <3>2. Len(bodies'[s]) = Len(bodies[s])
      <4>1. ~Rules!eats(s, dir)
        BY <2>3 DEF fed
      <4>2. /\ Len(bodies[s]) \in Nat
            /\ Len(bodies'[s]) = Len(bodies[s])
                                   + (IF Rules!eats(s, dir) THEN 1 ELSE 0)
        BY <1>3
      <4> QED BY <4>1, <4>2
    <3> QED BY <2>1, <3>1, <3>2
  <2> QED BY <2>2, <2>3
<1>7. MealsInOrder'
  <2> SUFFICES ASSUME NEW s \in DOMAIN foodsEaten'
               PROVE  LET meals == foodsEaten'[s]
                      IN /\ meals \in Seq(1 .. turns + 1) \ {<<>>}
                         /\ \A i, j \in DOMAIN meals : i < j => meals[i] < meals[j]
                         /\ s \in DOMAIN obituaries' => Last(meals) < obituaries'[s]
    BY DEF MealsInOrder
  <2>1. CASE s \in fed
    <3>1. foodsEaten'[s] = Append(Meals(s), turns + 1)
      BY <1>1, <2>1
    <3>2. s \notin DOMAIN obituaries'
      BY <1>0, <1>2, <1>3, <2>1 DEF fed, lost, FutureExact, ObituariesAgree
    <3> QED BY <1>4, <3>1, <3>2
  <2>2. CASE s \notin fed
    <3> DEFINE meals == foodsEaten[s]
    <3>1. s \in DOMAIN foodsEaten /\ foodsEaten'[s] = meals
      BY <1>1, <2>2
    <3>2. /\ meals \in Seq(1 .. turns) /\ meals # <<>>
          /\ \A i, j \in DOMAIN meals : i < j => meals[i] < meals[j]
          /\ s \in DOMAIN obituaries => Last(meals) < obituaries[s]
      BY <1>0, <3>1 DEF FutureExact, MealsInOrder
    <3> HIDE DEF meals
    <3>3. meals \in Seq(1 .. turns + 1)
      <4>1. 1 .. turns \subseteq 1 .. turns + 1
        BY <1>0
      <4> QED BY <3>2, <4>1, SeqMonotonic
    <3>4. Last(meals) \in 1 .. turns
      <4>1. Len(meals) \in 1 .. Len(meals)
        BY <3>2
      <4>2. meals[Len(meals)] \in 1 .. turns
        BY <3>2, <4>1, ElementOfSeq
      <4> QED BY <4>2 DEF Last
    <3>5. s \in DOMAIN obituaries' => Last(meals) < obituaries'[s]
      <4>1. CASE s \in lost
        BY <1>0, <1>2, <3>4, <4>1
      <4>2. CASE s \notin lost
        BY <1>2, <3>2, <4>2
      <4> QED BY <4>1, <4>2
    <3> QED BY <3>1, <3>2, <3>3, <3>5
  <2> QED BY <2>1, <2>2
<1> QED BY <1>5, <1>6, <1>7 DEF FutureExact

\* The body moves on over the way it came, and is longer than the way.
LEMMA AnswerStep ==
    ASSUME RolloutInv, NEW dir \in [DOMAIN bodies -> Direction], ApplyTurn(dir),
           dir[Me] \in MyMoves, move' = ResultMove(dir[Me]),
           turns' = turns + 1, firstMoves' = firstMoves
    PROVE  AnswerLeadsHere'
<1> SUFFICES ASSUME Me \in DOMAIN bodies', turns + 1 \in 1 .. StartLength - 1
             PROVE  LET way(i) == bodies'[Me][turns + 2 - i]
                    IN /\ way(1) = CoordAfterMove(way(0), move')
                       /\ \A i \in 1 .. turns + 1 : i <= Len(firstMoves) =>
                             way(i) = CoordAfterMove(way(i - 1), firstMoves[i])
  <2>1. turns \in Nat /\ (turns + 1) + 1 = turns + 2
    BY DEF RolloutInv
  <2> QED BY <2>1 DEF AnswerLeadsHere
<1> DEFINE b == bodies[Me]
           m == bodies'[Me]
<1>1. turns \in Nat /\ StartLength \in Nat /\ Len(firstMoves) \in Nat
  BY GameAssumption DEF RolloutInv
<1>2. /\ Me \in DOMAIN bodies
      /\ Len(b) \in Nat /\ m[1] = CoordAfterMove(b[1], dir[Me])
      /\ \A i \in 2 .. Len(b) : m[i] = b[i - 1]
  BY TurnFacts
<1>3. Len(b) >= StartLength
  <2>1. Len(b) = StartLength + Len(Meals(Me)) /\ Len(Meals(Me)) \in Nat
    BY <1>2, MealsSoFar DEF RolloutInv, FutureExact, MealsAgree
  <2> QED BY <1>1, <2>1
<1>4. turns + 2 <= Len(b)
  BY <1>1, <1>2, <1>3
<1>5. turns # 0 => turns \in 1 .. StartLength - 1
  BY <1>1
<1>6. turns # 0 =>
        /\ b[turns] = CoordAfterMove(b[turns + 1], move)
        /\ \A i \in 1 .. turns : i <= Len(firstMoves) =>
              b[turns + 1 - i] = CoordAfterMove(b[turns + 2 - i], firstMoves[i])
  <2> SUFFICES ASSUME turns # 0
               PROVE /\ b[turns] = CoordAfterMove(b[turns + 1], move)
                     /\ \A i \in 1 .. turns : i <= Len(firstMoves) =>
                          b[turns + 1 - i] = CoordAfterMove(b[turns + 2 - i], firstMoves[i])
    OBVIOUS
  <2>1. LET way(i) == b[turns + 1 - i]
        IN /\ way(1) = CoordAfterMove(way(0), move)
           /\ \A i \in 1 .. turns : i <= Len(firstMoves) =>
                 way(i) = CoordAfterMove(way(i - 1), firstMoves[i])
    BY <1>2, <1>5 DEF RolloutInv, AnswerLeadsHere
  <2>2. /\ turns + 1 - 1 = turns /\ turns + 1 - 0 = turns + 1
        /\ \A i \in 1 .. turns : turns + 1 - (i - 1) = turns + 2 - i
    BY <1>1
  <2> QED BY <2>1, <2>2
<1> HIDE DEF b, m
<1>7. \A i \in 0 .. turns : m[turns + 2 - i] = b[turns + 1 - i]
  <2> SUFFICES ASSUME NEW i \in 0 .. turns
               PROVE  m[turns + 2 - i] = b[turns + 1 - i]
    OBVIOUS
  <2>1. turns + 2 - i \in 2 .. Len(b) /\ (turns + 2 - i) - 1 = turns + 1 - i
    BY <1>1, <1>2, <1>4
  <2> QED BY <1>2, <2>1
<1>8. m[turns + 1] = CoordAfterMove(m[turns + 2], move')
  <2>1. m[turns + 2] = b[turns + 1]
    BY <1>1, <1>7
  <2>2. CASE turns = 0
    BY <1>2, <2>1, <2>2 DEF ResultMove
  <2>3. CASE turns # 0
    <3>1. m[turns + 1] = b[turns]
      <4>1. 1 \in 0 .. turns /\ turns + 2 - 1 = turns + 1 /\ turns + 1 - 1 = turns
        BY <1>1, <2>3
      <4> QED BY <1>7, <4>1
    <3> QED BY <1>6, <2>1, <2>3, <3>1 DEF ResultMove
  <2> QED BY <2>2, <2>3
<1>9. ASSUME NEW i \in 1 .. turns + 1, i <= Len(firstMoves)
      PROVE  m[turns + 2 - i] = CoordAfterMove(m[turns + 2 - (i - 1)], firstMoves[i])
  <2>1. i - 1 \in 0 .. turns /\ turns + 1 - (i - 1) = turns + 2 - i
    BY <1>1
  <2>2. m[turns + 2 - (i - 1)] = b[turns + 2 - i]
    BY <1>7, <2>1
  <2>3. CASE i = turns + 1
    <3>1. turns + 2 - i = 1 /\ dir[Me] = firstMoves[i]
      BY <1>1, <1>9, <2>3 DEF MyMoves
    <3> QED BY <1>2, <2>2, <3>1
  <2>4. CASE i # turns + 1
    <3>1. i \in 1 .. turns /\ turns # 0
      BY <1>1, <2>4
    <3>2. m[turns + 2 - i] = b[turns + 1 - i]
      BY <1>7, <3>1
    <3> QED BY <1>6, <1>9, <2>2, <3>1, <3>2
  <2> QED BY <2>3, <2>4
<1>10. turns + 2 - 1 = turns + 1 /\ turns + 2 - 0 = turns + 2
  BY <1>1
<1> QED BY <1>8, <1>9, <1>10 DEF m

\* Every turn of a branch (Simulation::next) keeps the invariant.
THEOREM RolloutStep == RolloutInv /\ [PlayTurn]_rolloutVars => RolloutInv'
<1> SUFFICES ASSUME RolloutInv, [PlayTurn]_rolloutVars PROVE RolloutInv'
  OBVIOUS
<1>1. CASE UNCHANGED rolloutVars
  BY <1>1 DEF rolloutVars, vars, RolloutInv, GameInv, TypeOK, BodiesDisjoint,
              BodiesArePaths, cells, FoodFree, FutureExact, MealsAgree, Meals,
              MealsInOrder, ObituariesAgree, AnswerLeadsHere
<1>2. CASE PlayTurn
  <2>1. PICK dir \in [DOMAIN bodies -> Direction] :
          dir[Me] \in MyMoves /\ ApplyTurn(dir) /\ move' = ResultMove(dir[Me])
    BY <1>2 DEF PlayTurn
  <2>2. /\ turns' = turns + 1 /\ firstMoves' = firstMoves
        /\ obituaries' = UpdateObituaries(bodies, bodies')
        /\ foodsEaten' = UpdateFoodsEaten(bodies', food)
    BY <1>2 DEF PlayTurn
  <2>3. GameInv'
    BY <1>2, <2>1, GameStep DEF PlayTurn, Next, RolloutInv
  <2>5. FutureExact'
    BY <2>1, <2>2, MealsStep
  <2>6. AnswerLeadsHere'
    BY <2>1, <2>2, AnswerStep
  <2> QED BY <2>2, <2>3, <2>5, <2>6 DEF RolloutInv
<1> QED BY <1>1, <1>2

\* The invariant holds in every state of a branch.
THEOREM RolloutInvariance == RolloutSpec => []RolloutInv
BY RolloutInitInv, RolloutStep, PTL DEF RolloutSpec

\* In the simulated turns, too, bodies are paths on the board.
THEOREM RolloutPaths == RolloutSpec => []BodiesArePaths
<1>1. RolloutInv => BodiesArePaths
  BY DEF RolloutInv, GameInv
<1> QED BY <1>1, RolloutInvariance, PTL

\* What a future says of meals, deaths and lengths is what has happened.
THEOREM FuturesAreExact == RolloutSpec => []FutureExact
<1>1. RolloutInv => FutureExact
  BY DEF RolloutInv
<1> QED BY <1>1, RolloutInvariance, PTL

\* The moves a future is filed under are those that led to its state.
THEOREM AnswersLeadHere == RolloutSpec => []AnswerLeadsHere
<1>1. RolloutInv => AnswerLeadsHere
  BY DEF RolloutInv
<1> QED BY <1>1, RolloutInvariance, PTL

\* What a branch has recorded of a turn is not revised in a later one.
THEOREM Recorded == RolloutSpec => RecordsStand
<1> DEFINE Stand ==
      /\ \A s \in DOMAIN obituaries :
            s \in DOMAIN obituaries' /\ obituaries'[s] = obituaries[s]
      /\ \A s \in DOMAIN foodsEaten :
            s \in DOMAIN foodsEaten' /\ IsPrefix(foodsEaten[s], foodsEaten'[s])
<1>1. RolloutInv /\ [PlayTurn]_rolloutVars => [Stand]_rolloutVars
  BY RecordsStep DEF PlayTurn
<1> QED BY <1>1, RolloutInvariance, PTL DEF RolloutSpec, RecordsStand

-----------------------------------------------------------------------------
(* the map of now and the turns to come *)

\* The map that Map::update makes of some bodies, in any order.
LEMMA MapOfIs ==
    ASSUME NEW D, IsFiniteSet(D), NEW parts \in [D -> Body]
    PROVE  Marked(mapOf(parts), AllMarks({parts[s] : s \in D}))
<1> DEFINE R == {parts[s] : s \in D}
           n == Cardinality(R)
           seq == SetToSeq(R)
<1>1. R = Range(parts) /\ R \subseteq Body
  BY DEF Range
<1>2. IsFiniteSet(R)
  <2>1. parts \in Surjection(D, R)
    BY DEF Surjection
  <2> HIDE DEF R
  <2> QED BY <2>1, FS_Surjection
<1>3. n \in Nat /\ ExistsBijection(1 .. n, R)
  <2> HIDE DEF R
  <2> QED BY <1>2, FS_CardinalityType
<1> HIDE DEF R
<1>4. seq \in [1 .. n -> R] /\ IsInjective(seq)
  <2>1. PICK f : f \in Bijection(1 .. n, R)
    BY <1>3 DEF ExistsBijection
  <2>2. f \in [1 .. n -> R] /\ IsInjective(f)
    BY <2>1 DEF Bijection, Injection
  <2> QED BY <2>2 DEF SetToSeq
<1> HIDE DEF seq
<1>5. seq \in Surjection(1 .. n, R)
  <2>1. seq \in Injection(1 .. n, R)
    BY <1>4 DEF Injection
  <2>2. Cardinality(1 .. n) = n
    BY <1>3, FS_Interval
  <2> QED BY <1>2, <2>1, <2>2, FS_Injection
<1>6. \A b \in R : \E i \in 1 .. n : seq[i] = b
  BY <1>5 DEF Surjection
<1> HIDE DEF n
<1>7. Marked(VacatedMap(seq), UNION {MarksOf(seq[i]) : i \in 1 .. n})
  <2>1. seq \in [1 .. n -> Body]
    BY <1>1, <1>4
  <2> QED BY <1>3, <2>1, MapMarks
<1>8. {MarksOf(seq[i]) : i \in 1 .. n} = {MarksOf(b) : b \in R}
  BY <1>4, <1>6
<1>9. mapOf(parts) = VacatedMap(seq)
  BY <1>1 DEF mapOf, seq
<1> QED BY <1>7, <1>8, <1>9 DEF AllMarks, R

\* What a turn hands on from the bodies old of the snakes D to the bodies new of
\* the survivors E, with the maps of both, where g tells who grows.
HandedOn(D, old, E, new, g, was, now) ==
    /\ old \in [D -> Body]
    /\ E \in SUBSET D
    /\ new \in [E -> Body]
    /\ g \in [E -> {0, 1}]
    /\ Marked(was, AllMarks({old[s] : s \in D}))
    /\ Marked(now, AllMarks({new[s] : s \in E}))
    /\ \A s, t \in D : s # t => Range(old[s]) \cap Range(old[t]) = {}
    /\ \A s \in E : /\ Len(new[s]) = Len(old[s]) + g[s]
                    /\ \A i \in 2 .. Len(old[s]) : new[s][i] = old[s][i - 1]

\* In a cell that no head has come to, the count goes down by one, or stays
\* while the snake there grows, and is 0 when it is left.
LEMMA Forecast ==
    ASSUME NEW D, NEW old, NEW E, NEW new, NEW g, NEW was, NEW now,
           HandedOn(D, old, E, new, g, was, now),
           NEW c \in Cell, \A s \in E : new[s][1] # c
    PROVE  now[c] = IF \E s \in E : c \in Range(old[s]) /\ was[c] > 0
                      THEN was[c] - (IF \E s \in E : c \in Range(old[s]) /\ g[s] = 1
                                     THEN 0 ELSE 1)
                      ELSE 0
<1> USE DEF HandedOn
<1>h. /\ old \in [D -> Body]
      /\ E \in SUBSET D
      /\ new \in [E -> Body]
      /\ g \in [E -> {0, 1}]
      /\ \A s, t \in D : s # t => Range(old[s]) \cap Range(old[t]) = {}
      /\ \A s \in E : /\ Len(new[s]) = Len(old[s]) + g[s]
                      /\ \A i \in 2 .. Len(old[s]) : new[s][i] = old[s][i - 1]
  OBVIOUS
<1> DEFINE Old == {old[s] : s \in D}
           New == {new[s] : s \in E}
<1>0. /\ Marked(was, AllMarks(Old)) /\ Marked(now, AllMarks(New))
      /\ \A s \in D : old[s] \in Old
      /\ \A s \in E : new[s] \in New
      /\ \A b \in Old : \E s \in D : b = old[s]
      /\ \A b \in New : \E s \in E : b = new[s]
  OBVIOUS
<1> USE <1>h
<1> HIDE DEF HandedOn
<1> HIDE DEF Old, New
<1>1. now[c] \in Nat /\ was[c] \in Nat
  BY <1>0, MarkIsThere
<1>2. \A s \in D : /\ Len(old[s]) \in Nat /\ DOMAIN old[s] = 1 .. Len(old[s])
                   /\ Range(old[s]) = {old[s][i] : i \in 1 .. Len(old[s])}
  <2> SUFFICES ASSUME NEW s \in D
               PROVE /\ Len(old[s]) \in Nat /\ DOMAIN old[s] = 1 .. Len(old[s])
                     /\ Range(old[s]) = {old[s][i] : i \in 1 .. Len(old[s])}
    OBVIOUS
  <2>1. old[s] \in Seq(Cell)
    BY DEF Body
  <2>2. Len(old[s]) \in Nat /\ DOMAIN old[s] = 1 .. Len(old[s])
    BY <2>1
  <2> QED BY <2>2 DEF Range
<1>3. ASSUME NEW s \in D, NEW i \in 1 .. Len(old[s]), old[s][i] = c
      PROVE  /\ c \in Range(old[s])
             /\ Len(old[s]) - i <= was[c]
  <2>1. Len(old[s]) - i <= was[old[s][i]]
    BY <1>0, MarkCounts
  <2> QED BY <1>2, <1>3, <2>1
\* a mark that counts in the new map was there in the old one
<1>4. ASSUME now[c] > 0
      PROVE  \E s \in E : /\ c \in Range(old[s]) /\ was[c] > 0
                          /\ now[c] <= was[c] - 1 + g[s]
  <2>1. PICK b \in New : \E k \in 1 .. Len(b) : b[k] = c /\ now[c] = Len(b) - k
    <3>1. now[c] # 0
      BY <1>1, <1>4
    <3>2. Marked(now, AllMarks(New))
      BY <1>0
    <3> QED BY <3>1, <3>2, MarkIsThere
  <2>2. PICK s \in E : b = new[s]
    BY <1>0
  <2>3. PICK k \in 1 .. Len(new[s]) : new[s][k] = c /\ now[c] = Len(new[s]) - k
    BY <2>1, <2>2
  <2>4. Len(new[s]) = Len(old[s]) + g[s] /\ Len(old[s]) \in Nat /\ g[s] \in {0, 1}
    BY <1>2
  <2>5. k # 1 /\ k \in Int
    BY <2>3, <2>4
  <2>6. /\ k \in 2 .. Len(old[s]) /\ k - 1 \in 1 .. Len(old[s])
        /\ now[c] = Len(old[s]) - (k - 1) - 1 + g[s]
        /\ Len(old[s]) - (k - 1) > 0
    BY <1>1, <1>4, <2>3, <2>4, <2>5
  <2>7. old[s][k - 1] = c
    BY <2>3, <2>6
  <2>8. c \in Range(old[s]) /\ Len(old[s]) - (k - 1) <= was[c]
    BY <1>3, <2>6, <2>7
  <2>9. was[c] > 0 /\ now[c] <= was[c] - 1 + g[s]
    <3>1. PICK n \in Nat : n = Len(old[s])
      BY <2>4
    <3>2. /\ now[c] = n - (k - 1) - 1 + g[s]
          /\ n - (k - 1) > 0
          /\ n - (k - 1) <= was[c]
      BY <2>6, <2>8, <3>1
    <3> HIDE <1>h
    <3> QED BY <1>1, <2>4, <2>5, <3>2
  <2>10. s \in E /\ c \in Range(old[s])
    BY <2>2, <2>8
  <2> HIDE <1>h
  <2> QED BY <2>9, <2>10
\* and the other way round
<1>5. ASSUME NEW s \in E, c \in Range(old[s]), was[c] > 0
      PROVE  was[c] - 1 + g[s] <= now[c]
  <2>1. PICK b \in Old : \E i \in 1 .. Len(b) : b[i] = c /\ was[c] = Len(b) - i
    <3>1. was[c] # 0
      BY <1>1, <1>5
    <3>2. Marked(was, AllMarks(Old))
      BY <1>0
    <3> QED BY <3>1, <3>2, MarkIsThere
  <2>2. PICK t \in D : b = old[t]
    BY <1>0
  <2>3. PICK i \in 1 .. Len(old[t]) : old[t][i] = c /\ was[c] = Len(old[t]) - i
    BY <2>1, <2>2
  <2>4. t = s
    BY <1>3, <1>5, <2>3
  <2>5. Len(new[s]) = Len(old[s]) + g[s] /\ Len(old[s]) \in Nat /\ g[s] \in {0, 1}
    BY <1>2
  <2>6. /\ i + 1 \in 2 .. Len(old[s]) /\ i + 1 \in 1 .. Len(new[s]) /\ (i + 1) - 1 = i
        /\ Len(new[s]) - (i + 1) = was[c] - 1 + g[s]
    BY <1>1, <1>5, <2>3, <2>4, <2>5
  <2>7. new[s][i + 1] = c
    BY <2>3, <2>4, <2>6
  <2>8. Len(new[s]) - (i + 1) <= now[new[s][i + 1]]
    BY <1>0, <2>6, MarkCounts
  <2>9. now[c] >= was[c] - 1 + g[s]
    BY <2>6, <2>7, <2>8
  <2> HIDE <1>h
  <2> QED BY <1>1, <2>5, <2>9
<1>6. CASE \E s \in E : c \in Range(old[s]) /\ was[c] > 0
  <2>1. PICK s \in E : c \in Range(old[s]) /\ was[c] > 0
    BY <1>6
  <2>2. \A t \in E : c \in Range(old[t]) => t = s
    BY <2>1
  <2>3. was[c] - 1 + g[s] <= now[c] /\ g[s] \in {0, 1}
    BY <1>5, <2>1
  <2>4. now[c] > 0 => now[c] <= was[c] - 1 + g[s]
    BY <1>4, <2>2
  <2>5. now[c] = was[c] - 1 + g[s]
    BY <1>1, <2>1, <2>3, <2>4
  <2>6. (\E t \in E : c \in Range(old[t]) /\ g[t] = 1) <=> g[s] = 1
    BY <2>1, <2>2
  <2> QED BY <1>1, <1>6, <2>3, <2>5, <2>6
<1>7. CASE ~(\E s \in E : c \in Range(old[s]) /\ was[c] > 0)
  <2>1. ~(now[c] > 0)
    BY <1>4, <1>7
  <2> QED BY <1>1, <1>7, <2>1
<1> QED BY <1>6, <1>7

\* The map of now foretells the maps of the turns to come, in every turn of
\* every branch: the path search may judge arrivals by it (astar.cpp:96-105).
THEOREM Foretold == RolloutSpec => MapForetold
<1>1. ASSUME RolloutInv, RolloutInv',
             NEW dir \in [DOMAIN bodies -> Direction], ApplyTurn(dir)
      PROVE  MapCountsDown
  <2> DEFINE D == DOMAIN bodies
             E == DOMAIN bodies'
             old == bodies
             new == bodies'
             g == [s \in E |-> IF Rules!eats(s, dir) THEN 1 ELSE 0]
  <2>1. /\ old \in [D -> Body] /\ IsFiniteSet(D)
        /\ new \in [E -> Body] /\ IsFiniteSet(E) /\ E \in SUBSET D
    <3>1. /\ old \in [D -> Body] /\ D \subseteq Snake
          /\ new \in [E -> Body] /\ E \subseteq Snake
      BY <1>1 DEF RolloutInv, GameInv, TypeOK, Body
    <3>2. IsFiniteSet(D) /\ IsFiniteSet(E)
      BY <3>1, GameAssumption, FS_Subset
    <3>3. E \subseteq D
      BY <1>1, TurnFacts
    <3> QED BY <3>1, <3>2, <3>3
  <2>2. /\ g \in [E -> {0, 1}]
        /\ \A s \in E : /\ Len(new[s]) = Len(old[s]) + g[s]
                        /\ Len(old[s]) \in Nat
                        /\ \A i \in 2 .. Len(old[s]) : new[s][i] = old[s][i - 1]
    BY <1>1, TurnFacts
  <2>3. \A s, t \in D : s # t => Range(old[s]) \cap Range(old[t]) = {}
    BY <1>1 DEF RolloutInv, GameInv, BodiesDisjoint, cells
  <2> HIDE DEF g
  <2>4. \A s \in E : (Len(new[s]) > Len(old[s])) <=> g[s] = 1
    BY <2>2
  <2>5. \A s : cells(s) = Range(old[s])
    BY DEF cells
  <2> HIDE DEF D, E, old, new
  <2>6. /\ Marked(mapOf(old), AllMarks({old[s] : s \in D}))
        /\ Marked(mapOf(new), AllMarks({new[s] : s \in E}))
    BY <2>1, MapOfIs
  <2> DEFINE mapNow == mapOf(new)
             mapWas == mapOf(old)
  <2>7. ASSUME NEW c \in Cell, \A s \in E : new[s][1] # c
        PROVE  mapNow[c] = IF \E s \in E : c \in Range(old[s]) /\ mapWas[c] > 0
                      THEN mapWas[c] - (IF \E s \in E : c \in Range(old[s]) /\ g[s] = 1
                                     THEN 0 ELSE 1)
                      ELSE 0
    <3>1. HandedOn(D, old, E, new, g, mapWas, mapNow)
      BY <2>1, <2>2, <2>3, <2>6 DEF HandedOn
    <3> HIDE DEF mapNow, mapWas
    <3> QED BY <2>7, <3>1, Forecast
  <2> QED BY <2>4, <2>5, <2>7 DEF MapCountsDown, E, old, new
<1>2. RolloutInv /\ RolloutInv' /\ [PlayTurn]_rolloutVars => [MapCountsDown]_vars
  BY <1>1 DEF PlayTurn, rolloutVars
<1>3. RolloutSpec => [][MapCountsDown]_vars
  BY <1>2, RolloutInvariance, PTL DEF RolloutSpec
<1> QED BY <1>3 DEF MapForetold
=============================================================================
