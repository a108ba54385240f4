------------------------------ MODULE GameTurn ------------------------------
(***************************************************************************)
(* One turn of the simulated game: applyMoves of snakelib.cpp, which       *)
(* Simulation::next calls with a direction for every snake.  The snakes    *)
(* are worked through in the order of the world's vector; the vector is    *)
(* abstracted to a function from snakes to parts and the order in which    *)
(* the request listed them.                                                *)
(***************************************************************************)
EXTENDS Board, SequencesExt

CONSTANTS Snake,       \* snake ids
          NoSnake,     \* nullptr
          Me,          \* the snake the simulation is run for
          StartLength, \* stacked parts of a snake at the start of a game
          MaxFood      \* bound on the pieces of food on the board

ASSUME GameAssumption ==
    /\ IsFiniteSet(Snake)
    /\ Me \in Snake
    /\ NoSnake \notin Snake
    /\ MaxFood \in Nat
    /\ StartLength \in Nat /\ StartLength >= 2

VARIABLES order,   \* the order of world.snakes
          bodies,  \* parts of each living snake, head first
          food     \* world.food

vars == <<order, bodies, food>>

-----------------------------------------------------------------------------
(* applyMoves on a world w = [order, parts, dead, food] *)

MoveHeadsForward(w, dir) ==
    [w EXCEPT !.parts = [s \in DOMAIN w.parts |->
        <<CoordAfterMove(w.parts[s][1], dir[s])>> \o w.parts[s]]]

HeadOf(w, s) == w.parts[s][1]
LengthOf(w, s) == Len(w.parts[s])

\* the inner loop of eatFoodOrDie for one piece of food
MutantMeetAtFood(w, f, acc, s) ==
    IF HeadOf(w, s) # f THEN acc
    ELSE IF acc.best = NoSnake THEN [acc EXCEPT !.best = s]
    ELSE IF LengthOf(w, acc.best) > LengthOf(w, s)
      THEN [acc EXCEPT !.dead = @ \cup {s}]
    ELSE [best |-> s, dead |-> acc.dead \cup {acc.best}]
MeetAtFood(w, f, acc, s) ==
    IF HeadOf(w, s) # f THEN acc
    ELSE IF acc.best = NoSnake THEN [acc EXCEPT !.best = s]
    ELSE IF LengthOf(w, acc.best) > LengthOf(w, s)
      THEN [acc EXCEPT !.dead = @ \cup {s}]
    ELSE IF LengthOf(w, acc.best) = LengthOf(w, s)
      THEN [acc EXCEPT !.dead = @ \cup {s, acc.best}]
    ELSE [best |-> s, dead |-> acc.dead \cup {acc.best}]

ContestFood(w, f) ==
    FoldLeft(LAMBDA acc, s : MeetAtFood(w, f, acc, s),
             [best |-> NoSnake, dead |-> {}], w.order)

MutantDrawTail(parts, ate) ==
    IF ~ate THEN Front(parts)
    ELSE [parts EXCEPT ![Len(parts)] = parts[Len(parts) - 2]]
DrawTail(parts, ate) ==
    IF ~ate THEN Front(parts)
    ELSE IF Len(parts) < 2 THEN parts
    ELSE [parts EXCEPT ![Len(parts)] = parts[Len(parts) - 1]]

EatenFood(w, ate) == {HeadOf(w, s) : s \in ate}

Lost(w) == UNION {ContestFood(w, f).dead : f \in w.food}
JustAte(w) ==
    {ContestFood(w, f).best : f \in w.food} \ (Lost(w) \cup {NoSnake})

EatFoodOrDie(w) ==
    LET justAte == JustAte(w)
    IN [w EXCEPT
          !.dead = @ \cup Lost(w),
          !.parts = [s \in DOMAIN @ |-> DrawTail(@[s], s \in justAte)],
          !.food = @ \ EatenFood(w, justAte)]

\* the loop over headCells of markCrashersDead: acc.at is the snake that
\* headCells has in each cell
Put(at, c, s) == [d \in DOMAIN at \cup {c} |-> IF d = c THEN s ELSE at[d]]
MeetHeads(w, acc, s) ==
    LET other == acc.at[HeadOf(w, s)]
    IN IF HeadOf(w, s) \notin DOMAIN acc.at
         THEN [acc EXCEPT !.at = Put(@, HeadOf(w, s), s)]
       ELSE IF LengthOf(w, s) < LengthOf(w, other)
         THEN [acc EXCEPT !.dead = @ \cup {s}]
       ELSE IF LengthOf(w, s) = LengthOf(w, other)
         THEN [acc EXCEPT !.dead = @ \cup {s, other}]
       ELSE [at |-> Put(acc.at, HeadOf(w, s), s),
             dead |-> acc.dead \cup {other}]

MutantTailCells(w) ==
    UNION {{w.parts[s][i] : i \in 3 .. LengthOf(w, s)} : s \in DOMAIN w.parts}
TailCells(w) ==
    UNION {{w.parts[s][i] : i \in 2 .. LengthOf(w, s)} : s \in DOMAIN w.parts}

Crashed(w) == {s \in DOMAIN w.parts :
                 OutOfBounds(HeadOf(w, s)) \/ HeadOf(w, s) \in TailCells(w)}

MarkCrashersDead(w) ==
    LET heads == FoldLeft(LAMBDA acc, s : MeetHeads(w, acc, s),
                          [at |-> <<>>, dead |-> w.dead], w.order)
    IN [w EXCEPT !.dead = heads.dead \cup Crashed(w)]

\* the elements that stay, in their old order
Without(seq, gone) ==
    FoldLeft(LAMBDA kept, s : IF s \in gone THEN kept ELSE Append(kept, s),
             <<>>, seq)
RemoveDeadGuys(w) ==
    [w EXCEPT !.order = Without(@, w.dead),
              !.parts = [s \in DOMAIN @ \ w.dead |-> @[s]]]

ApplyMoves(w, dir) ==
    RemoveDeadGuys(MarkCrashersDead(EatFoodOrDie(MoveHeadsForward(w, dir))))

-----------------------------------------------------------------------------
World == [order |-> order, parts |-> bodies, dead |-> {}, food |-> food]

\* Every snake starts as a stack of parts in a cell of its own.
StartBodies ==
    {[s \in Snake |-> [i \in 1 .. StartLength |-> at[s]]] :
        at \in Injection(Snake, Cell)}

Init ==
    /\ order \in SetToSeqs(Snake)
    /\ bodies \in StartBodies
    /\ food \in UNION {kSubset(k, Cell) : k \in 0 .. MaxFood}
    /\ \A s \in Snake : bodies[s][1] \notin food

\* Simulation::next: any algorithm may choose any direction for its snake;
\* the simulation ends with the state in which its own snake is lost
ApplyTurn(dir) ==
    LET w == ApplyMoves(World, dir)
    IN order' = w.order /\ bodies' = w.parts /\ food' = w.food

Next ==
    /\ Me \in DOMAIN bodies
    /\ \E dir \in [DOMAIN bodies -> Direction] : ApplyTurn(dir)

Spec == Init /\ [][Next]_vars

-----------------------------------------------------------------------------
(* Properties *)

\* The vector lists each of the snakes once.
InOrder(seq, D) ==
    /\ seq \in Seq(D)
    /\ \A i, j \in DOMAIN seq : seq[i] = seq[j] => i = j
    /\ \A s \in D : \E i \in DOMAIN seq : seq[i] = s

TypeOK ==
    /\ DOMAIN bodies \subseteq Snake
    /\ bodies \in [DOMAIN bodies -> Seq(Cell)]
    /\ \A s \in DOMAIN bodies : Len(bodies[s]) >= 2
    /\ InOrder(order, DOMAIN bodies)
    /\ food \subseteq Cell /\ IsFiniteSet(food)

cells(s) == Range(bodies[s])

\* After a turn no two living snakes share a cell: head-on meetings, swaps
\* and crashes into a tail that moves or stays have all been settled by
\* eatFoodOrDie and markCrashersDead (snakelib.cpp:275-415).
BodiesDisjoint ==
    \A s, t \in DOMAIN bodies : s # t => cells(s) \cap cells(t) = {}

\* A body lies on the board, although heads wrap around on its left and upper
\* side, and is a path that meets itself only where parts are stacked at the
\* end: what Map::updateVacateTurnsForSnake and the path search rely on when
\* they read a part's index as the time until its cell is free.
IsPath(b) ==
    /\ Len(b) >= 2 /\ Range(b) \subseteq Cell
    /\ \A i \in 1 .. Len(b) - 1 : b[i] = b[i + 1] \/ IsAdjacent(b[i], b[i + 1])
    /\ \A i, j \in DOMAIN b :
          i < j /\ b[i] = b[j] => \A k \in i .. Len(b) : b[k] = b[i]
BodiesArePaths == \A s \in DOMAIN bodies : IsPath(bodies[s])

\* No snake lies on food: what lies under a snake after a turn is what its
\* head has just come to.
FoodFree == \A s \in DOMAIN bodies : cells(s) \cap food = {}

\* The invariant from which each of its parts, and the rules, follow after the
\* next turn.
GameInv == TypeOK /\ BodiesDisjoint /\ BodiesArePaths /\ FoodFree

\* Whatever the snakes do next, the outcome is the one the rules state, in
\* every order of the snakes in the vector: no snake lives, dies or eats
\* because of its place in it (snakelib.cpp:275-438).
Rules == INSTANCE BattleRules
TurnFollowsRules ==
    \A dir \in [DOMAIN bodies -> Direction] :
        LET w == ApplyMoves(World, dir)
        IN w.parts = Rules!BodiesAfter(dir) /\ w.food = Rules!FoodAfter(dir)

\* Every turn is one that the rules allow.
RuledTurns ==
    [][\E dir \in [DOMAIN bodies -> Direction] : Rules!Turn(dir)]_<<bodies, food>>
=============================================================================
