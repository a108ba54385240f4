# Verification of snakebot

TLA+ specifications of the Battlesnake bot in this repository, the TLC configurations that check them on small
instances, and proofs, checked by TLAPS, that hold for every value of the constants. The reference is the code: a
comment or a test that says something else is a finding (see "Where the code and its documentation differ").

1. [The system](#1-the-system) - its parts, their state, how they interact, what is hard, what makes them correct
2. [The modules](#2-the-modules) - how state and actions correspond to the code, and what was abstracted
3. [The runs](#3-the-runs) - what each shows, its bounds, its fairness
4. [Where the code and its documentation differ](#4-where-the-code-and-its-documentation-differ)
5. [The proofs](#5-the-proofs) - what is proved, from what, by which invariant
6. [What is only model-checked and what is not modelled](#6-what-is-only-model-checked-and-what-is-not-modelled)
7. [The plan](#7-the-plan) - what comes next and in which order

## 1. The system

Snakebot answers two requests of a game server: `/start`, once a game, and `/move`, once a turn with the whole world,
to be answered with a direction within a fraction of a second. There are two front ends (a C++ server under `nonode/`
and an express server, `index.js`, that loads the C++ code as a node addon) and two implementations of the game logic
(C++ under `napi/`, JavaScript under `util/` and `algorithms/`). The C++ algorithm `sim` is the interesting one: it
plays the game ahead on a pool of threads under many combinations of algorithms and takes the move whose worst future
is best.

    game server --HTTP--> nonode/server (io thread) --> dispatcher --+
                                                                     |
    game server --HTTP--> index.js (node thread) --> addon index.cpp-+--> Algorithm::start / move
                                    |                                          |
                                    +--> algorithms/*.js, util/*.js            v
                                                              Sim::move: dispatcher thread
                                          startWork, polling  |                | bestMove, scoreFuture
                                                              v                v
                                          SimThread x cores: runSimulationBranches -> Simulation::next
                                                  |                                   |
                                                  v                                   v
                                   Algorithm::move of every snake            GameState::newStateAfterMoves
                                   (shortestPath, closestFood, ...)          (applyMoves, Map)

| Component | Sources | State | Operations | Status |
|---|---|---|---|---|
| Simulation thread pool | `napi/simulator.{hpp,cpp}`, `SimThread`, `runSimulations` | the vector `instances`; per thread `_hasWork`, `_quit`, `_sleeping`, `_timeOfLastWork`, `_params`, `_result` | startAll, wakeAll, stopAll, startWork, done, result, spin | modelled: `SimThreadPool`, `MoveService` |
| Simulation rounds and bookkeeping | `napi/simulator.{hpp,cpp}`, `runSimulationBranches`, `Simulation` | rounds, set of completed simulations, `Future` of each | next, updateObituaries, updateFoodsEaten, coerceTerminationReason | modelled: `Rounds`, `Rollout` |
| Game turn | `napi/snakelib.cpp`, `applyMoves` | snakes, parts, food | four passes: heads forward, eat or die, crashes, removal | modelled: `GameTurn`, `BattleRules`, `Board`, `MCGameTurn` |
| Occupancy map | `napi/snakelib.{hpp,cpp}`, `Map`, `Cell` | turns until each cell is vacant, snake in each cell | update, turnsUntilVacant | partly: `Occupancy`, `MCRollout` |
| Path search | `napi/astar.cpp` | open and closed set, cameFrom, gScore, fScore, turns | shortestPath, reconstructPath | modelled: `AStar` |
| Accessible cells | `napi/snakelib.cpp`, `countAccessibleCells` | queue, visited set, count | one call | partly: `FloodFill` |
| Corner danger | `napi/snakelib.cpp`, `couldEndUpCornerAdjacentToBiggerSnake` | none | one call | modelled: `CornerCheck` |
| Scoring and choice of the move | `napi/simulator.cpp`, `scoreFuture`, `bestMove` | worst and best score of each key | one call | modelled: `BestMove` |
| One-direction opponents, perspective copies | `napi/algorithms/onedirection.cpp`, `GameState::perspective` | a static map, a map of copies | start, move; perspective | partly: `OneDirection`; the bias of a copy by `SizeIsExact` of `AStar` |
| Movement helpers and C++ algorithms | `napi/movement.cpp`, `napi/algorithms/` | none but a target pointer | notImmediatelySuicidalMoves, closestKillTunnelTarget, bestFood, closestFood, chaseTail, bestCutoff, ... | partly: `Movement`, `BestFood` |
| HTTP server | `nonode/server.{hpp,cpp}` | connections, parser state per connection, acceptor | accept, read, parse, write, stop | modelled: `HttpServer`, `HttpParser` |
| Request dispatcher, addon | `nonode/dispatcher.cpp`, `nonode/main.cpp`, `napi/index.cpp`, `napi/interop.cpp` | the chosen algorithm | JSON or JavaScript values to `World` | partly: answers or throws (`HttpServer`), start-up and shut-down order (`SimThreadPool`) |
| JavaScript game state | `util/game_state.js` | snakes, enemies, grid cache, map, world object | newStateAfterMoves, perspective | modelled: `JsGameState` |
| JavaScript simulator, search, algorithms, server | `util/*.js`, `algorithms/*.js`, `index.js` | the current state, obituaries and meals of a branch | simulate, runSimulations, bestMove, ... | partly: `JsRollout`, `BestFood` |
| Tests, benchmarks, vendored JSON library | `napi/test`, `napi/benchmark`, `test/`, `nonode/json.hpp` | - | - | not part of the program |

### How the parts interact

* **Dispatcher thread and simulation threads** share the members of `SimThread` and nothing else: no lock, no atomic,
  four `volatile bool`s. `startWork` assigns `_params` and then raises `_hasWork`; the thread computes, stores
  `_result` and then lowers `_hasWork`; the dispatcher polls until no flag is up and reads the results. Everything
  else a thread uses (the initial state, the algorithm objects) lives on the stack of `Sim::move` and is used through
  references.
* **Sleep** makes an idle thread look for work less often. It is entered by the thread itself and left by the thread or
  by `wakeAll`, from the dispatcher.
* **A branch** is a pair of algorithms with their prefixes. A thread plays all its branches in rounds, so the branches
  of one thread share its clock and its count of turns.
* **A simulated turn** asks an algorithm for every snake, applies all moves to a copy of the state, and compares the
  two states to find out who died and who ate. The algorithms read the new state through its map: the number of turns
  until each cell is vacant.
* **The choice** reads the futures' moves, obituaries and meals, and asks the real state how much room each direction
  has (`countAccessibleCells`) and whether it leads into a corner danger.

### What is hard here, and what makes each part correct

Every hazard is listed with its line and the properties about it in `PROJECT.json`. In short:

* **Pool.** Interleavings of the spin loops with the hand-over, with waking, with stopping and with their own
  construction (the thread is running before `_sleeping` and `_timeOfLastWork` are initialised). Correct means: a move
  gets the future of each of its branches once and nothing else; what a thread reads is not assigned meanwhile; results
  are read when stored; every move is answered; stopping joins everybody.
* **Rounds.** A clock that runs out in the middle of a round, and loops that end on the size of a set. Correct means:
  futures of equal length but for one turn, no future without a move, an overrun of at most a turn, reasons that are
  true, an end.
* **Turn.** Heads, food and tails are settled in sequence, pairwise, in the order of a vector, on unsigned
  coordinates. Correct means: the outcome is the one the rules state without any order.
* **Bookkeeping.** Deaths and meals are inferred from two states afterwards. Correct means: the inference agrees with
  what happened.
* **Search.** Predecessors change while arrival turns are remembered; border indices belong to other rows; the walk back
  has no bound. Correct means: paths are walks the snake can make at the turns they say, no longer than need be, and
  the search ends.
* **Accessible cells.** A cell is marked before it is known whether it is free. Correct means: what is counted can be
  reached in time; what is free and near is counted; once.
* **Corner.** One diagram typed out four times. Correct means: the four are rotations of each other.
* **Choice.** Life, food, kills and a preference are added into one number and compared across hash maps. Correct means:
  the maximin choice whatever the order, and life first.
* **One-direction opponents.** A static map, shared by all simulation threads without a lock and keyed by a number that
  each thread counts for itself. Correct would mean: an opponent's memory is its own.
* **HTTP server.** Requests come in pieces and end where their braces match; a signal closes everything between the
  completion of an operation and its handler. Correct means: the dispatcher is asked what was sent, a client that stays
  is answered, no socket is forgotten, a stop ends the server.
* **Map and turns to come.** The search looks at the map of now for all turns to come. Correct means: the map of the next
  turn is the one foretold, also after deaths and meals.
* **Moves around the head.** A move is judged by the map of now although all snakes move at once. Correct means: what is
  called suicidal is, what is called safe is, whatever the others do.
* **Food.** Two nested loops over sorted lists stop early. Correct means: nothing that is better is missed.
* **Kill tunnel.** A walk along the only open way, which may turn back and go to and fro. Correct means: it ends, at an
  open cell.
* **JavaScript state.** Snakes move one after another, the dead are removed in the middle of the turn and three caches
  follow each step. Correct means: the outcome is that of the rules, and the caches are those of the outcome.

No property is about the target that `InYourFace` keeps from the initial state (`sim.cpp:69`), which costs quality of play
only, nor about an exception of the handler (`server.cpp:53`), which ends the server: the model has that step and the
properties allow for it.

## 2. The modules

Who extends whom (`A` <- `B`: `B` extends `A`):

    Board <- GameTurn <- Rollout                           Rollout, Occupancy               <- MCRollout
    Board <- BattleRules (instance of GameTurn)            GameTurn, Movement, JsGameState  <- MCGameTurn
    Board <- Occupancy <- Movement, CornerCheck            CornerCheck, Movement, BestFood  <- MCPositions
             Occupancy <- JsGameState <- JsRollout         JsRollout                        <- MCJsRollout
    Board <- AStar, FloodFill                              AStar, Occupancy                 <- MCAStar
    HttpParser <- HttpServer                               FloodFill, Occupancy             <- MCFloodFill
    SimThreadPool, OneDirection, BestMove,                 BestMove, Rounds                 <- MCDecision
      Rounds, BestFood stand alone                         HttpServer                       <- MCHttpServer

Some questions share a run, with a behaviour about one of them: the rounds and the choice in `MCDecision`, the checks on a
position and the race for food in `MCPositions`. `SimThreadPool` instantiates
`MoveService` as what it implements and `GameTurn` instantiates `BattleRules`. The theorems are in modules of their own:

    SimThreadPool <- SimThreadPool_proofs        AStar, MCPositions, Induction       <- Positions_proofs
    FloodFill     <- FloodFill_proofs            MCGameTurn, Induction               <- GameTurn_proofs
    HttpServer, Induction <- HttpServer_proofs   MCRollout, GameTurn_proofs          <- Rollout_proofs
    BestMove, Rounds      <- Decision_proofs     SequencesExt, WellFoundedInduction  <- Induction

`Induction` has no part of the program in it: it is what the proofs need to reason about loops. Definitions named
`Mutant...` are plausible mistakes in the definition that follows each; no run uses them: `PROJECT.json` names the
property each of them breaks when it is put in place.

### MoveService and SimThreadPool

`MoveService` is the promise: a call of `runSimulations` simulates each branch of its move once and then returns the
futures of exactly those branches; a call that was made is answered.

`SimThreadPool` is the code. The variables `hasWork`, `quit`, `sleeping`, `result`, `params` are the members of
`SimThread`, indexed by thread; `instances` is the size of the static vector; `tpc` and `dpc` say where each simulation
thread is in `spin()` and where the dispatcher is in `startAll`, `wakeAll`, `runSimulations` or `stopAll`. Each step
reads or writes one shared flag: `TestQuit`, `TestHasWork`, `BeginWork` (the wake-up before the work), `SimulateBranch`,
`StoreResult`, `ClearHasWork`, `StampTime`, `TestIdle`, `FallAsleep` for a simulation thread; `SpawnThread`,
`FinishConstructor`, `WakeThread`, `WriteParams`, `RaiseHasWork`, `PollThread`, `PollAgain`, `CollectResult`,
`KillThread`, `JoinThread`, `ClearInstances` and the returns of the loops for the dispatcher. Choices made:

* Accesses happen in program order. C++ gives `volatile bool` no ordering between threads; x86-64, for which the
  program is built, keeps stores in order and loads in order, and the accesses in question are to volatile objects,
  between which the compiler may not move others of the kind. The assignments of `_params` and `_result` are calls of
  out-of-line container code and are taken to stay where they are written.
* Time is a bit per thread, `longIdle`: has `SECONDS_OF_NO_WORK_UNTIL_SLEEP` passed? It may turn true at any moment;
  how long a sleep lasts is not modelled.
* The thread starts in the constructor's member initialiser, before `_timeOfLastWork` and `_sleeping` have values:
  `SpawnThread` gives both any value, `FinishConstructor` overwrites them.
* A future is its move and branch: enough to tell a lost, a doubled and a stale one apart. `params` keeps the move's
  number, so that work for an earlier move can be told from current work.
* `branchIndex++ % threads` with no threads is undefined behaviour that ends the process on x86-64: `CrashOnMove`.
* The dispatcher handles one request at a time: one io thread, or node's main thread. `stopAll` is called when it is
  between requests: after `server::run` returns, or from `terminate`.

### Rounds

`runSimulationBranches` as one thread executes it: `BeginRound`, `PlayTurn` or `SkipCompleted` for each simulation,
`EndRound`, `LeaveRounds`, `CoerceReasons`. `TimePasses` may happen between any two steps; the clock is read when a turn
is played. The game in a branch is reduced to whether the turn was lost. `late` is a history variable, the turns a
branch has played since the limit. The names `RoundsInit`, `RoundsNext`, `roundsVars` and `phase` leave the plain ones
to `BestMove`, with which it shares a run.

### Board, GameTurn, BattleRules

`Board` has the geometry of `snakelib.hpp`. Coordinates are `uint32_t`; `CoordMod` stands for 2^32, which TLC's
integers do not reach, and is assumed only to be larger than the board by more than one: what matters is that a wrapped
coordinate is off the board and is not next to it.

`GameTurn` is `applyMoves`: `MoveHeadsForward`, `EatFoodOrDie`, `MarkCrashersDead`, `RemoveDeadGuys`, one after another
on a world with an order of the snakes (the vector), their parts, the dead flags and the food. The passes fold over that
order exactly as the loops do, including that a dead snake still meets and blocks others until it is removed. One action,
`ApplyTurn`, is one turn with any direction for every snake: the algorithms are left open, so whatever they answer is
included. Health is not changed by `applyMoves` and is left out.

`BattleRules` states the same turn without an order: who wins a cell, who eats, who survives.

`MCGameTurn` looks at the positions of such games through `Movement` and plays the same turns in `JsGameState`.

### Rollout

Extends `GameTurn` with what `Simulation::next` keeps: the prefix of first moves, the move of the result, turns,
obituaries, meals. `At` is the answer of `Map::getSnake` after `Map::update`, in which a snake's last part leaves no
mark.

### Occupancy, AStar, FloodFill, CornerCheck

`Occupancy` is the map: the turns until each cell is vacant, filled snake after snake with `Vacate`, the maximum.

`AStar` is `shortestPath` on a given map: one `Expand` is a turn of the while loop with all its neighbours, and
`ReachGoal`, `WalkBack`, `ReturnPath` are `reconstructPath`. Among cells of equal score the code takes the first in hash
order or by axis bias; the model takes any. `fScore` is `gScore` plus a distance wherever the code sets it, so it is an
operator. A goal off the board (`aim`) is looked up by its index, which may be that of a cell of a neighbouring row
(`GoalCell`), and the distance to it is taken from its own coordinates. The module also says what a search ought to find,
without scores or sets of open cells: `SafeWave` spreads from the start, a cell a turn, and `RiskyWave` goes on from the
cells next to a bigger snake's head to those that the first never comes to. `MCAStar` makes the searches from real
positions.

`FloodFill` is `countAccessibleCells`, one entry of the queue a step: `PassOver`, `FindOccupied`, `CountCell`. `arrival`
is a history variable, the turn at which each cell was counted. `MCFloodFill` makes the calls from real positions.

`CornerCheck` is `couldEndUpCornerAdjacentToBiggerSnake`, with the points of its four cases as they are typed, modulo
`CoordMod`.

### Movement and BestFood

`Movement` has the helpers that look at the cells around a head, as operators on a view: my parts, the parts of each
enemy, the map. `IsCellOk`, `IsCellSafe` and `IsCellRisky` make the three sets of moves; `TunnelWalk` is the loop of
`closestKillTunnelTarget` for one enemy, with its bound of width times height: of the open ways it keeps the last it looks
at, in `LookingOrder`, and `lastDirection` stays (`LastWay`) when none is open.

`BestFood` is `bestFood`, one food or one enemy a step: `LookAtEnemies`, `PassOver`, `StopLooking` for the outer loop,
`EnemyLoses`, `EnemyWins`, `TakeFood` for the inner one. Positions are reduced to what it compares, a distance and a path
length from each head to each food. That a path is no shorter than the distance is an assumption here and a theorem of
`AStar` (`PathsCoverDistance`). Between equal distances `std::sort` decides, so the model takes either.

### JsGameState and JsRollout

`JsGameState` is the state of `util/game_state.js` as a record, and its turn as operators in the order of the code:
`MoveSnake` for each (whether the way is free is asked of the old map), `RemoveSnake` at once for the dead, which makes all
caches again (`BuildCaches`, which appends the others to the enemies once more), `IncrementalUpdate` and `MoveInGrid` for
the others, then `HeadOnCollisions`. Where the code reads a property of `undefined`, `threw` is set. The record holds
`enemies` with its order and duplicates.

`JsRollout` is `simulate`, one turn of a branch a step, with its obituaries, meals and reason. The directions are open, but
a snake that is listed among the enemies without being on the board makes its algorithm throw (`AsksTheDead`).

### BestMove

`bestMove` with `scoreFuture`: `ConsiderFuture` and `SkipFuture` are a turn of the loop over the futures, `Decide` the
rest. `worst` and `best` are the two hash maps; they keep the source future, from which score and direction follow. A
future is reduced to what the score reads of it: its key, first move, turns, when the snake itself dies and first eats,
and what the deaths of others add up to. The situation holds what is read of the real state, with the accessible cells
and the corner danger as parameters: `FloodFill` and `CornerCheck` are about those. The hash order decides only between
equal scores, so the choice among the highest is open. Three things that are easily overlooked in the code:

* A future without a meal counts as starving at the present health, however long it was (`nextFood` is 1000).
* The bonus lifts a future into a bad corner, worth 1000, to exactly 1500, at which the bot no longer "takes its
  chances".
* Without any future that has a move, `directionScoreToString` follows a null pointer (`DecideWithoutFuture`), in spite
  of the comment on line 638. `NoZeroMoveFuture` of `Rounds` is why this cannot happen.

### OneDirection

`OneDirection::move` as the simulated opponents call it: each thread goes through its branches and their opponents turn
by turn (`NextCall`), and each access to the static map is a step: `FindKey`, `EnsureKey`, `FindBlocked`. Whether the
way is free, and who dies, is open. The key is the branch id plus 100000; the game id is the same throughout.
`cautious` and `relapsed` are history variables of the simulations of one move. Unlocked access to a hash map from two
threads is undefined behaviour; the model takes the outcome most favourable to the code, in which accesses take effect
one after the other, and finds the property violated even so.

### HttpParser and HttpServer

`HttpParser` is `request_parser`, a symbol for each word or character that its states tell apart; the eight states
for the letters and digits of the version are one. `Arcs` is the table that the `switch` of `consume` amounts to,
`ConsumeBody` its last case. `parse` looks at nothing after the end of a request.

`HttpServer` is the io thread. An operation of asio is `waiting` until the kernel, a client or a `close()` gives it an
outcome; then its handler is queued and runs at some later time (`HandleAccept`, `HandleSignal`, `HandleChunk`,
`HandleReadError`, `HandleWritten`, `HandleAborted`). What happens to asio's operations is external: `AcceptClient`,
`FailAccept`, `ReceiveChunk`, `SendReply`, `NoticeLoss`, `RaiseSignal`. `close()` gives `operation_aborted` to what is
waiting and leaves alone what was completed; an operation started on a closed socket fails with another error, and its
handler removes the connection (`Stop`). A handler of the dispatcher either answers or throws (`Throws`); an exception
leaves `run()`, and `main.cpp` ends the process. `handled` is a history variable. The game logic takes no time here:
`SimThreadPool` is about the move itself, during which the io thread runs nothing else.

What the parser does not do is part of the model too: a body ends where its braces match, also when they stand in a
string or the body begins with another character. `WholeRequest` and `RequestsAnswered` are about the requests it
recognises (`recognised`); the run has one that it does not, whose cut body is no JSON and ends the server.

## 3. The runs

| Run | Configuration | Instance | Checked |
|---|---|---|---|
| `pool` | `SimThreadPool.cfg` | 2 threads, 3 branches, 2 moves | `FuturesExact`, `ParamsStable`, `ResultReadWhenStored`, `AwakeWhileSimulating`, `StoppedAfterJoin`, `StopTerminates`, `ImplementsService` |
| `pool_restart` | `SimThreadPool_restart.cfg` | the same, 1 move | violated: `MoveNeedsNoStart` |
| `turn` | `GameTurn.cfg` | 3 snakes of 3 parts, 3x2 board, 1 food | `BodiesDisjoint`, `TurnFollowsRules`, `MovesJudgedRight`, `JsTurnFollowsRules`, `JsCachesFresh` |
| `js_rollout` | `JsRollout.cfg` | 3 snakes of 3 parts, 3x2 board, 1 food | violated: `DeadAreNoEnemies` |
| `rollout` | `Rollout.cfg` | 2 snakes of 3 parts, 3x3 board, 2 food, 4 turns | `BodiesArePaths`, `FutureExact`, `AnswerLeadsHere`, `RecordsStand`, `MapForetold` |
| `decision` | `Decision.cfg` | 3 branches, 3 turns; 3 keys, up to 3 futures | `Lockstep`, `NoZeroMoveFuture`, `BoundedOverrun`, `ReasonsHonest`, `Terminates`; `ChoiceIsMaximin`, `LifeComesFirst` |
| `astar` | `AStar.cfg` | 4x3 board, snakes of 3 and 2 or 3 parts, goals on and off the board | `ArrivalsSafe`, `PathIsLegal`, `OpenCellsScored`, `SizeIsExact`, `AvoidsDanger`, `Terminates` |
| `flood_fill` | `FloodFill.cfg` | 4x3 board, snakes of 3 and 3 or 4 parts | `CountSound`, `CountComplete`, `Terminates` |
| `positions` | `Positions.cfg` | 5x5 board, snakes of 3 and 2 or 4 parts; 3 food and 1 enemy, 1 food and 2 enemies | `ZoneWatched`, `KillTargetIsOpen`, `BestFoodIsBest` |
| `corner_left` | `Positions_left.cfg` | the same | violated: `LeftZoneWatched` |
| `one_direction` | `OneDirection.cfg` | 2 threads, 1 branch each, 1 opponent, 2 turns | violated: `CautiousForGood` |
| `http_server` | `HttpServer.cfg` | 2 clients, 4 requests of one and 1 of the other | `WholeRequest`, `NothingIsLeftOpen`, `RequestsAnswered`, `StopTerminates` |

What they show, and why the bounds are enough:

* **`pool`.** Three branches on two threads give one thread two of them and the other one; two moves bring stale flags,
  params and results of an earlier move into play; start, move and stop may come in any order, the pool may be started
  early (the addon) or by the first start (the C++ server). Deadlock is checked: only a process that has ended stops.
  Larger pools are covered by the proofs, except for the two liveness properties. `ImplementsService` is the refinement
  of `MoveService`, with its liveness: every move is answered.
* **`turn`.** Three snakes are the fewest for a three-way meeting and for a meeting of two over food next to a third;
  all orders of the vector are explored, and the two snakes that are not mine are symmetric: no property names them. They
  start as games do, all parts on one cell, and unfold, eat and die until no new state appears: the run has no bound on
  turns. `TurnFollowsRules` compares each turn with `BattleRules`. `MovesJudgedRight` compares what `Movement` says of
  my four moves with all turns that can follow. `JsTurnFollowsRules` and `JsCachesFresh` play each of these turns in
  `JsGameState`; the first leaves out three heads in one cell (where the code may throw) and two over food (where lengths
  count the meal of the first to move), the second stacked parts and the grid's cell of a head that has come to where the
  end of a tail was, its own or, when a snake has died between the two moves, another's. The latter takes four snakes: one
  to die between two moves, neither of them mine. The run has three, the proof (`JsCaches`) any number. Section 4 lists
  these.
* **`js_rollout`.** Three snakes are the fewest of which two can die in a turn before my own.
* **`rollout`.** Four turns let two stacked snakes unfold, grow twice and meet; `CoordMod` 8 leaves wrapped coordinates
  off the board. `FutureExact` relates the result to history-free facts of the two states; the branches have no prefix
  or one of two moves. `MapForetold` compares the maps before and after each turn, with deaths and meals in it.
* **`decision`.** The rounds: three branches are enough for the limit to pass in the middle of a round with branches on
  both sides; three turns for a first, a middle and a last round. The clock may stop the simulations at any moment or
  never. The choice: deaths at 0 (never), 9, 12 and 15, meals at 0 (never) and 5, health 13 and 100, room 12 and 20 for a
  length of 16, corner and preference: scores on both sides of every comparison, ties included. Three futures are enough
  for two of one key and one of another, in every order.
* **`astar`.** A 4 by 3 board has corners, borders and an interior. My head lies in one quarter of it (the middle row
  included); for goals on the board the rest is symmetric but for the order of neighbours, which the model leaves open.
  The snakes can wall each other in, so that cells open up while the search goes on; goals may be occupied, out of reach,
  or off the board next to the enemy's head, as `bestCutoff` asks for them. The costs are scaled down (`VeryHighCost` 100,
  `InfinityCost` 1000), keeping their order relative to any path length. `MaxIterations` is 20, more than the board has
  cells: the code's own limit, 10000, does not bite on boards of fewer cells either. `CoordMod` 2048 keeps wrapped
  coordinates and indices apart from the board and the costs. `SizeIsExact` compares with the waves: a search finds a path
  exactly if a wave comes to the goal, and one as short as the wave's. `AvoidsDanger` says which wave: the first, whenever
  it comes there at all. For boards, costs and bounds of other sizes see section 5.
* **`flood_fill`.** On 4 by 3 cells the indices of points off the board fall on other cells in both directions. Starts
  off the board are included.
* **`positions`.** Five by five is the smallest board on which the danger zone lies inside with room around it;
  smaller distances to the border occur as well. `CoordMod` 16. Enemies of 2 and 4 parts are small enough to eat and too
  big; the kill tunnel starts at the head of either. The races are small because the loops only compare: two distances,
  no path, a straight one or one with a detour, for three foods and one enemy, and for one food and two enemies, longer or
  not.
* **`http_server`.** Two connections are enough for one to be accepted, read or stopped while the other is anywhere. One
  client's requests are cut after every ninth symbol, which falls into a header, between header and body, into the body
  and between nested braces; the parser keeps all its state from symbol to symbol, so further cuts add nothing. All of it
  may also come at once, which makes this run check the hypothesis `Understood` of the theorem `WholeRequests`. The
  requests are a move with nested objects, a start with a brace in a string, a GET with a continued header and something
  after it, and one that is malformed. The other client sends a move in one piece. Accepts may fail for ever.

Fairness. In `SimThreadPool` each thread that can take a step of its program eventually does: `WF(Drive)` for the
dispatcher and `WF(Spin(t))` for each simulation thread. The operating system schedules every thread, each loop of
`spin()` yields or sleeps for a bounded time and the polling loop yields. Requests and the passing of the idle limit are
owed to nobody. In `Rounds` the thread goes on (`WF_roundsVars(Run)` in `MCDecision`) while nothing is assumed of the
clock. `AStar` and
`FloodFill` are sequential loops: `WF(Next)`. In `HttpServer` queued handlers run in the order of their completions, so
each runs in the end: weak fairness of each connection's handlers, of the accept handler and of the signal handler with
the return of `run()`. Of clients it is assumed only that one that is not in the state `left` goes on sending and
receiving; `Leave` may happen at any time, and stands for a client that stalls as well.

Deadlock checking is off where the system is meant to stop: after the last round, search, count, decision or answer about
a position, when the game or the bound on turns is over, when the server has been stopped, after the last simulated turn
of `one_direction`.

## 4. Where the code and its documentation differ

* **A move before any start** (`pool_restart`). `simulator.cpp:384` takes a remainder by the number of threads, which is
  zero until the first `/start` when the C++ server was restarted in the middle of a game. `onedirection.cpp:74-75`
  expects such restarts.
* **The corner check going left** (`corner_left`). Two of the destination points of the diagram in
  `snakelib.cpp:505-506` are mistyped at line 637: `pz` and `ps` are other points of the zone, and in the two bottom
  rows a danger is never seen. The three other directions are right.
* **Opponents that forget** (`one_direction`). `onedirection.cpp:66` wants an opponent that has finished to stay
  cautious, but threads share its entry: one thread's `_finishMap[key] = false` on line 76 undoes another's `true`. The
  entry is shared besides by all opponents of a branch and by later moves, so that an opponent may be cautious without
  having been blocked, although `simulator.cpp:262-264` wants them treated as their own instances.

* **The dead stay enemies** (`js_rollout`). `game_state.js:307` says an enemy that died is removed from `enemies`. But
  `_removeSnake` then calls `_buildCaches` (line 326), which pushes all living enemies into the list again. When a second
  snake dies in the turn, only one of its two entries goes. The next turn asks its algorithm for a move, which throws, and
  the request fails; `isWin` is false with nobody left; and a survivor that is listed twice moves twice.

Smaller observations, without a run:

* `wakeUp` leaves `_timeOfLastWork` alone, so that a thread that was idle for long sleeps again right after `wakeAll`
  (`sim.cpp:38-39` wants it awake); this costs latency and no answer.
* `bestCutoff` "only" targets empty cells next to the enemy's head (`inyourface.cpp:47`), but cells off the board count as
  empty and their indices are those of cells in neighbouring rows: the path leads there. It is legal all the same.
* `getSnakeToAnnoy` calls closest what is shortest (`inyourface.cpp:100`).
* The kill tunnel's walk may turn back and go to and fro until its bound; its target is open still.
* The count of `countAccessibleCells` may be lower than the room there is: a cell reached too early is never tried again.
* JavaScript: a head-on meeting of three throws (`game_state.js:233`); of two that meet over food the first to move has
  eaten before lengths are compared; `incrementalUpdate` counts a cell down once for each part stacked in it; a head that
  follows its own tail has its grid cell cleared by the tail's end, and so, with four snakes, has a head that comes to the
  end of another's tail: if a snake dies before that tail moves on, `_buildCaches` may write the tail over the head, and
  the tail then clears the cell; with no simulated turn `bestMove` groups by a move that
  is `undefined`.

## 5. The proofs

Every theorem holds for all values of the constants that satisfy the `ASSUME`s of the modules it is about. These are
(`BoardAssumption`, in `Board`, belongs to each that has a board: it is not empty and the coordinate type is larger than it
by more than one):

| Module | Theorems | Assumptions on the constants |
|---|---|---|
| `SimThreadPool_proofs` | `Invariance`, `TypeCorrect`, `FuturesAreExact`, `ParamsAreStable`, `ResultsReadWhenStored`, `AwakeWhenSimulating`, `StopsAfterJoin`, `RefinesService` | `PoolAssumption`: naturals; at least one branch |
| `GameTurn_proofs` | `TurnIsRules`, `GameInvariance`, `Disjoint`, `Paths`, `RulesFollowed`, `Ruled`, `Judged`, `MapMarks`, `JsFollowsRules`, `JsCaches` | `GameAssumption`: finitely many snakes, which start with two parts or more; `NobodyAssumption`: `null` is no snake |
| `Rollout_proofs` | `RolloutInvariance`, `RolloutPaths`, `FuturesAreExact`, `AnswersLeadHere`, `Recorded`, `Foretold` | `GameAssumption`; `RolloutAssumption`: prefixes are sequences of directions |
| `Decision_proofs` | rounds: `RoundsInvariance`, `RoundsTypeCorrect`, `BranchesInLockstep`, `NoFutureWithoutMove`, `OverrunBounded`, `ReasonsAreHonest`; choice: `Invariance`, `TypeCorrect`, `ChoosesMaximin`, `PutsLifeFirst` | `RoundsAssumption`: naturals, zero included; `BestMoveAssumption`: futures of their type, an `int` holds the largest score |
| `Positions_proofs` | search: `Invariance`, `TypeCorrect`, `ArrivalsAreSafe`, `OpenCellsAreScored`, `PathsAreLegal`, `PathsCoverDistance`, `ScoresAreExact`, `SizesAreExact`, `DangerIsAvoided`; `BestFoodFound`; `ZoneIsWatched`, `KillTargetsAreOpen` | `AStarAssumption`: `InfinityCost` above the iteration limit and the penalty together; `CostsAssumption`, for the last three of the search: fewer cells than `VeryHighCost` and not more than `MaxIterations`, and scores that fit the type; `RaceAssumption`: no path shorter than the distance (`PathsCoverDistance`); `CornerAssumption`: snakes have a head, all parts are on the board, the type is larger than it by more than 3 |
| `FloodFill_proofs` | `Invariance`, `TypeCorrect`, `CountIsSound`, `CountIsComplete` | `FloodAssumption`: the coordinate type can count the cells |
| `HttpServer_proofs` | `TypeCorrect`, `NothingLeftOpen`, `ChunksDoNotMatter`, `WholeRequests`, `BodiesAreWhole` | `HttpServerAssumption`: chunks are not empty |

With the constants of the code, `CostsAssumption` says that the board has fewer than 1000 cells. On a larger board the
price of a risky start could be worth paying to save a thousand moves. `WholeRequests` has a hypothesis besides,
`Understood`: each request, parsed in one piece, gives what the client meant. TLC checks it of the run's requests; the
theorem adds that pieces, other clients and the order of handlers make no difference.

Each argument is an inductive invariant. Those with definitions of their own (pool, rounds, search, flood fill, food, corner, requests)
stand at the head of their proofs, where alone they are used; the others are a conjunction at the end of the model they
belong to. In short:

* **Pool** (`IInv`). `FuturesExact` alone says nothing of the moments before the results are collected. `PoolShape` says
  which threads exist at each place of the dispatcher; `FlagsTellPhase` that a raised `_hasWork` means work handed over in
  this move, that a simulating thread still has its flag up, and that behind the poller's cursor no flag is up if none was
  seen; `WorkIsCurrent` that params and results are those of this move; `CollectedSoFar` counts the futures. The
  poller's argument is in `FlagsTellPhase`: flags go up only before polling begins, so a flag seen down stays down.
  `RefinesService` says that every step is a step of `MoveService` or stutters; it needs `BuiltSoFar` besides, that what a
  thread has built for this move is of its share, and all of it once its flag is down.
* **Loops over vectors.** The code's loops are folds over sequences, and the library's induction takes an operator as its
  parameter, which the provers cannot instantiate. `Induction` does without: `LeastNat` (a set of naturals has a least
  element, by well-foundedness), hence `SetInduction` and `BoundedInduction`, in which what is proved is a set of numbers;
  `FoldExists` and `IterationExists` show that the recursive functions behind folds and iterations exist, so that their
  equations may be used.
* **Turn** (`GameInv`). `TurnIsRules` goes through the passes: for each loop an invariant says what is settled for the
  snakes and food met so far (`ContestInv` for the best head at a food and those that are beaten there), in any order of the
  vector. What the four passes come to is then the turn of `BattleRules`, so `RulesFollowed` and `Ruled` hold, and the rest
  is reasoning about the rules. `BodiesDisjoint` is not inductive alone: it needs `BodiesArePaths`, by which a body that
  meets itself does so only in parts stacked at its end, and the type, in which a snake has at least two parts. Its fourth
  part, `FoodFree`, says that no snake lies on food between turns; the branch and the JavaScript turn need it.
* **JavaScript turn** (`JsFollowsRules`, `JsCaches`). Two more loops over snakes, from a state of the C++ game. Through the
  moves `MovedSoFar` says that a snake of the list is there unless its move has come and its way was not free, where it is,
  and what food is left; whether the way is free depends on the old map alone, so no order enters. `CachedSoFar` says what
  the caches have in the middle: the map's counts are right in each cell without three stacked parts (`CountAt`), the grid
  has somebody in each occupied cell that no end of a tail has cleared, and a cell to which a head has come is never held
  by a snake whose turn is still to come, unless a death in between has had the grid made anew. Through the collisions
  `Meeting` (the inner loop) and `Settling` (the outer one) say that either nothing has happened, and no two heads met so
  far are alike, or the caches are new, or the code has thrown; and that with no three heads in a cell exactly those are
  gone that lose to another of those met. The two guards of `JsTurnFollowsRules` are used for just that: pairs, and lengths
  that no meal has changed.
* **Branch** (`RolloutInv`). Deaths and meals are inferred from two states, and by `FoodFree` whoever is found on what
  was food has eaten it in this turn. `Recorded` and
  `Foretold` are action properties. For `Foretold` the map is characterised first (`MapMarks`: a cell holds the largest
  number of turns that a part stays there, and 0 where none lies), then `Forecast` compares two such maps when the bodies of
  one are those of the other moved on (`HandedOn`).
* **Moves around the head** (`Judged`). By `MapMarks` a vacant cell is one that each body leaves in time; what may follow is
  the turn of the rules with my direction fixed and the others' open.
* **Rounds** (`RoundsInv`). Running branches have played as many turns as there were rounds; an ended one ended because of
  loss, time or turns, and then no other will run ahead of it. `PlayedInv`, that some branch plays in every round, ties the
  number of rounds, which the reported reasons are derived from, to the turns.
* **Search** (`IInv`, `ExactInv`). The seen cells form a tree rooted at the start whose inner nodes are closed
  (`SearchTree`). That is why an open cell that is given a new predecessor does not invalidate the turns recorded further
  on: nobody has it as a predecessor yet. `DistanceKept` adds that nothing is reached before its distance allows.
  `ScoresBounded` uses the iteration limit to keep scores below infinity, so that an open cell is always found. `WalkInv`
  adds the steps walked back to the turn of the cell walked to. That sizes are exact is harder, because a cell may be
  entered only after its occupant has left, so that a shorter way may be worth less than a longer one. `ExactInv` says
  that a cell is closed with the score at which a wave first comes to it (`ClosedExact`), that the neighbours of a closed
  cell have been relaxed from it (`Relaxed`), that a score tells the turn and whether the path began in danger
  (`Charged`), and that the walk back keeps that apart (`Outcome`). The step uses that the distance is consistent: as long
  as a wave's way to some cell has a member outside the closed cells, an open cell on it has the wave's score
  (`SafePromise`, `RiskyPromise`), and the cell that is expanded has the lowest sum. `Counted` bounds turns by the cells
  closed so far, so that the iteration limit is never reached (`CellsCounted`).
* **Flood fill** (`IInv`). `QueueOrdered` (the turns in the queue never fall and span at most two) makes each cell's first
  visit the earliest; `Covered` and `MissedInv` account for every neighbour of a counted cell.
* **Choice** (`IInv`). `ExtremesKept`: the maps hold the extremes of what was looked at. The lemma `Scores` bounds the score
  below and above by the life it promises and shows that no sum exceeds an `int`, which is why the model may add
  natural numbers where the code adds `uint32_t` and compares `int`.
* **Food** (`FoodInv`). `BestSoFar` and `RaceSoFar` say what has been looked at; `TooFar` and the lemma `FarEnemyLoses` deal
  with what the early ends leave out, from the sorted order and paths being no shorter than distances.
* **Corner and kill tunnel** (`CornerInv`). For each direction the eight points are shown to be the places from which the
  two destinations can be entered (`PointsRight`), wrapped ones being off the board. Left out is going left, where it is
  false. The tunnel's walk keeps to vacant cells of the board, whatever way it takes, for as many steps as its bound
  allows.
* **HTTP server** (`IInv`, `RequestInv`). `NothingIsLeftOpen` is inductive with `AcceptedKnown`, that a completed accept
  holds a client's socket; nothing in it depends on what the parser says. `RequestInv` says that each connection's parser
  is where it would be had all symbols read so far come at once: parsing a concatenation is parsing its parts in turn,
  because a parser that is done looks at nothing more. `BodiesAreWhole` is about the parser's counting of braces: a body
  in which they match at its end, and not before, is read whole.

## 6. What is only model-checked and what is not modelled

Only model-checked, on the instances of section 3:

* liveness: `Terminates`, `StopTerminates`, `RequestsAnswered`, and the liveness half of `ImplementsService`, which needs
  the fairness of the pool; TLAPS does not prove `ENABLED` or liveness under fairness;
* what the violated runs check: `MoveNeedsNoStart`, `LeftZoneWatched`, `CautiousForGood`, `DeadAreNoEnemies`;
* that positions such as the program meets satisfy the assumptions about `Scenario` of `AStar` and `FloodFill`, which
  their runs evaluate;
* `Understood`, the hypothesis of `WholeRequests`, for requests other than those of the run.

Not modelled, or only in part:

* `decrementVacate` and `resetVacate` of the C++ `Map` have no caller; the lazily computed getters of `GameState`
  (`getSpacesUp` and the like) are plain memoization of `countAccessibleCells` on a state that does not change.
* The cache of `GameState::perspective` keys its copies by snake and ignores the bias it was asked for. No module has the
  cache: `SizeIsExact` shows that what its callers read of a copy does not depend on the bias, and the copies are never
  changed afterwards.
* What the algorithms answer: `closestFood`, `chaseTail` and each algorithm's chain of fallbacks are stateless choices of a
  direction. `GameTurn`, `Rollout`, `JsRollout` and `OneDirection` leave the direction open and so cover every answer.
* `runSimulations`, `bestMove` and `astar.js` of the JavaScript code are earlier forms, in one thread, of what `Rounds`,
  `BestMove` and `AStar` model.
* The dispatcher's and the addon's conversions between JSON, JavaScript values and `World` copy field by field; the reply's
  text and `url_decode` have no influence on anything modelled.
* The vendored JSON library (`nonode/json.hpp`, 17190 of the 23527 lines of source), tests and benchmarks are not part of
  the program's logic.

## 7. The plan

Done, in this order: the pool and its service; the turn and its rules; the map and the path search; the rounds; the
flood fill and the corner check; the bookkeeping of a branch; the choice; the one-direction opponents; the HTTP server;
the movement helpers and the race for food; off-board goals and exact path sizes; the map from turn to turn; the
JavaScript state and its simulator. Proofs: the pool and the safety half of its refinement; the rounds and the choice; the
flood fill; the corner check and the kill tunnel; `NothingIsLeftOpen`; the game turn and its rules; the bookkeeping and the
map of a branch; the moves around the head; the requests in pieces; exact path sizes; the turn of the JavaScript state and
its caches.

What would come next: the rounds of the pool's threads inside `SimThreadPool`, instead of one step a branch, once the
state space allows it; the JavaScript `runSimulations` if it is to stay in use.
