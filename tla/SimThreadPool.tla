--------------------------- MODULE SimThreadPool ---------------------------
(***************************************************************************)
(* The pool of simulation threads (class SimThread of simulator.hpp and    *)
(* simulator.cpp) and the thread that drives it: the io thread of the C++  *)
(* server or the node main thread, called the dispatcher here.             *)
(*                                                                         *)
(* Every shared flag is read or written in a step of its own, so that the  *)
(* interleavings of the spin loops with startWork, the polling loop,       *)
(* wakeAll and stopAll are all explored.  The flags are volatile bools;    *)
(* the model takes accesses to happen in program order, which x86-64 gives.*)
(*                                                                         *)
(* A future is abstracted to the move and the branch it was computed for;  *)
(* a vector of futures to a set (of one thread) or a bag (of all threads). *)
(* Time is abstracted to one bit per thread: has it been without work for  *)
(* longer than SECONDS_OF_NO_WORK_UNTIL_SLEEP?                             *)
(***************************************************************************)
EXTENDS Integers

CONSTANTS Cores,      \* std::thread::hardware_concurrency()
          NBranches,  \* branches that one call of Sim::move simulates
          MaxMoves    \* bound on the number of calls of Sim::move

ASSUME PoolAssumption ==
    /\ Cores \in Nat
    /\ NBranches \in Nat \ {0}
    /\ MaxMoves \in Nat

Thread == 0 .. Cores - 1
Branch == 0 .. NBranches - 1
Future == [move : 0 .. MaxMoves, branch : Branch]
Params == [move : 0 .. MaxMoves, branches : SUBSET Branch]

VARIABLES
    instances,  \* SimThread::instances.size()
    hasWork, quit, sleeping, result, params,  \* members of each SimThread
    longIdle,   \* is now - _timeOfLastWork above the limit?
    tpc,        \* where each simulation thread is in spin()
    building,   \* the futures runSimulationBranches has computed so far
    dpc,        \* where the dispatcher is
    cursor,     \* the loop index of the dispatcher
    returnTo,   \* the caller of startAll
    anyIncomplete,  \* local of the polling loop of runSimulations
    moves,      \* number of calls of Sim::move so far
    futures     \* bag of the futures collected by runSimulations

threadVars == <<tpc, building, result>>
flagVars == <<hasWork, quit, sleeping, longIdle>>
localVars == <<returnTo, anyIncomplete, moves, futures>>
driverVars == <<dpc, cursor, localVars, instances, params>>
vars == <<threadVars, flagVars, driverVars>>

NoFutures == [f \in Future |-> 0]

TypeOK ==
    /\ instances \in 0 .. Cores
    /\ hasWork \in [Thread -> BOOLEAN]
    /\ quit \in [Thread -> BOOLEAN]
    /\ sleeping \in [Thread -> BOOLEAN]
    /\ longIdle \in [Thread -> BOOLEAN]
    /\ result \in [Thread -> SUBSET Future]
    /\ building \in [Thread -> SUBSET Future]
    /\ params \in [Thread -> Params]
    /\ tpc \in [Thread -> {"none", "loop", "work", "wake", "run", "clear",
                           "stamp", "nap", "doze", "exited"}]
    /\ dpc \in {"spawn", "construct", "wakeup", "ready", "params", "flag",
                "scan", "collect", "kill", "join", "exited", "crashed"}
    /\ cursor \in 0 .. Cores
    /\ returnTo \in {"ready", "wakeup"}
    /\ anyIncomplete \in BOOLEAN
    /\ moves \in 0 .. MaxMoves
    /\ futures \in [Future -> Nat]

(* The addon and the test and benchmark programs call startAll first; the  *)
(* C++ server does not.                                                    *)
Init ==
    /\ instances = 0
    /\ hasWork = [t \in Thread |-> FALSE]
    /\ quit = [t \in Thread |-> FALSE]
    /\ sleeping = [t \in Thread |-> FALSE]
    /\ longIdle = [t \in Thread |-> FALSE]
    /\ result = [t \in Thread |-> {}]
    /\ building = [t \in Thread |-> {}]
    /\ params = [t \in Thread |-> [move |-> 0, branches |-> {}]]
    /\ tpc = [t \in Thread |-> "none"]
    /\ dpc \in {"spawn", "ready"}
    /\ cursor = 0
    /\ returnTo = "ready"
    /\ anyIncomplete = FALSE
    /\ moves = 0
    /\ futures = NoFutures

-----------------------------------------------------------------------------
(* spin(), the body of simulation thread t *)

Goto(t, from, to) == tpc[t] = from /\ tpc' = [tpc EXCEPT ![t] = to]

\* while (!_quit)
TestQuit(t) ==
    /\ Goto(t, "loop", IF quit[t] THEN "exited" ELSE "work")
    /\ UNCHANGED <<flagVars, driverVars, building, result>>

\* if (_hasWork)
TestHasWork(t) ==
    /\ Goto(t, "work", IF hasWork[t] THEN "wake" ELSE "nap")
    /\ UNCHANGED <<flagVars, driverVars, building, result>>

\* if (_sleeping) wakeUp();  then runSimulationBranches begins
MutantNoWakeUp(t) ==
    /\ Goto(t, "wake", "run")
    /\ building' = [building EXCEPT ![t] = {}]
    /\ UNCHANGED <<flagVars, driverVars, result>>
BeginWork(t) ==
    /\ Goto(t, "wake", "run")
    /\ sleeping' = [sleeping EXCEPT ![t] = FALSE]
    /\ building' = [building EXCEPT ![t] = {}]
    /\ UNCHANGED <<driverVars, result, hasWork, quit, longIdle>>

FutureOf(t, b) == [move |-> params[t].move, branch |-> b]

\* runSimulationBranches finishes one branch; it reads _params, which it
\* holds by reference, whenever it looks at a branch or the initial state
SimulateBranch(t) ==
    /\ tpc[t] = "run"
    /\ \E b \in params[t].branches :
          /\ FutureOf(t, b) \notin building[t]
          /\ building' = [building EXCEPT ![t] = @ \cup {FutureOf(t, b)}]
    /\ UNCHANGED <<flagVars, driverVars, tpc, result>>

\* _result = runSimulationBranches(...)
MutantStoreResult(t) ==
    /\ Goto(t, "run", "clear")
    /\ result' = [result EXCEPT ![t] = building[t]]
    /\ UNCHANGED <<flagVars, driverVars, building>>
StoreResult(t) ==
    /\ \A b \in params[t].branches : FutureOf(t, b) \in building[t]
    /\ Goto(t, "run", "clear")
    /\ result' = [result EXCEPT ![t] = building[t]]
    /\ UNCHANGED <<flagVars, driverVars, building>>

\* _hasWork = false
ClearHasWork(t) ==
    /\ Goto(t, "clear", "stamp")
    /\ hasWork' = [hasWork EXCEPT ![t] = FALSE]
    /\ UNCHANGED <<driverVars, building, result, quit, sleeping, longIdle>>

\* _timeOfLastWork = Clock::now(), then sleep_for or yield
StampTime(t) ==
    /\ Goto(t, "stamp", "loop")
    /\ longIdle' = [longIdle EXCEPT ![t] = FALSE]
    /\ UNCHANGED <<driverVars, building, result, hasWork, quit, sleeping>>

\* else if (!_sleeping) and the comparison of diff with the idle limit
TestIdle(t) ==
    /\ Goto(t, "nap", IF ~sleeping[t] /\ longIdle[t] THEN "doze" ELSE "loop")
    /\ UNCHANGED <<flagVars, driverVars, building, result>>

\* sleep(), then sleep_for
FallAsleep(t) ==
    /\ Goto(t, "doze", "loop")
    /\ sleeping' = [sleeping EXCEPT ![t] = TRUE]
    /\ UNCHANGED <<driverVars, building, result, hasWork, quit, longIdle>>

Spin(t) ==
    \/ TestQuit(t) \/ TestHasWork(t) \/ BeginWork(t) \/ SimulateBranch(t)
    \/ StoreResult(t) \/ ClearHasWork(t) \/ StampTime(t) \/ TestIdle(t)
    \/ FallAsleep(t)

\* SECONDS_OF_NO_WORK_UNTIL_SLEEP pass for thread t
IdleLimitPasses(t) ==
    /\ t < instances
    /\ ~longIdle[t]
    /\ longIdle' = [longIdle EXCEPT ![t] = TRUE]
    /\ UNCHANGED <<threadVars, localVars, hasWork, quit, sleeping, dpc,
                   cursor, instances, params>>

-----------------------------------------------------------------------------
(* startAll and wakeAll *)

\* The members are initialised in the order of their declaration: spin() is
\* running before _timeOfLastWork and _sleeping have a value.
SpawnThread ==
    /\ dpc = "spawn"
    /\ instances < Cores
    /\ dpc' = "construct"
    /\ tpc' = [tpc EXCEPT ![instances] = "loop"]
    /\ \E s, i \in BOOLEAN :
          /\ sleeping' = [sleeping EXCEPT ![instances] = s]
          /\ longIdle' = [longIdle EXCEPT ![instances] = i]
    /\ UNCHANGED <<localVars, building, result, hasWork, quit, cursor,
                   instances, params>>

FinishConstructor ==
    /\ dpc = "construct"
    /\ dpc' = "spawn"
    /\ sleeping' = [sleeping EXCEPT ![instances] = TRUE]
    /\ longIdle' = [longIdle EXCEPT ![instances] = FALSE]
    /\ instances' = instances + 1
    /\ UNCHANGED <<threadVars, localVars, hasWork, quit, cursor, params>>

StartAllReturns ==
    /\ dpc = "spawn"
    /\ instances = Cores
    /\ dpc' = returnTo
    /\ UNCHANGED <<threadVars, flagVars, localVars, cursor, instances, params>>

\* Sim::start calls wakeAll, which calls startAll, which does nothing when
\* there are instances already
ReceiveStart ==
    /\ dpc = "ready"
    /\ dpc' = IF instances = 0 THEN "spawn" ELSE "wakeup"
    /\ returnTo' = "wakeup"
    /\ cursor' = 0
    /\ UNCHANGED <<threadVars, flagVars, anyIncomplete, moves, futures,
                   instances, params>>

WakeThread ==
    /\ dpc = "wakeup"
    /\ cursor < instances
    /\ sleeping' = [sleeping EXCEPT ![cursor] = FALSE]
    /\ cursor' = cursor + 1
    /\ UNCHANGED <<threadVars, localVars, hasWork, quit, longIdle, dpc,
                   instances, params>>

WakeAllReturns ==
    /\ dpc = "wakeup"
    /\ cursor = instances
    /\ dpc' = "ready"
    /\ UNCHANGED <<threadVars, flagVars, localVars, cursor, instances,
                   params>>

-----------------------------------------------------------------------------
(* Sim::move, as far as it concerns the pool: runSimulations *)

\* branches[branchIndex++ % threads].push_back(...)
MutantShare(t) == {b \in Branch : b % (instances + 1) = t}
Share(t) == {b \in Branch : b % instances = t}

\* Without instances the remainder has no value and the process dies.
ReceiveMove ==
    /\ dpc = "ready"
    /\ moves < MaxMoves
    /\ instances > 0
    /\ dpc' = "params"
    /\ cursor' = 0
    /\ moves' = moves + 1
    /\ futures' = NoFutures
    /\ UNCHANGED <<threadVars, flagVars, returnTo, anyIncomplete, instances,
                   params>>

CrashOnMove ==
    /\ dpc = "ready"
    /\ moves < MaxMoves
    /\ instances = 0
    /\ dpc' = "crashed"
    /\ UNCHANGED <<threadVars, flagVars, localVars, cursor, instances, params>>

\* startWork: _params = std::move(params)
WriteParams ==
    /\ dpc = "params"
    /\ dpc' = "flag"
    /\ params' = [params EXCEPT ![cursor] =
                      [move |-> moves, branches |-> Share(cursor)]]
    /\ UNCHANGED <<threadVars, flagVars, localVars, cursor, instances>>

\* startWork: _hasWork = true; after the last thread the polling begins
RaiseHasWork ==
    /\ dpc = "flag"
    /\ hasWork' = [hasWork EXCEPT ![cursor] = TRUE]
    /\ IF cursor + 1 < instances
       THEN dpc' = "params" /\ cursor' = cursor + 1
       ELSE dpc' = "scan" /\ cursor' = 0
    /\ anyIncomplete' = FALSE
    /\ UNCHANGED <<threadVars, quit, sleeping, longIdle, returnTo, moves,
                   futures, instances, params>>

MutantDone(t) == ~hasWork[t] \/ sleeping[t]
Done(t) == ~hasWork[t]

\* if (!simThread->done()) anyIncomplete = true
PollThread ==
    /\ dpc = "scan"
    /\ cursor < instances
    /\ anyIncomplete' = (anyIncomplete \/ ~Done(cursor))
    /\ cursor' = cursor + 1
    /\ UNCHANGED <<threadVars, flagVars, dpc, returnTo, moves, futures,
                   instances, params>>

\* while (anyIncomplete)
PollAgain ==
    /\ dpc = "scan"
    /\ cursor = instances
    /\ dpc' = IF anyIncomplete THEN "scan" ELSE "collect"
    /\ anyIncomplete' = FALSE
    /\ cursor' = 0
    /\ UNCHANGED <<threadVars, flagVars, returnTo, moves, futures, instances,
                   params>>

\* result.insert(result.end(), thisResult.begin(), thisResult.end())
CollectResult ==
    /\ dpc = "collect"
    /\ cursor < instances
    /\ futures' = [f \in Future |->
                      futures[f] + IF f \in result[cursor] THEN 1 ELSE 0]
    /\ cursor' = cursor + 1
    /\ UNCHANGED <<threadVars, flagVars, dpc, returnTo, anyIncomplete, moves,
                   instances, params>>

\* bestMove chooses among the futures and Sim::move returns
AnswerMove ==
    /\ dpc = "collect"
    /\ cursor = instances
    /\ dpc' = "ready"
    /\ UNCHANGED <<threadVars, flagVars, localVars, cursor, instances, params>>

-----------------------------------------------------------------------------
(* stopAll: main after server::run has returned, or terminate of the addon *)

MutantBeginStop ==
    /\ dpc = "ready"
    /\ dpc' = "kill"
    /\ cursor' = 1
    /\ UNCHANGED <<threadVars, flagVars, localVars, instances, params>>
BeginStop ==
    /\ dpc = "ready"
    /\ dpc' = "kill"
    /\ cursor' = 0
    /\ UNCHANGED <<threadVars, flagVars, localVars, instances, params>>

KillThread ==
    /\ dpc = "kill"
    /\ cursor < instances
    /\ quit' = [quit EXCEPT ![cursor] = TRUE]
    /\ cursor' = cursor + 1
    /\ UNCHANGED <<threadVars, localVars, hasWork, sleeping, longIdle, dpc,
                   instances, params>>

BeginJoin ==
    /\ dpc = "kill"
    /\ cursor = instances
    /\ dpc' = "join"
    /\ cursor' = 0
    /\ UNCHANGED <<threadVars, flagVars, localVars, instances, params>>

\* _thread.join() waits for the end of spin()
MutantJoinThread ==
    /\ dpc = "join"
    /\ cursor < instances
    /\ cursor' = cursor + 1
    /\ UNCHANGED <<threadVars, flagVars, localVars, dpc, instances, params>>
JoinThread ==
    /\ dpc = "join"
    /\ cursor < instances
    /\ tpc[cursor] = "exited"
    /\ cursor' = cursor + 1
    /\ UNCHANGED <<threadVars, flagVars, localVars, dpc, instances, params>>

\* SimThread::instances.clear(), after which the process ends
ClearInstances ==
    /\ dpc = "join"
    /\ cursor = instances
    /\ instances' = 0
    /\ dpc' = "exited"
    /\ UNCHANGED <<threadVars, flagVars, localVars, cursor, params>>

-----------------------------------------------------------------------------
StartAll == SpawnThread \/ FinishConstructor \/ StartAllReturns
WakeAll == WakeThread \/ WakeAllReturns
RunSimulations ==
    \/ WriteParams \/ RaiseHasWork \/ PollThread \/ PollAgain
    \/ CollectResult \/ AnswerMove
StopAll == KillThread \/ BeginJoin \/ JoinThread \/ ClearInstances

\* What the dispatcher does by itself, and the requests it waits for.
Drive == StartAll \/ WakeAll \/ RunSimulations \/ StopAll
Request == ReceiveStart \/ ReceiveMove \/ CrashOnMove \/ BeginStop

\* The process is gone.
Ended == dpc \in {"exited", "crashed"} /\ UNCHANGED vars

Next ==
    \/ Drive
    \/ Request
    \/ \E t \in Thread : Spin(t) \/ IdleLimitPasses(t)
    \/ Ended

(* The operating system runs every thread: each loop of spin() yields or   *)
(* sleeps for a bounded time and the polling loop yields, so no thread can *)
(* keep another from running.  Requests, and the passing of the idle       *)
(* limit, are owed to nobody.                                              *)
Fairness == WF_vars(Drive) /\ \A t \in Thread : WF_vars(Spin(t))

Spec == Init /\ [][Next]_vars /\ Fairness

-----------------------------------------------------------------------------
(* Properties *)

moveInProgress == dpc \in {"params", "flag", "scan", "collect"}
simulating(t) == tpc[t] \in {"wake", "run", "clear"}
futureFor(b) == [move |-> moves, branch |-> b]

\* When Sim::move has its futures, every branch of this move is there exactly
\* once and nothing is left over from an earlier move (runSimulations,
\* simulator.cpp:430-435).
FuturesExact ==
    dpc = "collect" /\ cursor = instances =>
        \A f \in Future : futures[f] = IF f.move = moves THEN 1 ELSE 0

\* The branches, the initial state and the algorithm objects that a thread
\* uses live on the stack of Sim::move or in _params: a thread simulates only
\* while its move is in progress, on the share of that move, and _params is
\* not assigned while it does (simulator.cpp:105-109, 410-428).
ParamsStable ==
    \A t \in Thread : simulating(t) =>
        /\ moveInProgress /\ t < instances
        /\ params[t] = [move |-> moves, branches |-> Share(t)]
        /\ ~(dpc \in {"params", "flag"} /\ cursor = t)

\* A result is read only when its thread has finished storing it: no torn
\* vector reaches bestMove (the done() test of simulator.cpp:416-428).
ResultReadWhenStored ==
    dpc = "collect" => \A t \in 0 .. instances - 1 :
        /\ ~simulating(t)
        /\ result[t] = {futureFor(b) : b \in Share(t)}

\* A thread that has work never naps for SLEEP_MODE_DELAY_MILLIS between two
\* looks at it once it has begun, whatever wakeUp and sleep are doing.
AwakeWhileSimulating ==
    \A t \in Thread : tpc[t] \in {"run", "clear"} => ~sleeping[t]

\* stopAll clears the vector that owns the SimThread objects only when no
\* simulation thread can run any more (simulator.cpp:33-48).
StoppedAfterJoin ==
    [][dpc = "join" /\ dpc' = "exited" =>
          \A t \in Thread : tpc[t] \in {"none", "exited"}]_vars

\* stopAll comes to an end, so the process can end.
StopTerminates == dpc = "kill" ~> dpc = "exited"

\* The pool implements the service it gives to Sim::move.
Service == INSTANCE MoveService WITH
    busy <- moveInProgress,
    simulated <- {b \in Branch : \E t \in Thread : futureFor(b) \in building[t]},
    answer <- IF moveInProgress THEN {}
              ELSE {b \in Branch : moves > 0 /\ futures[futureFor(b)] > 0}
ImplementsService == Service!Spec

\* onedirection.cpp:74-75, "just make sure in case server restarts or
\* something": a move that comes before any start is served like another.
MoveNeedsNoStart == dpc # "crashed"
=============================================================================
