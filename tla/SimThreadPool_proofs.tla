------------------------ MODULE SimThreadPool_proofs ------------------------
(***************************************************************************)
(* Proofs about SimThreadPool for any number of cores, branches and moves: *)
(* IInv is inductive, and the safety properties the runs check follow.     *)
(***************************************************************************)
EXTENDS SimThreadPool, TLAPS

-----------------------------------------------------------------------------
(* The inductive invariant behind the safety properties *)

\* Which threads exist, and what the dispatcher's position says of them.
PoolShape ==
    /\ dpc # "exited" => \A t \in Thread :
          tpc[t] = "none" <=> \/ t > instances
                              \/ t = instances /\ dpc # "construct"
    /\ dpc = "exited" => \A t \in Thread : tpc[t] \in {"none", "exited"}
    /\ dpc = "construct" => instances < Cores
    /\ dpc \notin {"spawn", "construct", "exited"} => instances \in {0, Cores}
    /\ moveInProgress => instances > 0 /\ moves > 0
    /\ dpc \in {"params", "flag"} => cursor < instances
    /\ dpc \in {"wakeup", "scan", "collect", "kill", "join"} =>
          cursor <= instances
    /\ dpc = "join" => \A t \in Thread : t < cursor => tpc[t] = "exited"

\* Has startWork been called for thread t in the current move?
handed(t) ==
    /\ moveInProgress
    /\ t < instances
    /\ dpc \in {"params", "flag"} => t < cursor

FlagsTellPhase ==
    \A t \in Thread :
        /\ quit[t] => dpc \in {"kill", "join", "exited"}
        /\ tpc[t] = "exited" => quit[t]
        /\ hasWork[t] => handed(t)
        /\ simulating(t) => hasWork[t]
        /\ dpc = "scan" /\ ~anyIncomplete /\ t < cursor => ~hasWork[t]
        /\ dpc = "collect" => ~hasWork[t]

shareFutures(t) == {futureFor(b) : b \in Share(t)}

WorkIsCurrent ==
    \A t \in Thread :
        /\ handed(t) \/ (dpc = "flag" /\ t = cursor) =>
              params[t] = [move |-> moves, branches |-> Share(t)]
        /\ handed(t) /\ ~hasWork[t] => result[t] = shareFutures(t)
        /\ tpc[t] = "run" => building[t] \subseteq shareFutures(t)
        /\ tpc[t] = "clear" => result[t] = shareFutures(t)

CollectedSoFar ==
    /\ dpc \in {"params", "flag", "scan"} => futures = NoFutures
    /\ dpc = "collect" => \A f \in Future :
          futures[f] = IF f.move = moves /\ f.branch % instances < cursor
                       THEN 1 ELSE 0

\* Every conjunct is needed by another's induction step: results are current
\* because work is, work is because flags are raised only after _params, and
\* polling ends only when no flag is up.
IInv ==
    /\ TypeOK
    /\ PoolShape
    /\ FlagsTellPhase
    /\ WorkIsCurrent
    /\ CollectedSoFar
    /\ AwakeWhileSimulating

\* What building says of the current move, for the refinement of MoveService:
\* nothing before the thread begins to simulate, nothing but its share while
\* it does, and all of its share from the moment its result is stored.
BuiltSoFar ==
    \A t \in Thread :
        /\ \A f \in building[t] : f.move <= moves
        /\ moveInProgress =>
              \A f \in building[t] : f.move = moves => f \in shareFutures(t)
        /\ moveInProgress /\ tpc[t] \notin {"run", "clear"} =>
              \/ handed(t) /\ ~hasWork[t]
              \/ \A f \in building[t] : f.move < moves
        /\ tpc[t] = "clear" \/ (handed(t) /\ ~hasWork[t]) =>
              building[t] = shareFutures(t)

-----------------------------------------------------------------------------
(* The proofs *)

USE PoolAssumption

\* A pool that has not been started satisfies the invariant.
LEMMA InitIInv == Init => IInv
<1> SUFFICES ASSUME Init PROVE IInv
    OBVIOUS
<1>1. TypeOK
    <2>1. NoFutures \in [Future -> Nat]
        BY DEF NoFutures
    <2>2. dpc \in {"spawn", "ready"} /\ 0 \in 0 .. Cores /\ 0 \in 0 .. MaxMoves
        BY DEF Init
    <2> QED
        BY <2>1, <2>2 DEF Init, TypeOK, Params
<1>2. PoolShape /\ FlagsTellPhase
    BY DEF Init, PoolShape, FlagsTellPhase, Thread, moveInProgress, handed,
           simulating
<1>3. WorkIsCurrent /\ CollectedSoFar /\ AwakeWhileSimulating
    BY DEF Init, WorkIsCurrent, CollectedSoFar, AwakeWhileSimulating,
           moveInProgress, handed
<1> QED
    BY <1>1, <1>2, <1>3 DEF IInv

\* A branch is handed to a thread that exists.
LEMMA OwnerExists ==
    ASSUME NEW b \in Branch, NEW n \in Nat \ {0}
    PROVE  b % n \in 0 .. n - 1
BY DEF Branch

\* Steps of spin(), and the passing of time, preserve the invariant.
LEMMA SpinStep ==
    ASSUME IInv, NEW t \in Thread, Spin(t) \/ IdleLimitPasses(t)
    PROVE  IInv'
<1> USE DEF IInv, TypeOK, PoolShape, FlagsTellPhase, WorkIsCurrent,
            CollectedSoFar, AwakeWhileSimulating, moveInProgress, simulating,
            handed, Thread, Params, threadVars, flagVars, localVars, driverVars,
            Goto, shareFutures, futureFor, Share
<1>1. CASE TestQuit(t)
    BY <1>1 DEF TestQuit
<1>2. CASE TestHasWork(t)
    BY <1>2 DEF TestHasWork
<1>3. CASE BeginWork(t)
    BY <1>3 DEF BeginWork
<1>4. CASE SimulateBranch(t)
    <2>1. PICK b \in params[t].branches :
              building' = [building EXCEPT ![t] = @ \cup {FutureOf(t, b)}]
        BY <1>4 DEF SimulateBranch
    <2>2. /\ params[t] = [move |-> moves, branches |-> Share(t)]
          /\ tpc[t] = "run"
        BY <1>4 DEF SimulateBranch
    <2>3. FutureOf(t, b) \in shareFutures(t) /\ FutureOf(t, b) \in Future
        BY <2>1, <2>2 DEF FutureOf, Future
    <2>4. TypeOK' /\ WorkIsCurrent'
        BY <1>4, <2>1, <2>3 DEF SimulateBranch
    <2> QED
        BY <1>4, <2>4 DEF SimulateBranch
<1>5. CASE StoreResult(t)
    <2>1. /\ params[t] = [move |-> moves, branches |-> Share(t)]
          /\ building[t] \subseteq shareFutures(t)
        BY <1>5 DEF StoreResult
    <2>2. building[t] = shareFutures(t)
        BY <1>5, <2>1 DEF StoreResult, FutureOf
    <2>3. WorkIsCurrent'
        BY <1>5, <2>2 DEF StoreResult
    <2> QED
        BY <1>5, <2>3 DEF StoreResult
<1>6. CASE ClearHasWork(t)
    BY <1>6 DEF ClearHasWork
<1>7. CASE StampTime(t)
    BY <1>7 DEF StampTime
<1>8. CASE TestIdle(t)
    BY <1>8 DEF TestIdle
<1>9. CASE FallAsleep(t)
    BY <1>9 DEF FallAsleep
<1>10. CASE IdleLimitPasses(t)
    <2>1. TypeOK'
        BY <1>10 DEF IdleLimitPasses
    <2>2. PoolShape' /\ FlagsTellPhase'
        BY <1>10 DEF IdleLimitPasses
    <2>3. WorkIsCurrent'
        BY <1>10 DEF IdleLimitPasses
    <2>4. CollectedSoFar' /\ AwakeWhileSimulating'
        BY <1>10 DEF IdleLimitPasses
    <2> QED
        BY <2>1, <2>2, <2>3, <2>4
<1> QED
    BY <1>1, <1>2, <1>3, <1>4, <1>5, <1>6, <1>7, <1>8, <1>9, <1>10 DEF Spin

\* Steps of the dispatcher within a move preserve the invariant.
LEMMA RunSimulationsStep == IInv /\ RunSimulations => IInv'
<1> SUFFICES ASSUME IInv, RunSimulations PROVE IInv'
    OBVIOUS
<1> USE DEF IInv, TypeOK, PoolShape, FlagsTellPhase, WorkIsCurrent,
            CollectedSoFar, AwakeWhileSimulating, moveInProgress, simulating,
            handed, Thread, Params, threadVars, flagVars, localVars, driverVars
<1>1. CASE WriteParams
    <2>1. /\ cursor \in Thread
          /\ Share(cursor) \in SUBSET Branch
        BY <1>1 DEF WriteParams, Share
    <2>2. TypeOK'
        BY <1>1, <2>1 DEF WriteParams
    <2>3. /\ params'[cursor] = [move |-> moves, branches |-> Share(cursor)]
          /\ \A t \in Thread \ {cursor} : params'[t] = params[t]
          /\ \A t \in Thread : /\ Share(t)' = Share(t)
                               /\ shareFutures(t)' = shareFutures(t)
        BY <1>1, <2>1 DEF WriteParams, Share, shareFutures, futureFor
    <2>4. WorkIsCurrent'
        BY <1>1, <2>3 DEF WriteParams
    <2> QED
        BY <1>1, <2>2, <2>4 DEF WriteParams
<1>2. CASE RaiseHasWork
    <2>1. \A t \in Thread : /\ Share(t)' = Share(t)
                            /\ shareFutures(t)' = shareFutures(t)
        BY <1>2 DEF RaiseHasWork, Share, shareFutures, futureFor
    <2>2. CASE cursor + 1 < instances
        <3>0. dpc' = "params" /\ cursor' \in 0 .. Cores
            BY <1>2, <2>2 DEF RaiseHasWork
        <3>1. TypeOK'
            BY <1>2, <3>0 DEF RaiseHasWork
        <3>2. PoolShape' /\ FlagsTellPhase'
            BY <1>2, <2>1, <2>2 DEF RaiseHasWork
        <3>3. WorkIsCurrent'
            BY <1>2, <2>1, <2>2 DEF RaiseHasWork
        <3>4. CollectedSoFar' /\ AwakeWhileSimulating'
            BY <1>2, <2>1, <2>2 DEF RaiseHasWork
        <3> QED
            BY <3>1, <3>2, <3>3, <3>4
    <2>3. CASE ~(cursor + 1 < instances)
        <3>0. dpc' = "scan" /\ cursor' \in 0 .. Cores
            BY <1>2, <2>3 DEF RaiseHasWork
        <3>1. TypeOK'
            BY <1>2, <3>0 DEF RaiseHasWork
        <3>2. PoolShape' /\ FlagsTellPhase'
            BY <1>2, <2>1, <2>3 DEF RaiseHasWork
        <3>3. WorkIsCurrent'
            BY <1>2, <2>1, <2>3 DEF RaiseHasWork
        <3>4. CollectedSoFar' /\ AwakeWhileSimulating'
            BY <1>2, <2>1, <2>3 DEF RaiseHasWork
        <3> QED
            BY <3>1, <3>2, <3>3, <3>4
    <2> QED
        BY <2>2, <2>3
<1>3. CASE PollThread
    <2>1. \A t \in Thread : /\ Share(t)' = Share(t)
                            /\ shareFutures(t)' = shareFutures(t)
        BY <1>3 DEF PollThread, Share, shareFutures, futureFor
    <2> QED
        BY <1>3, <2>1 DEF PollThread, Done
<1>4. CASE PollAgain
    <2>1. \A t \in Thread : /\ Share(t)' = Share(t)
                            /\ shareFutures(t)' = shareFutures(t)
        BY <1>4 DEF PollAgain, Share, shareFutures, futureFor
    <2>2. CASE anyIncomplete
        <3>0. dpc' = "scan" /\ cursor' \in 0 .. Cores
            BY <1>4, <2>2 DEF PollAgain
        <3>1. TypeOK'
            BY <1>4, <3>0 DEF PollAgain
        <3>2. PoolShape' /\ FlagsTellPhase'
            BY <1>4, <2>1, <2>2 DEF PollAgain
        <3>3. WorkIsCurrent'
            BY <1>4, <2>1, <2>2 DEF PollAgain
        <3>4. CollectedSoFar' /\ AwakeWhileSimulating'
            BY <1>4, <2>1, <2>2 DEF PollAgain
        <3> QED
            BY <3>1, <3>2, <3>3, <3>4
    <2>3. CASE ~anyIncomplete
        <3>1. \A f \in Future : f.branch % instances \in 0 .. instances - 1
            BY <1>4, OwnerExists DEF PollAgain, Future
        <3>2. CollectedSoFar'
            BY <1>4, <2>3, <3>1 DEF PollAgain, NoFutures
        <3>0. dpc' = "collect" /\ cursor' \in 0 .. Cores
            BY <1>4, <2>3 DEF PollAgain
        <3>3. TypeOK' /\ AwakeWhileSimulating'
            BY <1>4, <3>0 DEF PollAgain
        <3>4. PoolShape' /\ FlagsTellPhase'
            BY <1>4, <2>3 DEF PollAgain
        <3>5. WorkIsCurrent'
            BY <1>4, <2>1, <2>3 DEF PollAgain
        <3> QED
            BY <3>2, <3>3, <3>4, <3>5
    <2> QED
        BY <2>2, <2>3
<1>5. CASE CollectResult
    <2>1. \A t \in Thread : /\ Share(t)' = Share(t)
                            /\ shareFutures(t)' = shareFutures(t)
        BY <1>5 DEF CollectResult, Share, shareFutures, futureFor
    <2>2. result[cursor] = shareFutures(cursor)
        BY <1>5 DEF CollectResult
    <2>3. \A f \in Future : f \in result[cursor] <=>
              f.move = moves /\ f.branch % instances = cursor
        BY <2>2 DEF shareFutures, futureFor, Share, Future
    <2>4. futures' \in [Future -> Nat]
        BY <1>5 DEF CollectResult
    <2>5. \A f \in Future : f.branch % instances \in 0 .. instances - 1
        BY <1>5, OwnerExists DEF CollectResult, Future
    <2>6. CollectedSoFar'
        BY <1>5, <2>3, <2>5 DEF CollectResult
    <2>7. TypeOK' /\ AwakeWhileSimulating'
        BY <1>5, <2>4 DEF CollectResult
    <2>8. PoolShape' /\ FlagsTellPhase'
        BY <1>5 DEF CollectResult
    <2>9. WorkIsCurrent'
        BY <1>5, <2>1 DEF CollectResult
    <2> QED
        BY <2>6, <2>7, <2>8, <2>9
<1>6. CASE AnswerMove
    BY <1>6 DEF AnswerMove
<1> QED
    BY <1>1, <1>2, <1>3, <1>4, <1>5, <1>6 DEF RunSimulations

\* Every other step of the dispatcher, and every request, preserves it.
LEMMA OtherDriveStep ==
    IInv /\ (StartAll \/ WakeAll \/ StopAll \/ Request) => IInv'
<1> SUFFICES ASSUME IInv, StartAll \/ WakeAll \/ StopAll \/ Request
             PROVE  IInv'
    OBVIOUS
<1> USE DEF IInv, TypeOK, PoolShape, FlagsTellPhase, WorkIsCurrent,
            CollectedSoFar, AwakeWhileSimulating, moveInProgress, simulating,
            handed, Thread, Params, threadVars, flagVars, localVars, driverVars
<1>1. CASE SpawnThread
    BY <1>1 DEF SpawnThread
<1>2. CASE FinishConstructor
    BY <1>2 DEF FinishConstructor
<1>3. CASE StartAllReturns
    BY <1>3 DEF StartAllReturns
<1>4. CASE WakeAll
    <2>1. CASE WakeThread
        BY <2>1 DEF WakeThread
    <2>2. CASE WakeAllReturns
        BY <2>2 DEF WakeAllReturns
    <2> QED
        BY <1>4, <2>1, <2>2 DEF WakeAll
<1>5. CASE KillThread
    BY <1>5 DEF KillThread
<1>10. CASE BeginJoin
    BY <1>10 DEF BeginJoin
<1>6. CASE JoinThread
    BY <1>6 DEF JoinThread
<1>7. CASE ClearInstances
    BY <1>7 DEF ClearInstances
<1>8. CASE ReceiveMove
    <2>1. NoFutures \in [Future -> Nat]
        BY DEF NoFutures
    <2> QED
        BY <1>8, <2>1 DEF ReceiveMove
<1>9. CASE ReceiveStart \/ CrashOnMove \/ BeginStop
    BY <1>9 DEF ReceiveStart, CrashOnMove, BeginStop
<1> QED
    BY <1>1, <1>2, <1>3, <1>4, <1>5, <1>6, <1>7, <1>8, <1>9, <1>10
       DEF StartAll, StopAll, Request

\* The invariant is inductive.
LEMMA Inductive == IInv /\ [Next]_vars => IInv'
<1>1. CASE UNCHANGED vars
    BY <1>1
       DEF vars, threadVars, flagVars, localVars, driverVars, IInv, TypeOK,
           PoolShape, FlagsTellPhase, WorkIsCurrent, CollectedSoFar,
           AwakeWhileSimulating, moveInProgress, simulating, handed,
           shareFutures, futureFor, Share
<1> QED
    BY <1>1, SpinStep, RunSimulationsStep, OtherDriveStep
       DEF Next, Drive, Ended

\* The inductive invariant: the shape of the pool, where each thread is when
\* each of its flags is set, and what has been simulated and collected so far,
\* for any number of cores, branches and moves.
THEOREM Invariance == Spec => []IInv
BY InitIInv, Inductive, PTL DEF Spec

\* Every variable keeps its type, whatever the number of cores and branches
\* (class SimThread, simulator.hpp:165-199).
THEOREM TypeCorrect == Spec => []TypeOK
<1>1. IInv => TypeOK
    BY DEF IInv
<1> QED
    BY <1>1, Invariance, PTL

\* bestMove is given the future of every branch of this move exactly once and
\* no other future, for any number of threads and branches (simulator.cpp:430).
THEOREM FuturesAreExact == Spec => []FuturesExact
<1>1. IInv => FuturesExact
    <2> SUFFICES ASSUME IInv, dpc = "collect", cursor = instances,
                        NEW f \in Future
                 PROVE  futures[f] = IF f.move = moves THEN 1 ELSE 0
        BY DEF FuturesExact
    <2>1. f.branch % instances < instances
        BY OwnerExists DEF IInv, TypeOK, PoolShape, moveInProgress, Future
    <2> QED
        BY <2>1 DEF IInv, CollectedSoFar
<1> QED
    BY <1>1, Invariance, PTL

\* While a thread simulates, what it refers to on the dispatcher's stack and
\* in _params stays as it was handed over (simulator.cpp:105-109, 410-428).
THEOREM ParamsAreStable == Spec => []ParamsStable
<1>1. IInv => ParamsStable
    <2> SUFFICES ASSUME IInv, NEW t \in Thread, simulating(t)
                 PROVE  /\ moveInProgress /\ t < instances
                        /\ params[t] = [move |-> moves, branches |-> Share(t)]
                        /\ ~(dpc \in {"params", "flag"} /\ cursor = t)
        BY DEF ParamsStable
    <2>1. handed(t)
        BY DEF IInv, FlagsTellPhase
    <2>2. dpc \in {"params", "flag"} => t < cursor
        BY <2>1 DEF handed
    <2> QED
        BY <2>1, <2>2 DEF IInv, WorkIsCurrent, handed, TypeOK, Thread
<1> QED
    BY <1>1, Invariance, PTL

\* No result is read before its thread has stored all of it
\* (simulator.cpp:416-435).
THEOREM ResultsReadWhenStored == Spec => []ResultReadWhenStored
<1>1. IInv => ResultReadWhenStored
    <2> SUFFICES ASSUME IInv, dpc = "collect", NEW t \in 0 .. instances - 1
                 PROVE  ~simulating(t) /\ result[t] = shareFutures(t)
        BY DEF ResultReadWhenStored, shareFutures
    <2>1. t \in Thread /\ handed(t)
        BY DEF IInv, TypeOK, Thread, handed, moveInProgress
    <2> QED
        BY <2>1 DEF IInv, FlagsTellPhase, WorkIsCurrent
<1> QED
    BY <1>1, Invariance, PTL

\* No thread is in sleep mode once it has begun to simulate
\* (simulator.cpp:95-103, 117-127).
THEOREM AwakeWhenSimulating == Spec => []AwakeWhileSimulating
<1>1. IInv => AwakeWhileSimulating
  BY DEF IInv
<1> QED
  BY <1>1, Invariance, PTL

\* stopAll destroys the SimThread objects only after every simulation thread
\* has left spin() (simulator.cpp:33-48).
THEOREM StopsAfterJoin == Spec => StoppedAfterJoin
<1>1. IInv /\ [Next]_vars =>
          [dpc = "join" /\ dpc' = "exited" =>
              \A t \in Thread : tpc[t] \in {"none", "exited"}]_vars
    <2> SUFFICES ASSUME IInv, Next, dpc = "join", dpc' = "exited",
                        NEW t \in Thread
                 PROVE  tpc[t] \in {"none", "exited"}
        OBVIOUS
    <2>1. cursor = instances
        BY DEF Next, Drive, StartAll, WakeAll, RunSimulations, StopAll, Request,
               Spin, Ended, SpawnThread, FinishConstructor, StartAllReturns,
               WakeThread, WakeAllReturns, WriteParams, RaiseHasWork,
               PollThread, PollAgain, CollectResult, AnswerMove, KillThread,
               BeginJoin, JoinThread, ClearInstances, ReceiveStart,
               ReceiveMove, CrashOnMove, BeginStop, TestQuit, TestHasWork,
               BeginWork, SimulateBranch, StoreResult, ClearHasWork, StampTime,
               TestIdle, FallAsleep, IdleLimitPasses, driverVars, vars
    <2> QED
        BY <2>1 DEF IInv, TypeOK, PoolShape, Thread
<1> QED
    BY <1>1, Invariance, PTL DEF Spec, StoppedAfterJoin

-----------------------------------------------------------------------------
(* The pool implements MoveService, as far as safety goes. *)

\* What building says of the current move is preserved by spin().
LEMMA BuiltSpinStep ==
    ASSUME IInv, BuiltSoFar, NEW t \in Thread, Spin(t) \/ IdleLimitPasses(t)
    PROVE  BuiltSoFar'
<1> USE DEF BuiltSoFar, IInv, TypeOK, PoolShape, FlagsTellPhase, WorkIsCurrent,
            moveInProgress, simulating, handed, Thread, threadVars, flagVars,
            localVars, driverVars, Goto, shareFutures, futureFor, Share
<1>1. CASE TestQuit(t)
    BY <1>1 DEF TestQuit
<1>2. CASE TestHasWork(t)
    BY <1>2 DEF TestHasWork
<1>3. CASE BeginWork(t)
    BY <1>3 DEF BeginWork
<1>4. CASE SimulateBranch(t)
    <2>1. PICK b \in params[t].branches :
              building' = [building EXCEPT ![t] = @ \cup {FutureOf(t, b)}]
        BY <1>4 DEF SimulateBranch
    <2>2. FutureOf(t, b) \in shareFutures(t) /\ FutureOf(t, b).move = moves
        BY <1>4 DEF SimulateBranch, FutureOf
    <2> QED
        BY <1>4, <2>1, <2>2 DEF SimulateBranch
<1>5. CASE StoreResult(t)
    <2>1. /\ params[t] = [move |-> moves, branches |-> Share(t)]
          /\ building[t] \subseteq shareFutures(t)
        BY <1>5 DEF StoreResult
    <2>2. building[t] = shareFutures(t)
        BY <1>5, <2>1 DEF StoreResult, FutureOf
    <2> QED
        BY <1>5, <2>2 DEF StoreResult
<1>6. CASE ClearHasWork(t)
    BY <1>6 DEF ClearHasWork
<1>7. CASE StampTime(t)
    BY <1>7 DEF StampTime
<1>8. CASE TestIdle(t)
    BY <1>8 DEF TestIdle
<1>9. CASE FallAsleep(t)
    BY <1>9 DEF FallAsleep
<1>10. CASE IdleLimitPasses(t)
    BY <1>10 DEF IdleLimitPasses
<1> QED
    BY <1>1, <1>2, <1>3, <1>4, <1>5, <1>6, <1>7, <1>8, <1>9, <1>10 DEF Spin

\* So it is by the dispatcher, which never writes building.
LEMMA BuiltDriveStep ==
    ASSUME IInv, BuiltSoFar, Drive \/ Request
    PROVE  BuiltSoFar'
<1> USE DEF BuiltSoFar, IInv, TypeOK, PoolShape, FlagsTellPhase,
            moveInProgress, simulating, handed, Thread, Future, threadVars,
            flagVars, localVars, driverVars, shareFutures, futureFor, Share
<1>1. CASE StartAll
    BY <1>1 DEF StartAll, SpawnThread, FinishConstructor, StartAllReturns
<1>2. CASE WakeAll
    BY <1>2 DEF WakeAll, WakeThread, WakeAllReturns
<1>3. CASE WriteParams
    BY <1>3 DEF WriteParams
<1>4. CASE RaiseHasWork
    BY <1>4 DEF RaiseHasWork
<1>5. CASE PollThread
    BY <1>5 DEF PollThread
<1>6. CASE PollAgain
    BY <1>6 DEF PollAgain
<1>7. CASE CollectResult \/ AnswerMove
    BY <1>7 DEF CollectResult, AnswerMove
<1>8. CASE StopAll
    BY <1>8 DEF StopAll, KillThread, BeginJoin, JoinThread, ClearInstances
<1>9. CASE ReceiveMove
    <2>1. \A t \in Thread : \A f \in building[t] :
              f.move \in Nat /\ f.move < moves'
        <3> SUFFICES ASSUME NEW t \in Thread, NEW f \in building[t]
                     PROVE  f.move \in Nat /\ f.move < moves'
            OBVIOUS
        <3>1. f \in Future /\ f.move <= moves
            OBVIOUS
        <3>2. moves' = moves + 1 /\ moves \in Nat
            BY <1>9 DEF ReceiveMove
        <3> QED
            BY <3>1, <3>2
    <2> QED
        BY <1>9, <2>1 DEF ReceiveMove
<1>10. CASE ReceiveStart \/ CrashOnMove \/ BeginStop
    BY <1>10 DEF ReceiveStart, CrashOnMove, BeginStop
<1> QED
    BY <1>1, <1>2, <1>3, <1>4, <1>5, <1>6, <1>7, <1>8, <1>9, <1>10
       DEF Drive, RunSimulations, Request

\* A step that leaves the futures alone and neither begins nor ends a move is
\* none of the service.
LEMMA Stutters ==
    ASSUME UNCHANGED <<moves, futures, building>>,
           moveInProgress' <=> moveInProgress
    PROVE  UNCHANGED Service!vars
<1>1. moveInProgress' = moveInProgress
    BY DEF moveInProgress
<1> QED
    BY <1>1 DEF Service!vars, futureFor

\* The steps of a simulation thread are those of the service or stutter.
LEMMA SpinRefines ==
    ASSUME IInv, BuiltSoFar, NEW t \in Thread, Spin(t) \/ IdleLimitPasses(t)
    PROVE  Service!Next \/ UNCHANGED Service!vars
<1> USE DEF threadVars, flagVars, localVars, driverVars, Goto
<1>1. CASE BeginWork(t)
    <2>1. moveInProgress /\ \A f \in building[t] : f.move < moves
        BY <1>1 DEF BeginWork, IInv, FlagsTellPhase, BuiltSoFar, handed,
                    simulating
    <2>2. moves \in Nat
        BY DEF IInv, TypeOK
    <2>3. \A b \in Branch : futureFor(b) \notin building[t]
        BY <2>1, <2>2 DEF futureFor
    <2>4. \A b \in Branch, u \in Thread :
              futureFor(b)' \in building'[u] <=> futureFor(b) \in building[u]
        BY <1>1, <2>3 DEF BeginWork, futureFor, IInv, TypeOK
    <2>5. UNCHANGED <<moves, futures, dpc>>
        BY <1>1 DEF BeginWork
    <2> QED
        BY <2>1, <2>4, <2>5 DEF Service!vars, moveInProgress
<1>2. CASE SimulateBranch(t)
    <2>1. PICK b \in params[t].branches :
              /\ FutureOf(t, b) \notin building[t]
              /\ building' = [building EXCEPT ![t] = @ \cup {FutureOf(t, b)}]
        BY <1>2 DEF SimulateBranch
    <2>2. /\ params[t] = [move |-> moves, branches |-> Share(t)]
          /\ moveInProgress
        BY <1>2 DEF SimulateBranch, IInv, FlagsTellPhase, WorkIsCurrent,
                    simulating, handed
    <2>3. /\ b \in Branch /\ b % instances = t
          /\ FutureOf(t, b) = futureFor(b)
        BY <2>1, <2>2 DEF Share, FutureOf, futureFor
    <2>4. \A u \in Thread : futureFor(b) \notin building[u]
        <3> SUFFICES ASSUME NEW u \in Thread, futureFor(b) \in building[u]
                     PROVE  FALSE
            OBVIOUS
        <3>1. futureFor(b) \in shareFutures(u)
            BY <2>2 DEF BuiltSoFar, futureFor
        <3>2. b % instances = u
            BY <3>1, <2>3 DEF shareFutures, futureFor, Share
        <3> QED
            BY <3>2, <2>1, <2>3
    <2>5. \A c \in Branch, u \in Thread :
              futureFor(c)' \in building'[u] <=>
                  \/ futureFor(c) \in building[u]
                  \/ u = t /\ c = b
        BY <1>2, <2>1, <2>3 DEF SimulateBranch, futureFor, IInv, TypeOK
    <2>6. UNCHANGED <<moves, futures, dpc>>
        BY <1>2 DEF SimulateBranch
    <2>7. Service!Simulate(b)
        BY <2>2, <2>3, <2>4, <2>5, <2>6 DEF Service!Simulate, moveInProgress
    <2> QED
        BY <2>3, <2>7 DEF Service!Next
<1>3. CASE \/ TestQuit(t) \/ TestHasWork(t) \/ StoreResult(t)
           \/ ClearHasWork(t) \/ StampTime(t) \/ TestIdle(t) \/ FallAsleep(t)
           \/ IdleLimitPasses(t)
    <2>1. UNCHANGED <<moves, futures, building, dpc>>
        BY <1>3 DEF TestQuit, TestHasWork, StoreResult, ClearHasWork,
                    StampTime, TestIdle, FallAsleep, IdleLimitPasses
    <2> QED
        BY <2>1, Stutters DEF moveInProgress
<1> QED
    BY <1>1, <1>2, <1>3 DEF Spin

\* A call of runSimulations asks; the end of the collecting loop answers; what
\* the dispatcher does in between and otherwise is none of the service.
LEMMA DriveRefines ==
    ASSUME IInv, BuiltSoFar, Drive \/ Request
    PROVE  Service!Next \/ UNCHANGED Service!vars
<1> USE DEF threadVars, flagVars, localVars, driverVars
<1>1. CASE ReceiveMove
    <2>1. /\ ~moveInProgress /\ moveInProgress'
          /\ moves < MaxMoves /\ moves' = moves + 1 /\ building' = building
        BY <1>1 DEF ReceiveMove, moveInProgress
    <2>2. \A u \in Thread : \A f \in building[u] : f.move <= moves
        BY DEF BuiltSoFar
    <2>3. \A b \in Branch, u \in Thread : futureFor(b)' \notin building'[u]
        BY <2>1, <2>2 DEF futureFor, IInv, TypeOK
    <2>4. Service!Ask
        BY <2>1, <2>3 DEF Service!Ask
    <2> QED
        BY <2>4 DEF Service!Next
<1>2. CASE AnswerMove
    <2>1. /\ moveInProgress /\ ~moveInProgress'
          /\ dpc = "collect" /\ cursor = instances
          /\ UNCHANGED <<moves, building, futures>>
        BY <1>2 DEF AnswerMove, moveInProgress
    <2>2. /\ instances \in Nat \ {0} /\ moves \in Nat /\ moves > 0
          /\ instances <= Cores
        BY <2>1 DEF IInv, TypeOK, PoolShape
    <2>3. ASSUME NEW b \in Branch
          PROVE  /\ \E u \in Thread : futureFor(b) \in building[u]
                 /\ futures[futureFor(b)] > 0
        <3>1. b % instances \in 0 .. instances - 1
            BY <2>2, OwnerExists
        <3>2. PICK u \in Thread : u < instances /\ b % instances = u
            BY <2>2, <3>1 DEF Thread
        <3>3. handed(u) /\ ~hasWork[u]
            BY <2>1, <3>2 DEF IInv, FlagsTellPhase, handed
        <3>4. building[u] = shareFutures(u)
            BY <3>3 DEF BuiltSoFar
        <3>5. futureFor(b) \in shareFutures(u)
            BY <3>2 DEF shareFutures, futureFor, Share
        <3>6. futureFor(b) \in Future
            BY DEF futureFor, Future, IInv, TypeOK
        <3>7. futures[futureFor(b)] = 1
            BY <2>1, <3>2, <3>6 DEF IInv, CollectedSoFar, futureFor
        <3> QED
            BY <3>4, <3>5, <3>7
    <2>4. {b \in Branch : \E u \in Thread : futureFor(b) \in building[u]}
              = Branch
        BY <2>3
    <2>5. {b \in Branch : moves > 0 /\ futures[futureFor(b)] > 0} = Branch
        BY <2>2, <2>3
    <2>6. \A b \in Branch : futureFor(b)' = futureFor(b)
        BY <2>1 DEF futureFor
    <2>7. {b \in Branch : moves > 0 /\ futures[futureFor(b)] > 0}' = Branch
        BY <2>1, <2>5, <2>6
    <2>8. {b \in Branch : \E u \in Thread : futureFor(b) \in building[u]}'
              = Branch
        BY <2>1, <2>4, <2>6
    <2>9. Service!Answer
        BY <2>1, <2>4, <2>7, <2>8 DEF Service!Answer
    <2> QED
        BY <2>9 DEF Service!Next
<1>3. CASE CollectResult
    <2>1. /\ moveInProgress /\ moveInProgress'
          /\ UNCHANGED <<moves, building>>
        BY <1>3 DEF CollectResult, moveInProgress
    <2> QED
        BY <2>1 DEF Service!vars, futureFor
<1>4. CASE StartAll \/ WakeAll \/ StopAll
    <2>1. UNCHANGED <<moves, futures, building>> /\ ~moveInProgress
        BY <1>4 DEF StartAll, WakeAll, StopAll, SpawnThread, FinishConstructor,
                    StartAllReturns, WakeThread, WakeAllReturns, KillThread,
                    BeginJoin, JoinThread, ClearInstances, moveInProgress
    <2>2. ~moveInProgress'
        BY <1>4 DEF StartAll, WakeAll, StopAll, SpawnThread, FinishConstructor,
                    StartAllReturns, WakeThread, WakeAllReturns, KillThread,
                    BeginJoin, JoinThread, ClearInstances, moveInProgress,
                    IInv, TypeOK
    <2> QED
        BY <2>1, <2>2, Stutters
<1>5. CASE WriteParams \/ RaiseHasWork \/ PollThread \/ PollAgain
    <2>1. /\ UNCHANGED <<moves, futures, building>>
          /\ moveInProgress /\ moveInProgress'
        BY <1>5 DEF WriteParams, RaiseHasWork, PollThread, PollAgain,
                    moveInProgress
    <2> QED
        BY <2>1, Stutters
<1>6. CASE ReceiveStart \/ CrashOnMove \/ BeginStop
    <2>1. /\ UNCHANGED <<moves, futures, building>>
          /\ ~moveInProgress /\ ~moveInProgress'
        BY <1>6 DEF ReceiveStart, CrashOnMove, BeginStop, moveInProgress
    <2> QED
        BY <2>1, Stutters
<1> QED
    BY <1>1, <1>2, <1>3, <1>4, <1>5, <1>6 DEF Drive, RunSimulations, Request

\* The pool is a refinement of the service: whatever the threads' flags, the
\* sleeping and the polling do, each step is one that MoveService allows or
\* none of its steps, for any number of cores, branches and moves; a move is
\* answered with all of its branches, each simulated once (simulator.cpp:
\* 105-138, 371-438).
THEOREM RefinesService ==
    Spec => Service!Init /\ [][Service!Next]_(Service!vars)
<1>1. Init => Service!Init /\ BuiltSoFar
    BY DEF Init, Service!Init, BuiltSoFar, moveInProgress, futureFor, Thread,
           handed
<1>2. IInv /\ BuiltSoFar /\ [Next]_vars => BuiltSoFar'
    <2>1. CASE UNCHANGED vars
        BY <2>1 DEF vars, threadVars, flagVars, localVars, driverVars,
                    BuiltSoFar, moveInProgress, handed, shareFutures,
                    futureFor, Share
    <2> QED
        BY <2>1, BuiltSpinStep, BuiltDriveStep DEF Next, Ended
<1>3. IInv /\ BuiltSoFar /\ [Next]_vars => [Service!Next]_(Service!vars)
    <2>1. UNCHANGED vars => UNCHANGED Service!vars
        BY Stutters DEF vars, threadVars, flagVars, localVars, driverVars,
                        moveInProgress
    <2> QED
        BY <2>1, SpinRefines, DriveRefines DEF Next, Ended
<1> QED
    BY <1>1, <1>2, <1>3, Invariance, PTL DEF Spec
=============================================================================
