---------------------------- MODULE OneDirection ----------------------------
(***************************************************************************)
(* OneDirection (algorithms/onedirection.cpp), the opponent that goes one  *)
(* way until it is blocked and is cautious from then on.  What it remembers*)
(* is in a static map, under a key made of the game and the branch id; the *)
(* simulation threads and all simulated opponents share that map, and each *)
(* thread numbers its branches from 1.                                     *)
(*                                                                         *)
(* Every access to the map is a step.  Two threads inside the map at once  *)
(* are a data race; of its outcomes only the mildest is modelled here, in  *)
(* which the accesses take effect one after the other.                     *)
(***************************************************************************)
EXTENDS Integers

CONSTANTS Threads,    \* number of simulation threads
          Branches,   \* branches of each thread
          Enemies,    \* opponents on the board
          MaxTurns, MaxMoves

Thread == 1 .. Threads
Branch == 1 .. Branches
Enemy == 1 .. Enemies
Opponent == Thread \X Branch \X Enemy

VARIABLES
    finishMap,  \* OneDirection::_finishMap, the keys of one game
    at,         \* branch and enemy that each thread has move() called for
    turn,       \* turns each thread has begun
    pc,         \* each thread is at "find", "ensure", "try" or "cautious"
    alive,      \* opponents that still take part in their simulation
    cautious,   \* history: opponents that have answered as Cautious
    relapsed,   \* history: opponents that went their direction after that
    moves       \* calls of Sim::move in this game

vars == <<finishMap, at, turn, pc, alive, cautious, relapsed, moves>>
histVars == <<cautious, relapsed>>

\* in Simulation::next: _branchId + 100000
EnemyKey(b) == b + 100000

Init ==
    /\ finishMap = [k \in {} |-> FALSE]
    /\ at = [t \in Thread |-> <<1, 1>>]
    /\ turn = [t \in Thread |-> 1]
    /\ pc = [t \in Thread |-> "find"]
    /\ alive = Opponent
    /\ cautious = {}
    /\ relapsed = {}
    /\ moves = 0

-----------------------------------------------------------------------------
who(t) == <<t, at[t][1], at[t][2]>>
key(t) == EnemyKey(at[t][1])
playing(t) == turn[t] <= MaxTurns

\* the next call of move(): the next enemy, branch or round.  After a turn of
\* a simulation some opponents may have died in it, or it may have ended.
NextCall(t) ==
    LET b == at[t][1]  e == at[t][2]
        ours == {o \in alive : o[1] = t /\ o[2] = b}
    IN /\ pc' = [pc EXCEPT ![t] = "find"]
       /\ at' = [at EXCEPT ![t] = IF e < Enemies THEN <<b, e + 1>>
                                  ELSE IF b < Branches THEN <<b + 1, 1>>
                                  ELSE <<1, 1>>]
       /\ turn' = [turn EXCEPT ![t] = IF e = Enemies /\ b = Branches
                                      THEN @ + 1 ELSE @]
       /\ IF e = Enemies
          THEN \E dead \in SUBSET ours : alive' = alive \ dead
          ELSE alive' = alive

SkipDead(t) ==
    /\ playing(t)
    /\ pc[t] = "find"
    /\ who(t) \notin alive
    /\ NextCall(t)
    /\ UNCHANGED <<finishMap, histVars, moves>>

\* finishIter != _finishMap.end() && finishIter->second
Finished(k) == k \in DOMAIN finishMap /\ finishMap[k]

FindKey(t) ==
    /\ playing(t)
    /\ pc[t] = "find"
    /\ who(t) \in alive
    /\ pc' = [pc EXCEPT ![t] = IF Finished(key(t)) THEN "cautious" ELSE "ensure"]
    /\ UNCHANGED <<finishMap, at, turn, alive, histVars, moves>>

SetFinished(k, value) ==
    finishMap' = [j \in DOMAIN finishMap \cup {k} |->
                     IF j = k THEN value ELSE finishMap[j]]

\* "just make sure in case server restarts or something"
EnsureKey(t) ==
    /\ pc[t] = "ensure"
    /\ pc' = [pc EXCEPT ![t] = "try"]
    /\ SetFinished(key(t), FALSE)
    /\ UNCHANGED <<at, turn, alive, histVars, moves>>

\* tryMove: the way is free
GoOn(t) ==
    /\ pc[t] = "try"
    /\ NextCall(t)
    /\ relapsed' = relapsed \cup {o \in cautious : o = who(t)}
    /\ UNCHANGED <<finishMap, cautious, moves>>

\* tryMove: it is not
FindBlocked(t) ==
    /\ pc[t] = "try"
    /\ pc' = [pc EXCEPT ![t] = "cautious"]
    /\ SetFinished(key(t), TRUE)
    /\ UNCHANGED <<at, turn, alive, cautious, relapsed, moves>>

MoveCautiously(t) ==
    /\ pc[t] = "cautious"
    /\ NextCall(t)
    /\ cautious' = cautious \cup {who(t)}
    /\ UNCHANGED <<finishMap, relapsed, moves>>

Move(t) ==
    SkipDead(t) \/ FindKey(t) \/ EnsureKey(t) \/ GoOn(t) \/ FindBlocked(t)
        \/ MoveCautiously(t)

\* the next call of Sim::move has simulations of its own and the same map
BeginMove ==
    /\ \A t \in Thread : ~playing(t)
    /\ moves < MaxMoves
    /\ moves' = moves + 1
    /\ turn' = [t \in Thread |-> 1]
    /\ alive' = Opponent
    /\ cautious' = {}
    /\ relapsed' = {}
    /\ UNCHANGED <<finishMap, at, pc>>

Next == (\E t \in Thread : Move(t)) \/ BeginMove

Spec == Init /\ [][Next]_vars

-----------------------------------------------------------------------------
(* Properties *)

\* onedirection.cpp:66, "If already finished moving in this direction then
\* switch to cautious": an opponent that has turned cautious in a simulation
\* never goes its direction again there.
CautiousForGood == relapsed = {}

=============================================================================
