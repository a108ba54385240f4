------------------------------- MODULE Rounds -------------------------------
(***************************************************************************)
(* runSimulationBranches: one simulation thread plays all its branches in  *)
(* rounds, a turn of each branch in every round, until each has ended by a *)
(* loss, by the number of rounds or by the time limit.                     *)
(*                                                                         *)
(* The game inside a branch is abstracted to whether a turn is lost; a     *)
(* Future to the number of turns and the reason.  The clock is taken to    *)
(* run forward: once the limit has passed it stays passed.                 *)
(***************************************************************************)
EXTENDS Integers

CONSTANTS Sims,     \* number of branches handed to this thread
          MaxTurns  \* maxTurns

ASSUME RoundsAssumption == Sims \in Nat /\ MaxTurns \in Nat

Sim == 0 .. Sims - 1

VARIABLES turn,       \* rounds begun
          cursor,     \* the simulation that is next in this round
          turns,      \* _result.turns of each simulation
          reason,     \* _result.terminationReason of each simulation
          completed,  \* completedSimulations
          timeUp,     \* has maxMillis passed since the start?
          late,       \* history: turns played since then
          phase       \* "while", "for", "coerce" or "done"

roundsVars == <<turn, cursor, turns, reason, completed, timeUp, late, phase>>

RoundsTypeOK ==
    /\ turn \in Nat
    /\ cursor \in 0 .. Sims
    /\ turns \in [Sim -> Nat]
    /\ reason \in [Sim -> {"Unknown", "Loss", "MaxTurns", "OutOfTime"}]
    /\ completed \subseteq Sim
    /\ timeUp \in BOOLEAN
    /\ late \in [Sim -> Nat]
    /\ phase \in {"while", "for", "coerce", "done"}

RoundsInit ==
    /\ turn = 0
    /\ cursor = 0
    /\ turns = [s \in Sim |-> 0]
    /\ reason = [s \in Sim |-> "Unknown"]
    /\ completed = {}
    /\ timeUp = FALSE
    /\ late = [s \in Sim |-> 0]
    /\ phase = "while"

-----------------------------------------------------------------------------
Unfinished == completed # Sim

BeginRound ==
    /\ phase = "while"
    /\ Unfinished
    /\ phase' = "for"
    /\ turn' = turn + 1
    /\ cursor' = 0
    /\ UNCHANGED <<turns, reason, completed, timeUp, late>>

LeaveRounds ==
    /\ phase = "while"
    /\ ~Unfinished
    /\ phase' = "coerce"
    /\ UNCHANGED <<turn, cursor, turns, reason, completed, timeUp, late>>

EndRound ==
    /\ phase = "for"
    /\ cursor = Sims
    /\ phase' = "while"
    /\ UNCHANGED <<turn, cursor, turns, reason, completed, timeUp, late>>

MutantSkipCompleted ==
    /\ phase = "for"
    /\ cursor \in completed
    /\ UNCHANGED roundsVars
SkipCompleted ==
    /\ phase = "for"
    /\ cursor \in completed
    /\ cursor' = cursor + 1
    /\ UNCHANGED <<turn, turns, reason, completed, timeUp, late, phase>>

\* sim.next() || turn >= maxTurns || outOfTime
MutantEndsBatch(loss) == loss \/ turn >= MaxTurns \/ (timeUp /\ cursor = 0)
Ends(loss) == loss \/ turn >= MaxTurns \/ timeUp

\* the number under which a simulation is recorded, and its branch id
branchId(s) == s + 1
simNumber(s) == s

MutantPlayed(s) == IF timeUp THEN turns ELSE [turns EXCEPT ![s] = @ + 1]
Played(s) == [turns EXCEPT ![s] = @ + 1]

\* a turn of one simulation; the clock is read before it
PlayTurn ==
    /\ phase = "for"
    /\ cursor \in Sim \ completed
    /\ turns' = Played(cursor)
    /\ late' = [late EXCEPT ![cursor] = IF timeUp THEN @ + 1 ELSE @]
    /\ \E loss \in BOOLEAN :
          /\ reason' = IF loss THEN [reason EXCEPT ![cursor] = "Loss"]
                       ELSE reason
          /\ completed' = IF Ends(loss) THEN completed \cup {simNumber(cursor)}
                          ELSE completed
    /\ cursor' = cursor + 1
    /\ UNCHANGED <<turn, timeUp, phase>>

\* coerceTerminationReason sees the number of rounds, not of turns
MutantCoerced(s) ==
    IF turn >= MaxTurns THEN "MaxTurns"
    ELSE IF reason[s] = "Unknown" THEN "OutOfTime" ELSE reason[s]
Coerced(s) ==
    IF reason[s] # "Unknown" THEN reason[s]
    ELSE IF turn >= MaxTurns THEN "MaxTurns" ELSE "OutOfTime"

CoerceReasons ==
    /\ phase = "coerce"
    /\ phase' = "done"
    /\ reason' = [s \in Sim |-> Coerced(s)]
    /\ UNCHANGED <<turn, cursor, turns, completed, timeUp, late>>

TimePasses ==
    /\ ~timeUp
    /\ timeUp' = TRUE
    /\ UNCHANGED <<turn, cursor, turns, reason, completed, late, phase>>

Run ==
    \/ BeginRound \/ LeaveRounds \/ EndRound \/ SkipCompleted \/ PlayTurn
    \/ CoerceReasons

RoundsNext == Run \/ TimePasses

(* The thread goes on; the time limit need never pass. *)
RoundsSpec == RoundsInit /\ [][RoundsNext]_roundsVars /\ WF_roundsVars(Run)

-----------------------------------------------------------------------------
(* Properties *)

lost(s) == reason[s] = "Loss"

\* Branches are played in lockstep, so that their futures can be compared:
\* of two that were not lost none is more than one turn ahead, and a lost one
\* was never ahead of the others either (simulator.cpp:334-356).
Lockstep ==
    \A s, u \in Sim : lost(u) \/ turns[s] <= turns[u] + 1

\* "Should never have a zero move future" (simulator.cpp:638): a result has a
\* first move even if the time was up or maxTurns was 0 from the beginning.
NoZeroMoveFuture == phase \in {"coerce", "done"} => \A s \in Sim : turns[s] > 0

\* The time limit is overrun by at most one turn of each branch.
BoundedOverrun == \A s \in Sim : late[s] <= 1

\* The reason reported for a branch is true of it: it was lost, or it has
\* played all its turns, but for the last if the time ran out in the final
\* round but one, or the time has run out.
ReasonsHonest ==
    phase = "done" => \A s \in Sim :
        \/ reason[s] = "Loss" /\ turns[s] <= turn
        \/ reason[s] = "MaxTurns" /\ turns[s] >= MaxTurns - 1
        \/ reason[s] = "OutOfTime" /\ timeUp /\ turns[s] < MaxTurns

\* Whether or not the clock ever reaches the limit, the thread gets done.
Terminates == phase = "while" ~> phase = "done"
=============================================================================
