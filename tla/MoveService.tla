---------------------------- MODULE MoveService ----------------------------
(***************************************************************************)
(* What the simulation pool promises to Sim::move (sim.cpp:98): a call of  *)
(* runSimulations simulates every branch of the move it was asked for,     *)
(* each branch once, and then hands the futures of exactly those branches  *)
(* to bestMove.  Threads, flags and polling do not appear here; module     *)
(* SimThreadPool is shown to implement this specification.                 *)
(***************************************************************************)
EXTENDS Integers

CONSTANTS Branch,    \* the branches of one move
          MaxMoves   \* bound on the number of moves asked for

VARIABLES busy,      \* is a call of runSimulations in progress?
          moves,     \* number of calls so far
          simulated, \* branches simulated so far for the current call
          answer     \* branches whose futures the last call returned

vars == <<busy, moves, simulated, answer>>

Init ==
    /\ busy = FALSE
    /\ moves = 0
    /\ simulated = {}
    /\ answer = {}

Ask ==
    /\ ~busy
    /\ moves < MaxMoves
    /\ busy' = TRUE
    /\ moves' = moves + 1
    /\ simulated' = {}
    /\ answer' = {}

Simulate(b) ==
    /\ busy
    /\ b \notin simulated
    /\ simulated' = simulated \cup {b}
    /\ UNCHANGED <<busy, moves, answer>>

Answer ==
    /\ busy
    /\ simulated = Branch
    /\ busy' = FALSE
    /\ answer' = simulated
    /\ UNCHANGED <<moves, simulated>>

Next == Ask \/ (\E b \in Branch : Simulate(b)) \/ Answer

(* A call that was made goes on until it is answered. *)
Fairness == WF_vars(Answer \/ \E b \in Branch : Simulate(b))

Spec == Init /\ [][Next]_vars /\ Fairness
=============================================================================
