----------------------------- MODULE MCDecision -----------------------------
(***************************************************************************)
(* The two loops a decision of Sim is made by: the rounds of a simulation  *)
(* thread, and the choice from the futures of all threads.  They share a   *)
(* run and nothing else; a behaviour is one of either.                     *)
(*                                                                         *)
(* The choice is between three keys: two that begin with going up, one with*)
(* going left.  Deaths, meals and the room there is lie around the limits  *)
(* that the scores are compared with.                                      *)
(***************************************************************************)
EXTENDS BestMove, Rounds, FiniteSetsExt, TLC

CONSTANTS k1, k2, k3

MCKey == {k1, k2, k3}
MCDirection == {"Up", "Left"}

\* scoreFuture's murderScore, from the turns in which other snakes die
MurderScore(obituaries) ==
    FoldSet(LAMBDA t, sum : sum + 10000 * (100 - (IF t > 100 THEN 100 ELSE t)),
            0, obituaries)

FirstMove(k) == IF k = k3 THEN "Left" ELSE "Up"

\* when I die and what I have murdered by then
MCEnds == ({0, 9} \X {{}, {4, 150}}) \cup ({12, 15} \X {{}})

MCFutures ==
    {[key |-> k, move |-> FirstMove(k), turns |-> 30, death |-> e[1],
      meal |-> m, murder |-> MurderScore(e[2])] :
        k \in MCKey, m \in {0, 5}, e \in MCEnds}
    \cup {[key |-> k1, move |-> "Up", turns |-> 0, death |-> 0,
           meal |-> 0, murder |-> 0]}

MCSituation ==
    {[health |-> h, length |-> 16, spaces |-> ("Up" :> u @@ "Left" :> 20),
      corner |-> c, preferred |-> p] :
        h \in {13, 100}, u \in {12, 20}, c \in {{}, {"Up"}},
        p \in {"Up", "Left", NoDirection}}

-----------------------------------------------------------------------------
DecisionInit ==
    \/ /\ RoundsInit
       /\ state = "none" /\ futures = {} /\ worst = <<>> /\ best = <<>>
       /\ result = {} /\ pc = "none"
    \/ /\ Init
       /\ turn = 0 /\ cursor = 0 /\ turns = [s \in Sim |-> 0]
       /\ reason = [s \in Sim |-> "Unknown"] /\ completed = {}
       /\ timeUp = TRUE /\ late = [s \in Sim |-> 0]
       /\ phase = "none"

DecisionNext ==
    \/ RoundsNext /\ UNCHANGED vars
    \/ Next /\ UNCHANGED roundsVars

DecisionSpec ==
    /\ DecisionInit
    /\ [][DecisionNext]_<<vars, roundsVars>>
    /\ WF_roundsVars(Run)
=============================================================================
