---------------------------- MODULE MCJsRollout ----------------------------
(***************************************************************************)
(* Branches of Minority Report with three snakes, with and without the     *)
(* first move that simulateFutures gives them.                             *)
(***************************************************************************)
EXTENDS JsRollout

MCFirstMoves == {<<>>} \cup {<<d>> : d \in Direction}
=============================================================================
