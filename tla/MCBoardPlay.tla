---------------------------- MODULE MCBoardPlay ----------------------------
(* BoardPlay on the smallest board with every kind of wall interaction. *)
EXTENDS BoardPlay

EvenOrHandicap ==
  {[pla \in Players |-> MAX_FENCE_NUM], [pla \in Players |-> IF pla = P_WHITE THEN 1 ELSE 0]}
=============================================================================
