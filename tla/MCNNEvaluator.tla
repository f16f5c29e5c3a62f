--------------------------- MODULE MCNNEvaluator ---------------------------
(* NNEvaluator with a cache of one slot. *)
EXTENDS NNEvaluator

CONSTANT slot
OneSlot == [pos \in Positions |-> slot]
=============================================================================
