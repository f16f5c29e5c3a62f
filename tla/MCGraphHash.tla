---------------------------- MODULE MCGraphHash ----------------------------
(* Two lines on a 3 x 3 board; the lines are interchangeable. *)
EXTENDS GraphHash

OneWall == {<<1, 1>>}
HastyRules == Rules(-1, 5, 2, 1)
LineSymmetry == Permutations(Lines)
=============================================================================
