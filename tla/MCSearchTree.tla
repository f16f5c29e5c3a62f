---------------------------- MODULE MCSearchTree ----------------------------
(* Five positions: two moves of the start meet in w, a cycle leads from x  *)
(* to w and back, and y, where the other player moves, has the hash of w.  *)
EXTENDS SearchTree

Board == {"s", "x", "y", "w", "v"}
Black == {"s", "w"}
Moves == [s |-> [a |-> "x", b |-> "y"],
          x |-> [b |-> "w"],
          y |-> [a |-> "w", c |-> "v"],
          w |-> [e |-> "x"],
          v |-> <<>>]
Player == [p \in Board |-> IF p \in Black THEN "black" ELSE "white"]
Hash == [p \in Board |-> IF p = "y" THEN "w" ELSE p]
Searched == [p \in Board |-> IF p = "y" THEN {"c"} ELSE DOMAIN Moves[p]]
Over == {"v"}
Sizes == <<1, 2, 3>>
TwoThenOne == <<2, 1>>
=============================================================================
