----------------------------- MODULE MCGamePlay -----------------------------
(* GamePlay and the race solver on a 3 x 3 board with at most one wall each *)
(* and two places for a wall.                                               *)
EXTENDS RacePlay

HalfKomis == {-1, 3}
TwoWalls == {<<1, 1>>, <<1, 2>>}

Fences(black, white) ==
  setFencesLeft(initialBoard, [pla \in Players |-> IF pla = P_BLACK THEN black ELSE white])
(* After Black has placed a wall at loc1 and White one at loc2. *)
Walled(loc1, loc2) ==
  playMoveAssumeLegal(playMoveAssumeLegal(initialBoard, loc1, P_BLACK), loc2, P_WHITE)

(* After Black has placed a wall in front of White, who walks around it.   *)
Around ==
  FoldLeft(LAMBDA b, move : playMoveAssumeLegal(b, move[1], move[2]), Fences(1, 0),
           << <<<<1, 1>>, P_BLACK>>, <<<<4, 0>>, P_WHITE>>, <<<<2, 2>>, P_BLACK>>,
              <<<<4, 2>>, P_WHITE>>, <<<<4, 4>>, P_BLACK>>, <<<<2, 2>>, P_WHITE>> >>)

(* Whole games under rules that end them soon, games with one wall left,   *)
(* bare races in three layouts with time for repetitions, and one in which  *)
(* a loser who stalls can reach the limit of plies.                         *)
SomeStarts ==
  {[board |-> Fences(1, 1), rules |-> Rules(komi, 5, 2, 1), turn |-> (komi + 5) \div 4] :
     komi \in HalfKomis}
    \cup {[board |-> Fences(0, 1), rules |-> Rules(-1, 5, 2, 1), turn |-> 0],
          [board |-> Fences(1, 0), rules |-> Rules(3, 5, 0, 0), turn |-> 1]}
    \cup {[board |-> Walled(<<1, 1>>, <<1, 2>>), rules |-> Rules(komi, 8, 2, 1), turn |-> 0] :
            komi \in HalfKomis}
    \cup {[board |-> Walled(<<1, 3>>, <<1, 0>>), rules |-> Rules(-1, 8, 0, 1), turn |-> 1],
          [board |-> Fences(0, 0), rules |-> Rules(3, 8, 2, 1), turn |-> 0],
          [board |-> Fences(0, 0), rules |-> Rules(-1, 8, 3, 1), turn |-> 1],
          [board |-> Around, rules |-> Rules(-5, 11, 3, 1), turn |-> 6]}
=============================================================================
