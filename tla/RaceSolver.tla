----------------------------- MODULE RaceSolver -----------------------------
(***************************************************************************)
(* game/racesolver.cpp: with the walls fixed, the pawn race is a game on   *)
(* the placements of two pawns and the side to move.  Retrograde analysis  *)
(* solves all of them at once, one threshold of the final lead at a time.  *)
(*                                                                         *)
(* A state of the race is [pla, pawn].  Leads are doubled (val2), 0 is a   *)
(* race that neither side can win.                                         *)
(***************************************************************************)
EXTENDS BoardHistory

sqOf(loc) == (loc[2] \div 2) * N + loc[1] \div 2
stateIndex(s) ==
  ((IF s.pla = P_BLACK THEN 0 ELSE 1) * N * N + sqOf(s.pawn[P_BLACK])) * N * N + sqOf(s.pawn[P_WHITE])

(* Neither pawn on the other, nor on its goal. *)
RaceStates ==
  {s \in [pla : Players, pawn : [Players -> PawnLocs]] :
     /\ s.pawn[P_BLACK] # s.pawn[P_WHITE]
     /\ \A pla \in Players : s.pawn[pla][2] # GoalRow(pla)}

(* The elements of S in the strict total order Before. *)
Sorted(S, Before(_, _)) ==
  [i \in 1 .. Cardinality(S) |-> CHOOSE e \in S : Cardinality({d \in S : Before(d, e)}) = i - 1]
InOrder(states) == Sorted(states, LAMBDA s, t : stateIndex(s) < stateIndex(t))

(* The moves of the pawn on `me', its opponent being on `opp'. *)
genMoves(colors, me, opp) ==
  LET Over(d) ==
        IF canPawnStep(colors, opp, Plus(opp, Dirs[d])) THEN {Plus(opp, Dirs[d])}
        ELSE {Plus(opp, Dirs[PerpDirs(d)[i]]) : i \in 1 .. 2}
      From(d) ==
        LET step1 == Plus(me, Dirs[d])
        IN  IF step1 # opp THEN {to \in {step1} : canPawnStep(colors, me, to)}
            ELSE {to \in Over(d) : canPawnStep(colors, me, opp) /\ canPawnStep(colors, opp, to)}
  IN  UNION {From(d) : d \in 1 .. 4}

(* The lead when mover's pawn arrives and the loser has distance d to go. *)
terminalVal2(d, komi2, mover) ==
  (IF mover = P_WHITE THEN 2 * MaxOf(1, d) ELSE 2 * (1 - MaxOf(1, d))) + komi2

Arrives(s, to) == to[2] = GoalRow(s.pla)
After(s, to) == [pla |-> getOpp(s.pla), pawn |-> [s.pawn EXCEPT ![s.pla] = to]]

(* For TLC, which evaluates what is given by an expression at every use:   *)
(* the function f tabulated, and Op applied to the value of x.             *)
Table(f) == f @@ <<>>
With(x, Op(_)) == CHOOSE y \in {Op(v) : v \in {x}} : TRUE

(* Moves, the value of an arrival, and successors and predecessors of each *)
(* state; terminals are the states that can arrive, by value, then index.  *)
buildGraph(colors, komi2) ==
  LET dist == Table([pla \in Players |-> Table(calDistMap(colors, pla))])
      moves == Table([s \in RaceStates |-> genMoves(colors, s.pawn[s.pla], s.pawn[getOpp(s.pla)])])
      val == Table([s \in RaceStates |->
               terminalVal2(dist[getOpp(s.pla)][s.pawn[getOpp(s.pla)]], komi2, s.pla)])
      succ == Table([s \in RaceStates |-> {After(s, to) : to \in {m \in moves[s] : ~Arrives(s, m)}}])
      arrivals == [s \in RaceStates |-> Cardinality({to \in moves[s] : Arrives(s, to)})]
      ByValue(s, t) == val[s] < val[t] \/ (val[s] = val[t] /\ stateIndex(s) < stateIndex(t))
  IN  [moves |-> moves, val |-> val, succ |-> succ, arrivals |-> arrivals,
       pred |-> Table([s \in RaceStates |-> InOrder({p \in RaceStates : s \in succ[p]})]),
       terminals |-> Sorted({s \in RaceStates : arrivals[s] > 0}, ByValue)]

(* The states from which the attacker can force an end at least as good    *)
(* as thr, in the order of the number of plies, the rank, that it takes: a *)
(* state is won with one move of the attacker's, or all of the defender's. *)
(* cnt counts the defender's moves that are not lost yet; rank 0: not won. *)
(* The queue is worked off rank by rank.                                   *)
computeAttractor(g, attacker, thr) ==
  LET Reaches(v) == IF attacker = P_WHITE THEN v >= thr ELSE v <= thr
      Seed(s) == Reaches(g.val[s]) /\ (s.pla = attacker \/ g.succ[s] = {})
      seeds == SelectSeq(IF attacker = P_WHITE THEN Reverse(g.terminals) ELSE g.terminals, Seed)
      start == [rank |-> Table([s \in RaceStates |-> IF s \in ToSet(seeds) THEN 1 ELSE 0]),
                cnt |-> Table([s \in RaceStates |->
                          Cardinality(g.moves[s]) - (IF Reaches(g.val[s]) THEN g.arrivals[s] ELSE 0)]),
                queue |-> seeds]
      Visit(a, p, rank) ==
        IF a.rank[p] > 0 THEN a
        ELSE IF p.pla = attacker \/ a.cnt[p] = 1
        THEN [a EXCEPT !.rank[p] = rank, !.queue = Append(@, p)]
        ELSE [a EXCEPT !.cnt[p] = @ - 1]
      Expand(a, s) ==
        With(a, LAMBDA b : FoldLeft(LAMBDA c, p : Visit(c, p, b.rank[s] + 1), b, g.pred[s]))
      Round(a, rank) ==
        With(a, LAMBDA b : FoldLeft(Expand, b, SelectSeq(b.queue, LAMBDA s : b.rank[s] = rank)))
  IN  FoldLeft(Round, start, [rank \in 1 .. Cardinality(RaceStates) |-> rank])

(* What the attractor of `level' wins and no better one did gets that      *)
(* value.  plies looks at the successors of that value so far: the         *)
(* attacker hurries, the defender lingers.                                 *)
assignLevel(g, sol, a, attacker, level) ==
  LET Kept(sl, s) ==
        {sl.plies[t] : t \in {u \in g.succ[s] : sl.val2[u] = level}}
          \cup {0 : to \in {m \in g.moves[s] : Arrives(s, m) /\ g.val[s] = level}}
      Best(sl, s) == IF s.pla = attacker THEN Min(Kept(sl, s) \cup {32000})
                     ELSE Max(Kept(sl, s) \cup {-1})
      Assign(sl, s) ==
        IF sl.forced[s] > 0 THEN sl
        ELSE [sl EXCEPT !.val2[s] = level, !.forced[s] = a.rank[s], !.plies[s] = Best(sl, s) + 1]
  IN  FoldLeft(Assign, sol, a.queue)

(* The levels of White's wins from the largest, then of Black's. *)
solveGraph(g) ==
  LET values == {g.val[s] : s \in ToSet(g.terminals)}
      levels == Sorted({v \in values : v > 0}, LAMBDA v, w : v > w)
                  \o Sorted({v \in values : v <= 0}, LAMBDA v, w : v < w)
      winner(level) == IF level > 0 THEN P_WHITE ELSE P_BLACK
      zero == Table([s \in RaceStates |-> 0])
      Level(sol, level) ==
        With(<<sol, computeAttractor(g, winner(level), level)>>,
             LAMBDA r : assignLevel(g, r[1], r[2], winner(level), level))
  IN  FoldLeft(Level, [val2 |-> zero, plies |-> zero, forced |-> zero,
                       moves |-> g.moves, val |-> g.val], levels)
solve(colors, komi2) == With(buildGraph(colors, komi2), solveGraph)

-----------------------------------------------------------------------------
(* The cache is keyed by the bitmaps of the walls and by komi. *)

makeKey(b, komi2) == [hWalls |-> b.hWalls, vWalls |-> b.vWalls, komi2 |-> komi2]

ColorsOf(key) ==
  LET cells == (UNION {WallCells(a, FALSE) : a \in key.hWalls})
                 \cup (UNION {WallCells(a, TRUE) : a \in key.vWalls})
  IN  [loc \in Locs |-> IF loc \in cells THEN C_FENCE ELSE C_EMPTY]

-----------------------------------------------------------------------------
(* Evaluation of a position, given the solution `sol' of its walls *)

unsolved == [solved |-> FALSE, exact |-> FALSE, winner |-> C_EMPTY, lead2 |-> 0, plies |-> 0]

(* No earlier position occurred so often that to enter it again is a draw. *)
repetitionHistoryIsClean(h) ==
  LET prev == SelectSeq(Front(h.positionsSinceLastWall),
                        LAMBDA hash : hash # Last(h.positionsSinceLastWall))
  IN  h.rules.repetitionDrawCount > 0 =>
        \A hash \in ToSet(prev) : numOccurrences(prev, hash) < h.rules.repetitionDrawCount - 1

(* Fault: looks at the plies of optimal play, not at those a loser can stall. *)
FitsInPlies_Optimal(sol, s, h) == sol.plies[s] <= pliesUntilDraw(h)
FitsInPlies(sol, s, h) == sol.forced[s] <= pliesUntilDraw(h)

evaluate(sol, b, h, nextPla) ==
  LET s == [pla |-> nextPla, pawn |-> b.pawn]
      exact == \A pla \in Players : b.fences[pla] = 0
      v == sol.val2[s]
      winner == IF v > 0 THEN P_WHITE ELSE P_BLACK
      proven == exact \/ (v # 0 /\ b.fences[winner] > 0)
  IN  IF \/ h.isGameFinished \/ \A pla \in Players : b.fences[pla] > 0
         \/ s \notin RaceStates \/ ~proven
      THEN unsolved
      ELSE IF v = 0
      THEN [unsolved EXCEPT !.solved = TRUE, !.exact = TRUE]
      ELSE IF ~FitsInPlies(sol, s, h) \/ ~repetitionHistoryIsClean(h)
      THEN unsolved
      ELSE [solved |-> TRUE, exact |-> exact, winner |-> winner, lead2 |-> v, plies |-> sol.plies[s]]

(* The moves that keep the value: of a win the fastest for the winner and  *)
(* the slowest for the loser.                                              *)
(* Fault: a winner lingers as well.                                        *)
Preferred_Slowest(moverWins, ranks) == Max(ranks)
Preferred(moverWins, ranks) == IF moverWins THEN Min(ranks) ELSE Max(ranks)

optimalMoves(sol, b, h, pla) ==
  LET s == [pla |-> pla, pawn |-> b.pawn]
      v == sol.val2[s]
      rank == [to \in sol.moves[s] |-> IF Arrives(s, to) THEN 0 ELSE sol.plies[After(s, to)]]
      keep == {to \in sol.moves[s] :
                 v = IF Arrives(s, to) THEN sol.val[s] ELSE sol.val2[After(s, to)]}
      best == Preferred((v > 0) = (pla = P_WHITE), {rank[to] : to \in keep})
      r == evaluate(sol, b, h, pla)
  IN  IF ~r.solved \/ ~r.exact THEN {}
      ELSE IF v = 0 THEN keep ELSE {to \in keep : rank[to] = best}

=============================================================================
