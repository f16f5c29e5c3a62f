------------------------------ MODULE RacePlay ------------------------------
(***************************************************************************)
(* The race solver beside games that are really played: what it says of a  *)
(* position of GamePlay is compared with the value of the game under the   *)
(* rules of BoardHistory, walls, repetitions and the limit of plies        *)
(* included, of which the solver knows next to nothing.                    *)
(***************************************************************************)
EXTENDS GamePlay, RaceSolver

(* getCached: every solution that a game can ask for.  The cache evicts    *)
(* entries and solves them again; to ask is always to get the solution.    *)
Keys ==
  {[hWalls |-> start.board.hWalls \cup {AnchorOf(loc) : loc \in walls \cap HWallLocs},
    vWalls |-> start.board.vWalls \cup {AnchorOf(loc) : loc \in walls \cap VWallLocs},
    komi2 |-> komi] :
   start \in Starts, walls \in SUBSET WallMoves, komi \in Komis \cup {st.rules.komi : st \in Starts}}
Cache == [key \in Keys |-> solve(ColorsOf(key), key.komi2)]
getCached(b, komi2) == Cache[makeKey(b, komi2)]

Race(b, h, pla) == evaluate(getCached(b, h.rules.komi), b, h, pla)

-----------------------------------------------------------------------------
(* The value of the game from here, as a doubled lead, 0 for a draw. *)
Best(pla, values) == IF pla = P_WHITE THEN Max(values) ELSE Min(values)
RECURSIVE GameValue(_, _)
GameValue(b, h) ==
  LET pla == h.presumedNextMovePla
  IN  IF h.isGameFinished THEN h.lead
      ELSE Best(pla, {GameValue(m.board, makeBoardMoveAssumeLegal(h, m.board, m.loc, pla)) :
                        m \in {[loc |-> loc, board |-> playMoveAssumeLegal(b, loc, pla)] :
                                 loc \in {l \in MoveLocs : isLegal(b, l, pla)}}})

(* A solved position is worth what the solver says: exactly if neither     *)
(* player has walls, and at least that much for the only player with walls *)
(* if he wins the bare race.  Plies that run out, positions that occurred  *)
(* before and the other player's detours must not make it false.           *)
RaceIsTheGame ==
  \E r \in {Race(gameBoard, hist, hist.presumedNextMovePla)} :
    r.solved =>
      \E value \in {GameValue(gameBoard, hist)} :
        IF r.exact THEN value = r.lead2
        ELSE IF r.winner = P_WHITE THEN value >= r.lead2 ELSE value <= r.lead2

(* Self-play and search finish an exactly solved game with optimal moves.  *)
(* Each is legal; it ends the game with the announced lead, and not before *)
(* the announced ply unless the race is drawn, or it leaves a race that is *)
(* announced to be a ply shorter.  And it keeps the value of the game,     *)
(* whether or not evaluate vouches for the new position, exactly if the    *)
(* plies that are left hold every line in which the loser gives up lead to *)
(* stall.  Near the limit they may not: the way on which a winner is the   *)
(* fastest can allow more stalling than another.  Positions that are       *)
(* repeated, as the one just left may be, never cost the value.            *)
FinishKeepsValue ==
  \E pla \in {hist.presumedNextMovePla}, sol \in {getCached(gameBoard, hist.rules.komi)} :
    \E r \in {evaluate(sol, gameBoard, hist, pla)} :
      r.solved /\ r.exact =>
        \E moves \in {optimalMoves(sol, gameBoard, hist, pla)} :
          /\ moves # {}
          /\ \A loc \in moves : \E after \in {playMoveAssumeLegal(gameBoard, loc, pla)} :
               \E h \in {makeBoardMoveAssumeLegal(hist, after, loc, pla)} :
                 /\ isLegal(gameBoard, loc, pla)
                 /\ IF h.isGameFinished
                    THEN h.lead = r.lead2 /\ (r.plies = 1 \/ r.lead2 = 0)
                    ELSE \E s \in {[pla |-> getOpp(pla), pawn |-> after.pawn]} :
                           /\ r.lead2 # 0 => sol.plies[s] = r.plies - 1
                           /\ (GameValue(after, h) = r.lead2) = (sol.forced[s] <= pliesUntilDraw(h))

=============================================================================
