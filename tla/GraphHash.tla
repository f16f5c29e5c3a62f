----------------------------- MODULE GraphHash -----------------------------
(***************************************************************************)
(* game/graphhash.cpp: the hash under which the search shares a node       *)
(* between the move orders that lead to it.  A hash that chains the hash   *)
(* before a move with the state after it is the sequence of the states in  *)
(* it; getSituationRulesAndKoHash is the tuple of what it mixes.           *)
(*                                                                         *)
(* The specification plays two lines of the same game side by side, the    *)
(* hash of each kept move by move as a search thread does, to compare the  *)
(* hashes of two histories of equal length.                                *)
(***************************************************************************)
EXTENDS BoardHistory

CONSTANTS Lines,       \* the two lines of play
          LineWalls,   \* walls that may be placed, a bound on the branching
          GameRules,   \* the rules of the game
          MaxPlies     \* bound on the moves of a line

ASSUME LinesAssumption ==
  /\ Cardinality(Lines) = 2
  /\ LineWalls \subseteq HWallLocs \cup VWallLocs
  /\ AreRules(GameRules)

getSituationRulesAndKoHash(b, h, pla) == <<getSitHash(b, pla), getCurrentTurnNumber(h), h.rules>>

getStateHash(h, pla) ==
  <<getSituationRulesAndKoHash(getRecentBoard(h, 0), h, pla), h.isGameFinished>>

(* Whether the position after a move at loc cannot repeat an earlier one. *)
(* Fault: pawn moves are taken for irreversible.   *)
simpleRepetitionBoundGt_Always(loc) == TRUE
simpleRepetitionBoundGt(loc) == loc \in HWallLocs \/ loc \in VWallLocs

StartsChain(h) == h.moveHistory = <<>> \/ simpleRepetitionBoundGt(Last(h.moveHistory).loc)

getGraphHash(prev, h, pla) ==
  IF StartsChain(h) THEN <<getStateHash(h, pla)>> ELSE Append(prev, getStateHash(h, pla))

(* Fault: the hash of the final position is left out. *)
FinalGraphHash_NotChained(prev, h, pla) == prev
FinalGraphHash(prev, h, pla) == getGraphHash(prev, h, pla)

getGraphHashFromScratch(orig, pla) ==
  LET Play(s, move) ==
        LET after == playMoveAssumeLegal(s.board, move.loc, move.pla)
        IN  [board |-> after,
             hist |-> makeBoardMoveAssumeLegal(s.hist, after, move.loc, move.pla),
             hash |-> getGraphHash(s.hash, s.hist, move.pla)]
      start == [board |-> orig.initialBoard, hist |-> copyToInitial(orig), hash |-> <<>>]
      final == FoldLeft(Play, start, orig.moveHistory)
  IN  FinalGraphHash(final.hash, final.hist, pla)

-----------------------------------------------------------------------------

VARIABLES boards, hists,   \* the board and the history of each line
          graphHash        \* SearchThread::graphHash of each line
lineVars == <<boards, hists, graphHash>>

LinesInit ==
  LET h == newHistory(initialBoard, P_BLACK, GameRules, 0)
  IN  /\ boards = [line \in Lines |-> initialBoard]
      /\ hists = [line \in Lines |-> h]
      /\ graphHash = [line \in Lines |-> getGraphHash(<<>>, h, P_BLACK)]

(* Both lines make a legal move. *)
playMoves(locs) ==
  LET pla(line) == hists[line].presumedNextMovePla
      after == [line \in Lines |-> playMoveAssumeLegal(boards[line], locs[line], pla(line))]
      next == [line \in Lines |->
                makeBoardMoveAssumeLegal(hists[line], after[line], locs[line], pla(line))]
  IN  /\ \A line \in Lines :
           /\ Len(hists[line].moveHistory) < MaxPlies
           /\ histIsLegal(hists[line], boards[line], locs[line], pla(line))
      /\ boards' = after
      /\ hists' = next
      /\ graphHash' = [line \in Lines |->
                        getGraphHash(graphHash[line], next[line], getOpp(pla(line)))]

LinesNext == \E locs \in [Lines -> PawnLocs \cup LineWalls] : playMoves(locs)

LinesSpec == LinesInit /\ [][LinesNext]_lineVars

-----------------------------------------------------------------------------
(* Properties *)

(* All that the value of a node can depend on: the position, the ply, the  *)
(* result, and how often each position since the last wall has occurred.   *)
FutureOf(line) ==
  LET h == hists[line]
      b == boards[line]
  IN  <<b.pawn, b.colors, b.fences, h.presumedNextMovePla, getCurrentTurnNumber(h),
        h.isGameFinished, h.winner, h.score,
        [p \in ToSet(h.positionsSinceLastWall) |-> numOccurrences(h.positionsSinceLastWall, p)]>>

(* The search graph shares a node only between histories with the same     *)
(* future, so that no repetition or ply count is lost by it, and it does   *)
(* share one between two lines with the same future that differ only in    *)
(* the order of the moves before a wall.                                   *)
SharedNodesAgree ==
  \A l1, l2 \in Lines :
    LET afterWall == \A line \in {l1, l2} : Len(hists[line].positionsSinceLastWall) = 1
    IN  /\ graphHash[l1] = graphHash[l2] => FutureOf(l1) = FutureOf(l2)
        /\ afterWall /\ FutureOf(l1) = FutureOf(l2) => graphHash[l1] = graphHash[l2]

(* The hash kept move by move is the one the search computes for its root  *)
(* from the move list.                                                     *)
IncrementalIsFromScratch ==
  \A line \in Lines :
    graphHash[line] = getGraphHashFromScratch(hists[line], hists[line].presumedNextMovePla)

=============================================================================
