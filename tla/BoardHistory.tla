---------------------------- MODULE BoardHistory ----------------------------
(***************************************************************************)
(* game/boardhistory.{h,cpp}: the record of a game, which detects its end, *)
(* scores it, and counts repeated positions.  Komi is a half-integer in    *)
(* the code; komi, lead and score are kept doubled here.                   *)
(***************************************************************************)
EXTENDS Board

CONSTANT NUM_RECENT_BOARDS      \* length of the ring of recent boards (6 in the code)

ASSUME RingAssumption == NUM_RECENT_BOARDS \in Nat \ {0}

IsValidKomi(doubledKomi) == doubledKomi \in Int /\ doubledKomi % 2 = 1

(* Rules; a repetitionDrawCount of 0 is off. *)
Rules(komi, maxPlies, repetitionDrawCount, timeBonusPerPly) ==
  [komi |-> komi, maxPlies |-> maxPlies, repetitionDrawCount |-> repetitionDrawCount,
   timeBonusPerPly |-> timeBonusPerPly]
AreRules(rules) ==
  /\ rules = Rules(rules.komi, rules.maxPlies, rules.repetitionDrawCount, rules.timeBonusPerPly)
  /\ IsValidKomi(rules.komi) /\ rules.maxPlies \in Nat \ {0}
  /\ rules.repetitionDrawCount \in Nat \ {1} /\ rules.timeBonusPerPly \in Nat

MaxOf(a, b) == IF a >= b THEN a ELSE b
Sign(i) == IF i > 0 THEN 1 ELSE -1

-----------------------------------------------------------------------------
(* Construction: clear and the constructors, with resetRepetitions. *)

newHistory(b, pla, rules, turn) ==
  [rules |-> rules,
   moveHistory |-> <<>>, initialBoard |-> b, initialPla |-> pla, initialTurnNumber |-> turn,
   recentBoards |-> [i \in 0 .. NUM_RECENT_BOARDS - 1 |-> b], currentRecentBoardIdx |-> 0,
   presumedNextMovePla |-> pla,
   isGameFinished |-> FALSE, winner |-> C_EMPTY, isResignation |-> FALSE,
   isRepetitionDrawFlag |-> FALSE, isScored |-> FALSE, lead |-> 0, score |-> 0,
   positionsSinceLastWall |-> <<getSitHash(b, pla)>>, currentRepetitionCount |-> 1]

copyToInitial(h) ==  newHistory(h.initialBoard, h.initialPla, h.rules, h.initialTurnNumber)

-----------------------------------------------------------------------------
(* Queries *)

getRecentBoard(h, numMovesAgo) ==
  h.recentBoards[(h.currentRecentBoardIdx - numMovesAgo) % NUM_RECENT_BOARDS]

getCurrentTurnNumber(h) == h.initialTurnNumber + Len(h.moveHistory)
pliesUntilDraw(h) == MaxOf(0, h.rules.maxPlies - getCurrentTurnNumber(h))

isDraw(h) == h.isGameFinished /\ ~h.isResignation /\ h.winner = C_EMPTY
isRepetitionDraw(h) == isDraw(h) /\ h.isRepetitionDrawFlag
isMaxPliesDraw(h) ==
  isDraw(h) /\ ~h.isRepetitionDrawFlag /\ getCurrentTurnNumber(h) >= h.rules.maxPlies

numOccurrences(hashes, hash) == Cardinality({i \in DOMAIN hashes : hashes[i] = hash})

(* Black's pawn is looked at first. *)
pawnOnGoal(b) ==
  IF b.pawn[P_BLACK][2] = GoalRow(P_BLACK) THEN P_BLACK
  ELSE IF b.pawn[P_WHITE][2] = GoalRow(P_WHITE) THEN P_WHITE ELSE C_EMPTY

histIsLegal(h, b, loc, pla) ==
  ~h.isGameFinished /\ pla = h.presumedNextMovePla /\ isLegal(b, loc, pla)
isLegalTolerant(b, loc, pla) == pla \in Players /\ isLegal(b, loc, pla)

-----------------------------------------------------------------------------
(* The end of the game *)

endAsRuleDraw(h, byRepetition) ==
  [h EXCEPT !.isGameFinished = TRUE, !.winner = C_EMPTY, !.isResignation = FALSE,
            !.isScored = TRUE, !.isRepetitionDrawFlag = byRepetition, !.lead = 0, !.score = 0]

whiteMarginWhenWonBy(b, winner) ==
  LET d == MaxOf(1, getShortestPathDistance(b, getOpp(winner)))
  IN  IF winner = P_WHITE THEN d ELSE -d

(* Fault: the tempo that White has in hand when Black arrives is forgotten. *)
Tempo_Margin(b, arrived) == whiteMarginWhenWonBy(b, arrived)
Tempo(b, arrived) ==
  IF arrived = P_WHITE THEN whiteMarginWhenWonBy(b, arrived)
  ELSE whiteMarginWhenWonBy(b, arrived) + 1

scoreGameEndedAtGoal(h, b, arrived) ==
  LET lead == 2 * Tempo(b, arrived) + h.rules.komi
      bonus == 2 * h.rules.timeBonusPerPly * pliesUntilDraw(h)
  IN  [h EXCEPT !.isGameFinished = TRUE, !.isResignation = FALSE, !.isScored = TRUE,
                !.winner = IF lead > 0 THEN P_WHITE ELSE P_BLACK,
                !.lead = lead, !.score = lead + Sign(lead) * bonus]

(* Fault: a new komi leaves the result of a finished game alone. *)
Rescore_Never(h) == h
Rescore(h) ==
  IF /\ h.isGameFinished /\ h.isScored /\ ~h.isResignation
     /\ pawnOnGoal(getRecentBoard(h, 0)) # C_EMPTY
  THEN scoreGameEndedAtGoal(h, getRecentBoard(h, 0), pawnOnGoal(getRecentBoard(h, 0)))
  ELSE h
setKomi(h, komi) == Rescore([h EXCEPT !.rules.komi = komi])

endAndScoreGameNow(h) == IF h.isGameFinished THEN h ELSE endAsRuleDraw(h, FALSE)

setWinnerByResignation(h, pla) ==
  [h EXCEPT !.isGameFinished = TRUE, !.winner = pla, !.isResignation = TRUE]

-----------------------------------------------------------------------------
(* A move *)

resetTerminalState(h) ==
  [h EXCEPT !.isGameFinished = FALSE, !.winner = C_EMPTY, !.isResignation = FALSE,
            !.isRepetitionDrawFlag = FALSE, !.isScored = FALSE, !.lead = 0, !.score = 0]

PushRecentBoard(h, b) ==
  LET idx == (h.currentRecentBoardIdx + 1) % NUM_RECENT_BOARDS
  IN  [h EXCEPT !.recentBoards[idx] = b, !.currentRecentBoardIdx = idx]

(* Fault: pawn moves start the count again as well.  *)
CountRepetitions_ClearAlways(h, isWall, posHash) ==
  [h EXCEPT !.positionsSinceLastWall = <<posHash>>, !.currentRepetitionCount = 1]
(* A wall makes every earlier position unreachable. *)
CountRepetitions(h, isWall, posHash) ==
  [h EXCEPT !.positionsSinceLastWall = Append(IF isWall THEN <<>> ELSE @, posHash),
            !.currentRepetitionCount =
              IF isWall THEN 1 ELSE 1 + numOccurrences(h.positionsSinceLastWall, posHash)]

CheckTerminal(h, b) ==
  IF pawnOnGoal(b) # C_EMPTY THEN scoreGameEndedAtGoal(h, b, pawnOnGoal(b))
  ELSE IF h.rules.repetitionDrawCount > 0 /\ h.currentRepetitionCount >= h.rules.repetitionDrawCount
  THEN endAsRuleDraw(h, TRUE)
  ELSE IF getCurrentTurnNumber(h) >= h.rules.maxPlies THEN endAsRuleDraw(h, FALSE)
  ELSE h

(* The history after the move that turned the board into `after'. *)
makeBoardMoveAssumeLegal(h, after, loc, pla) ==
  LET next == getOpp(pla)
      moved == [resetTerminalState(h) EXCEPT
                  !.moveHistory = Append(@, [loc |-> loc, pla |-> pla]),
                  !.presumedNextMovePla = next]
      counted == CountRepetitions(PushRecentBoard(moved, after), loc \notin PawnLocs,
                                  getSitHash(after, next))
  IN  CheckTerminal(counted, after)

(* The game replayed from its initial position. *)
Replay(h) ==
  LET Play(s, move) ==
        LET after == playMoveAssumeLegal(s.board, move.loc, move.pla)
        IN  [board |-> after, hist |-> makeBoardMoveAssumeLegal(s.hist, after, move.loc, move.pla)]
  IN  FoldLeft(Play, [board |-> h.initialBoard, hist |-> copyToInitial(h)], h.moveHistory)

=============================================================================
