------------------------------ MODULE GamePlay ------------------------------
(***************************************************************************)
(* A game as a controller plays it on a Board and its BoardHistory: strict *)
(* moves (self-play, search), tolerant ones (GTP, SGF: any player, even    *)
(* after the end), a change of komi, resignation, and a cutoff.            *)
(***************************************************************************)
EXTENDS BoardHistory

CONSTANTS Starts,         \* games begun: board, rules and turn
          Komis,          \* doubled komis that a controller may set
          WallMoves,      \* walls that may be placed, a bound on the branching
          MaxLength,      \* bound on the moves of a game
          MaxTolerant,    \* bound on the tolerant moves of a game
          MaxControls     \* bound on the other calls of a controller

ASSUME GameAssumption ==
  /\ \A komi \in Komis : IsValidKomi(komi)
  /\ WallMoves \subseteq HWallLocs \cup VWallLocs
  /\ \A start \in Starts :
       /\ InPlay(start.board) /\ pawnOnGoal(start.board) = C_EMPTY
       /\ AreRules(start.rules) /\ start.turn \in Nat

VARIABLES gameBoard, hist,
          past,       \* history variable: the boards of the game, oldest first
          tolerant,   \* number of tolerant moves made
          controls    \* number of other calls made
gameVars == <<gameBoard, hist, past, tolerant, controls>>

GameInit ==
  \E start \in Starts :
    /\ gameBoard = start.board
    /\ hist = newHistory(gameBoard, P_BLACK, start.rules, start.turn)
    /\ past = <<gameBoard>>
    /\ tolerant = 0 /\ controls = 0

MoveLocs == PawnLocs \cup WallMoves

Move(loc, pla) ==
  \E after \in {playMoveAssumeLegal(gameBoard, loc, pla)} :
    /\ gameBoard' = after
    /\ hist' = makeBoardMoveAssumeLegal(hist, after, loc, pla)
    /\ past' = Append(past, after)

makeBoardMove(loc, pla) ==
  /\ Len(hist.moveHistory) < MaxLength
  /\ histIsLegal(hist, gameBoard, loc, pla)
  /\ Move(loc, pla)
  /\ UNCHANGED <<tolerant, controls>>

(* Bound: only games from a new board see tolerant moves and control calls. *)
FromNewBoard == hist.initialBoard.movenum = 0

makeBoardMoveTolerant(loc, pla) ==
  /\ Len(hist.moveHistory) < MaxLength
  /\ FromNewBoard /\ tolerant < MaxTolerant
  /\ isLegalTolerant(gameBoard, loc, pla)
  /\ Move(loc, pla)
  /\ tolerant' = tolerant + 1
  /\ UNCHANGED controls

Control(h) ==
  /\ FromNewBoard /\ controls < MaxControls
  /\ hist' = h
  /\ controls' = controls + 1
  /\ UNCHANGED <<gameBoard, past, tolerant>>

ChangeKomi(komi) == Control(setKomi(hist, komi))
Resign(pla) == ~hist.isGameFinished /\ Control(setWinnerByResignation(hist, getOpp(pla)))
CutOff == ~hist.isGameFinished /\ Control(endAndScoreGameNow(hist))

GameNext ==
  \/ \E loc \in MoveLocs, pla \in Players : makeBoardMove(loc, pla)
  \/ \E loc \in MoveLocs, pla \in Players : makeBoardMoveTolerant(loc, pla)
  \/ \E komi \in Komis : ChangeKomi(komi)
  \/ \E pla \in Players : Resign(pla)
  \/ CutOff

GameSpec == GameInit /\ [][GameNext]_gameVars

-----------------------------------------------------------------------------
(* Properties *)

(* The side to move at the k-th board of the game. *)
ToMoveAt(k) == IF k = 1 THEN hist.initialPla ELSE getOpp(hist.moveHistory[k - 1].pla)

(* The history remembers the game as it was, with less than it: the count  *)
(* of the current position is the number of times it occurred in the whole *)
(* game, although every position before the last wall is forgotten, and    *)
(* the ring gives the board of each of the last moves, the initial one     *)
(* when the game is shorter, and the current one first.                    *)
HistoryIsOfGame ==
  LET Position(k) == <<past[k].pawn, past[k].colors, past[k].fences, ToMoveAt(k)>>
  IN  /\ hist.currentRepetitionCount
           = Cardinality({k \in DOMAIN past : Position(k) = Position(Len(past))})
      /\ \A ago \in 0 .. NUM_RECENT_BOARDS - 1 :
           getRecentBoard(hist, ago) = past[MaxOf(1, Len(past) - ago)]

(* A finished game has one result that agrees with the board.  Without a   *)
(* resignation or a draw a pawn has arrived and the lead, never zero,      *)
(* names the winner: the two distances to go, plus one for the player to   *)
(* move, plus komi.  The time bonus never turns a result around.           *)
FinishedAsRecorded ==
  LET d(pla) == getShortestPathDistance(gameBoard, pla)
      toMove == IF hist.presumedNextMovePla = P_WHITE THEN 1 ELSE 0
  IN  \/ hist.isResignation /\ hist.winner \in Players
      \/ isDraw(hist) /\ pawnOnGoal(gameBoard) = C_EMPTY /\ hist.lead = 0 /\ hist.score = 0
      \/ /\ ~hist.isResignation /\ hist.isScored
         /\ pawnOnGoal(gameBoard) # C_EMPTY
         /\ tolerant = 0 => hist.lead = 2 * (d(P_BLACK) - d(P_WHITE) + toMove) + hist.rules.komi
         /\ hist.winner = (IF hist.lead > 0 THEN P_WHITE ELSE P_BLACK)
         /\ hist.lead # 0 /\ hist.lead * hist.score >= hist.lead * hist.lead

(* A game is over exactly when the rules end it or a controller does: one  *)
(* that goes on has a pawn on no goal, plies left, no position that        *)
(* occurred often enough to be a draw, and no result; each kind of draw    *)
(* has its cause, and none is drawn with a pawn on its goal.               *)
ResultIsOfBoard ==
  LET repeated == /\ hist.rules.repetitionDrawCount > 0
                  /\ hist.currentRepetitionCount >= hist.rules.repetitionDrawCount
      played == Len(hist.moveHistory) > 0
  IN  /\ IF hist.isGameFinished THEN FinishedAsRecorded
         ELSE ~hist.isResignation /\ hist.winner = C_EMPTY /\ ~hist.isScored
      /\ played /\ ~hist.isGameFinished =>
           pawnOnGoal(gameBoard) = C_EMPTY /\ ~repeated /\ pliesUntilDraw(hist) > 0
      /\ isRepetitionDraw(hist) => repeated /\ pawnOnGoal(gameBoard) = C_EMPTY
      /\ isMaxPliesDraw(hist) /\ played => ~repeated /\ pawnOnGoal(gameBoard) = C_EMPTY

(* Replaying the moves from the initial position gives the same history,   *)
(* komi changes included, unless a controller ended the game itself.       *)
ReplayReproduces ==
  \E replayed \in {Replay(hist)} :
    LET adjudicated == hist.isGameFinished /\ ~replayed.hist.isGameFinished
    IN  /\ replayed.board = gameBoard
        /\ ~hist.isResignation /\ ~adjudicated =>
             [replayed.hist EXCEPT !.recentBoards = <<>>] = [hist EXCEPT !.recentBoards = <<>>]

=============================================================================
