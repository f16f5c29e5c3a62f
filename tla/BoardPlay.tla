----------------------------- MODULE BoardPlay -----------------------------
(***************************************************************************)
(* A board being played on: moves that are kept (playMove), moves that are *)
(* recorded and taken back in LIFO order (playMoveRecorded, undo), by      *)
(* either player, from a new board with any fence handicap.                *)
(***************************************************************************)
EXTENDS Board

CONSTANTS Handicaps,  \* walls the players may start with
          MaxMoves,   \* bound on the moves made on the board
          MaxUndo     \* bound on the recorded moves not yet taken back

ASSUME HandicapsAssumption == Handicaps \subseteq [Players -> 0 .. MAX_FENCE_NUM]
ASSUME BoundsAssumption == MaxMoves \in Nat /\ MaxUndo \in Nat

VARIABLES board,      \* the Board
          records     \* stack of move records; `before' is a history variable,
                      \* the board the recorded move was made on
vars == <<board, records>>

Init ==
  /\ \E fences \in Handicaps : board = setFencesLeft(initialBoard, fences)
  /\ records = <<>>

(* A move that nobody will take back. *)
playMove(loc, pla) ==
  /\ board.movenum < MaxMoves
  /\ records = <<>>
  /\ isLegal(board, loc, pla)
  /\ board' = playMoveAssumeLegal(board, loc, pla)
  /\ UNCHANGED records

playMoveRecorded(loc, pla) ==
  /\ board.movenum < MaxMoves
  /\ Len(records) < MaxUndo
  /\ isLegal(board, loc, pla)
  /\ records' = Append(records, [record |-> MoveRecord(board, loc, pla), before |-> board])
  /\ board' = playMoveAssumeLegal(board, loc, pla)

undoLast ==
  /\ records # <<>>
  /\ board' = undo(board, Last(records).record)
  /\ records' = Front(records)

Next ==
  \/ \E loc \in Locs, pla \in Players : playMove(loc, pla)
  \/ \E loc \in Locs, pla \in Players : playMoveRecorded(loc, pla)
  \/ undoLast

Spec == Init /\ [][Next]_vars

-----------------------------------------------------------------------------
(* Properties *)

(* Type invariant of the board: every field the rules read has its type. *)
TypeOK ==
  /\ board.colors \in [Locs -> Colors]
  /\ board.pawn \in [Players -> PawnLocs]
  /\ board.fences \in [Players -> 0 .. MAX_FENCE_NUM]
  /\ board.hWalls \in SUBSET Anchors /\ board.vWalls \in SUBSET Anchors
  /\ board.movenum \in 0 .. MaxMoves
  /\ Len(records) <= MaxUndo

(* The board is consistent, whatever is placed on it and taken back.       *)
BoardConsistent == Consistent(board)

(* The incrementally kept hash is the one that init, getMirroredX and      *)
(* ofJson compute from the position, whatever moves led to it; and the     *)
(* hash with which repetitions are foreseen before a pawn move is played   *)
(* is the situation hash of the board after it.                            *)
HashIsOfPosition ==
  /\ board.hash = HashFromScratch(board)
  /\ \A pla \in Players : \A to \in ToSet(getLegalPawnDestinations(board, pla)) :
       getSitHashAfterPawnMove(board, to, pla)
         = getSitHash(playMoveAssumeLegal(board, to, pla), getOpp(pla))

(* A cached path is always the path that a search from scratch would       *)
(* return, though a wall that does not cut it and every opponent's pawn    *)
(* move leave it alone, and it is as long as the entry of the distance map *)
(* that is searched from the goal row.  Without the first the lazy         *)
(* full-block check is unsound, without the second scores and the          *)
(* distances shown to the network differ.                                  *)
PathsFresh ==
  \A pla \in Players :
    /\ board.path[pla] = shortestPath(board.colors, board.pawn[pla], pla)
    /\ Len(board.path[pla]) - 1 = calDistMap(board.colors, pla)[board.pawn[pla]]

(* What is derived from the position and kept beside it, the hash and the  *)
(* paths, is never stale.                                                  *)
DerivedDataIsFresh == HashIsOfPosition /\ PathsFresh

(* The rule that no wall may take away a player's last way to the goal:    *)
(* an anchor that is free is legal if and only if, with the wall on the    *)
(* board, the distance map of each player still reaches its pawn.  The     *)
(* code decides it by looking at two cached paths.  (Every position is     *)
(* reached with no record outstanding.)                                    *)
WallLegalIffNoFullBlock ==
  \A anchor \in Anchors, isVertical \in BOOLEAN :
    records = <<>> /\ NoOverlap(board, anchor, isVertical) =>
      \A after \in {placeFence(board, WallCells(anchor, isVertical)).colors} :
        isGeometricallyLegalWallPlacement(board, anchor, isVertical)
          <=> \A pla \in Players : calDistMap(after, pla)[board.pawn[pla]] # -1

(* isLegalPawnMove and getLegalPawnDestinations, two transcriptions of the *)
(* jump rules, describe the same moves, none is generated twice, and there *)
(* always is one: nobody being walled in makes a stalemate impossible,     *)
(* which the search relies on (there is no pass).                          *)
PawnMovesAgree ==
  \A pla \in Players :
    LET moves == getLegalPawnDestinations(board, pla)
    IN  /\ {loc \in Locs : isLegalPawnMove(board, loc, pla)} = ToSet(moves)
        /\ Cardinality(ToSet(moves)) = Len(moves)
        /\ moves # <<>>

(* The mirrored board is consistent and has the mirrored legal moves: the  *)
(* symmetry with which training data and evaluations are augmented.        *)
MirrorIsSymmetry ==
  records = <<>> =>
    LET m == getMirroredX(board)
    IN  /\ Consistent(m)
        /\ \A pla \in Players :
             LegalMoves(m, pla) = {getMirrorLoc(loc) : loc \in LegalMoves(board, pla)}

(* Taking a recorded move back restores the whole board, hash and cached   *)
(* paths included, to what it was before the move.                         *)
UndoRestores == [][undoLast => board' = Last(records).before]_vars

=============================================================================
