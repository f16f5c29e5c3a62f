------------------------------- MODULE Board -------------------------------
(***************************************************************************)
(* The Quoridor board of game/board.{h,cpp}, as operators on a record.     *)
(*                                                                         *)
(* An N x N Quoridor board is kept on a (2N-1) x (2N-1) grid of colors:    *)
(* pawn cells have two even coordinates, the centre of a wall has two odd  *)
(* ones, and the arms of a wall lie between two pawn cells.  A wall covers *)
(* its centre and the two arms beside it (horizontal) or above and below   *)
(* it (vertical).  The code fixes N = 9; every bound that it writes as 8,  *)
(* 9, 16 or 17 is written here in terms of N.                              *)
(*                                                                         *)
(* A location is the pair <<x, y>>, the inverse of Location::getLoc.       *)
(* Zobrist keys are independent random 128-bit values combined by XOR: a   *)
(* hash is the set of the keys in it and XOR is symmetric difference, so   *)
(* two hashes are equal exactly when no accident of the keys is involved.  *)
(***************************************************************************)
EXTENDS Integers, Sequences, FiniteSets, FiniteSetsExt, SequencesExt

CONSTANTS N,              \* pawn cells per side
          MAX_FENCE_NUM   \* walls of each player at the start

(* The pawns start in the middle column, which must be a pawn cell. *)
ASSUME BoardSizeAssumption == N \in Nat /\ N >= 3 /\ N % 2 = 1
ASSUME FenceNumAssumption == MAX_FENCE_NUM \in Nat

P_BLACK == "black"
P_WHITE == "white"
Players == {P_BLACK, P_WHITE}
getOpp(pla) == IF pla = P_BLACK THEN P_WHITE ELSE P_BLACK

(* A pawn's color is its player, as in the code (C_BLACK = P_BLACK). *)
C_EMPTY == "empty"
C_FENCE == "fence"
Colors == Players \cup {C_EMPTY, C_FENCE}

size == 2 * N - 1
Locs == (0 .. size - 1) \X (0 .. size - 1)
PawnLocs == {loc \in Locs : loc[1] % 2 = 0 /\ loc[2] % 2 = 0}
HWallLocs == {loc \in Locs : loc[1] % 2 = 1 /\ loc[2] % 2 = 1}
VWallLocs == {loc \in Locs : loc[1] % 2 = 1 /\ loc[2] % 2 = 0 /\ loc[2] <= size - 3}
Anchors == (0 .. N - 2) \X (0 .. N - 2)

Plus(a, b) == <<a[1] + b[1], a[2] + b[2]>>
Between(a, b) == <<(a[1] + b[1]) \div 2, (a[2] + b[2]) \div 2>>
Abs(i) == IF i < 0 THEN -i ELSE i
Dist(a, b) == Abs(a[1] - b[1]) + Abs(a[2] - b[2])

(* Steps of a pawn in the order in which every loop of the code tries them. *)
Dirs == << <<0, -2>>, <<-2, 0>>, <<2, 0>>, <<0, 2>> >>
PerpDirs(d) == IF d \in {1, 4} THEN <<2, 3>> ELSE <<1, 4>>

GoalRow(pla) == IF pla = P_BLACK THEN 0 ELSE size - 1

-----------------------------------------------------------------------------
(* Walls *)

WallCenter(anchor) == <<2 * anchor[1] + 1, 2 * anchor[2] + 1>>
Arms(center, isVertical) ==
  IF isVertical THEN {Plus(center, <<0, -1>>), Plus(center, <<0, 1>>)}
                ELSE {Plus(center, <<-1, 0>>), Plus(center, <<1, 0>>)}
WallCells(anchor, isVertical) ==
  {WallCenter(anchor)} \cup Arms(WallCenter(anchor), isVertical)

(* The move that places a wall: its centre if horizontal, its upper arm if vertical. *)
IsVWallLoc(loc) == loc[1] % 2 = 1 /\ loc[2] % 2 = 0
AnchorOf(loc) == <<loc[1] \div 2, loc[2] \div 2>>
WallLoc(anchor, isVertical) ==
  IF isVertical THEN <<2 * anchor[1] + 1, 2 * anchor[2]>> ELSE WallCenter(anchor)

-----------------------------------------------------------------------------
(* Hashing *)

BoardKey(loc, color) == IF color = C_EMPTY THEN {} ELSE {<<"board", loc, color>>}
FenceNumKey(n, pla) == {<<"fences", n, pla>>}
PlayerKey(pla) == {<<"player", pla>>}

(* The hash that init, getMirroredX and ofJson compute from the position alone. *)
HashFromScratch(b) ==
  (UNION {BoardKey(b.pawn[pla], pla) : pla \in Players})
    \cup (UNION {FenceNumKey(b.fences[pla], pla) : pla \in Players})
    \cup (UNION {BoardKey(loc, C_FENCE) : loc \in {l \in Locs : b.colors[l] = C_FENCE}})

getSitHash(b, pla) == SymDiff(b.hash, PlayerKey(pla))

-----------------------------------------------------------------------------
(* Paths: a breadth-first search over pawn cells that pawns do not block. *)

canPawnStep(colors, from, to) ==
  /\ from \in PawnLocs /\ to \in PawnLocs
  /\ Dist(from, to) = 2 /\ (from[1] = to[1] \/ from[2] = to[2])
  /\ colors[Between(from, to)] # C_FENCE

(* The breadth-first loop of both searches: from the cells of the sequence *)
(* starts, each cell enters the queue once, with the path that reached it  *)
(* (in the code, its parent pointer or its distance).  `blocked' are the   *)
(* edges a wall under consideration would close.                           *)
End(path) == path[Len(path)]
Seen(queue) == {End(queue[i]) : i \in DOMAIN queue}
BfsVisit(colors, blocked, queue, path, dir) ==
  LET curr == End(path)
      next == Plus(curr, dir)
  IN  IF /\ canPawnStep(colors, curr, next) /\ Between(curr, next) \notin blocked
         /\ next \notin Seen(queue)
      THEN Append(queue, Append(path, next)) ELSE queue
BfsExpand(colors, blocked, queue, i) ==
  IF i > Len(queue) THEN queue
  ELSE FoldLeft(LAMBDA acc, dir : BfsVisit(colors, blocked, acc, queue[i], dir), queue, Dirs)
BfsQueue(starts, colors, blocked) ==
  FoldLeft(LAMBDA queue, i : BfsExpand(colors, blocked, queue, i),
           [i \in DOMAIN starts |-> <<starts[i]>>], [i \in 1 .. N * N |-> i])

(* The path to the first cell of the target row to leave the queue, <<>> if none does. *)
bfsReachable(colors, start, targetY, blocked) ==
  LET queue == BfsQueue(<<start>>, colors, blocked)
      arrived == {i \in DOMAIN queue : End(queue[i])[2] = targetY}
  IN  IF arrived = {} THEN <<>> ELSE queue[Min(arrived)]

shortestPath(colors, start, pla) == bfsReachable(colors, start, GoalRow(pla), {})

getShortestPathDistance(b, pla) == Len(shortestPath(b.colors, b.pawn[pla], pla)) - 1

(* Distances to the goal row by a search from the goal row, -1 when walled off. *)
calDistMap(colors, pla) ==
  LET goals == [c \in 1 .. N |-> <<2 * (c - 1), GoalRow(pla)>>]
      queue == BfsQueue(goals, colors, {})
      DistTo(loc) == Len(queue[CHOOSE i \in DOMAIN queue : End(queue[i]) = loc]) - 1
  IN  [loc \in PawnLocs |-> IF loc \in Seen(queue) THEN DistTo(loc) ELSE -1]

(* Fault: the loop stops one edge early. *)
pathCrossesWall_ShortLoop(path, arms) ==
  \E i \in 1 .. Len(path) - 2 : Between(path[i], path[i + 1]) \in arms

pathCrossesWall(path, arms) ==
  \E i \in 1 .. Len(path) - 1 : Between(path[i], path[i + 1]) \in arms

-----------------------------------------------------------------------------
(* Legality *)

isLegalPawnMove(b, loc, pla) ==
  LET my == b.pawn[pla]
      opp == b.pawn[getOpp(pla)]
      JumpTo(to) == canPawnStep(b.colors, opp, to) /\ b.colors[to] = C_EMPTY
  IN  /\ loc \in PawnLocs /\ b.colors[loc] = C_EMPTY
      /\ \/ /\ Dist(my, loc) = 2
            /\ loc # opp
            /\ canPawnStep(b.colors, my, loc)
         \/ /\ Dist(my, loc) = 4
            /\ \E d \in DOMAIN Dirs :
                 /\ Plus(my, Dirs[d]) = opp
                 /\ canPawnStep(b.colors, my, opp)
                 /\ IF JumpTo(Plus(opp, Dirs[d]))
                    THEN loc = Plus(opp, Dirs[d])
                    ELSE \E i \in 1 .. 2 : /\ loc = Plus(opp, Dirs[PerpDirs(d)[i]])
                                           /\ JumpTo(loc)

CanLand(b, from, to) == canPawnStep(b.colors, from, to) /\ b.colors[to] = C_EMPTY
IfLanded(b, from, to) == IF CanLand(b, from, to) THEN <<to>> ELSE <<>>
(* The cells that a pawn reaches by jumping in direction d over the pawn on `opp'. *)
Diagonals(b, opp, d) ==
  IfLanded(b, opp, Plus(opp, Dirs[PerpDirs(d)[1]])) \o IfLanded(b, opp, Plus(opp, Dirs[PerpDirs(d)[2]]))

(* Fault: a diagonal jump is offered although the straight one is open. *)
JumpDestinations_AnyDiagonal(b, opp, d) == IfLanded(b, opp, Plus(opp, Dirs[d])) \o Diagonals(b, opp, d)
JumpDestinations(b, opp, d) ==
  IF CanLand(b, opp, Plus(opp, Dirs[d])) THEN <<Plus(opp, Dirs[d])>> ELSE Diagonals(b, opp, d)

(* The move generator, which the code writes apart from isLegalPawnMove. *)
DestinationsIn(b, pla, d) ==
  LET my == b.pawn[pla]
      step1 == Plus(my, Dirs[d])
  IN  IF canPawnStep(b.colors, my, step1) /\ step1 = b.pawn[getOpp(pla)]
      THEN JumpDestinations(b, step1, d) ELSE IfLanded(b, my, step1)
getLegalPawnDestinations(b, pla) == FlattenSeq([d \in 1 .. 4 |-> DestinationsIn(b, pla, d)])

(* Fault: only Black's cached path is looked at. *)
checkNoFullBlockLazy_BlackOnly(b, arms) ==
  \/ ~pathCrossesWall(b.path[P_BLACK], arms)
  \/ bfsReachable(b.colors, b.pawn[P_BLACK], GoalRow(P_BLACK), arms) # <<>>

checkNoFullBlockLazy(b, arms) ==
  \/ \A pla \in Players : ~pathCrossesWall(b.path[pla], arms)
  \/ \A pla \in Players : bfsReachable(b.colors, b.pawn[pla], GoalRow(pla), arms) # <<>>

(* Fault: two walls may cross at their centres. *)
NoOverlap_ArmsOnly(b, anchor, isVertical) ==
  \A cell \in Arms(WallCenter(anchor), isVertical) : b.colors[cell] = C_EMPTY

NoOverlap(b, anchor, isVertical) ==
  \A cell \in WallCells(anchor, isVertical) : b.colors[cell] = C_EMPTY

isGeometricallyLegalWallPlacement(b, anchor, isVertical) ==
  /\ anchor \in Anchors
  /\ NoOverlap(b, anchor, isVertical)
  /\ checkNoFullBlockLazy(b, Arms(WallCenter(anchor), isVertical))

isLegalWallPlacement(b, anchor, isVertical, pla) ==
  /\ b.fences[pla] > 0
  /\ isGeometricallyLegalWallPlacement(b, anchor, isVertical)

isLegal(b, loc, pla) ==
  /\ loc \in Locs
  /\ b.colors[loc] = C_EMPTY
  /\ \/ loc \in PawnLocs /\ isLegalPawnMove(b, loc, pla)
     \/ loc \in HWallLocs /\ isLegalWallPlacement(b, AnchorOf(loc), FALSE, pla)
     \/ IsVWallLoc(loc) /\ isLegalWallPlacement(b, AnchorOf(loc), TRUE, pla)

LegalMoves(b, pla) == {loc \in Locs : isLegal(b, loc, pla)}

-----------------------------------------------------------------------------
(* Updates *)

setStone(b, loc, color) ==
  [b EXCEPT !.colors[loc] = color,
            !.hash = SymDiff(SymDiff(@, BoardKey(loc, b.colors[loc])), BoardKey(loc, color))]

InitialPawn(pla) == <<N - 1, size - 1 - GoalRow(pla)>>

initialBoard ==
  LET pawn == [pla \in Players |-> InitialPawn(pla)]
      colors == [loc \in Locs |->
                  IF \E pla \in Players : pawn[pla] = loc
                  THEN CHOOSE pla \in Players : pawn[pla] = loc
                  ELSE C_EMPTY]
      b == [colors |-> colors, pawn |-> pawn,
            fences |-> [pla \in Players |-> MAX_FENCE_NUM],
            hWalls |-> {}, vWalls |-> {}, movenum |-> 0, hash |-> {},
            path |-> [pla \in Players |-> shortestPath(colors, pawn[pla], pla)]]
  IN  [b EXCEPT !.hash = HashFromScratch(b)]

(* Fence handicap: the code applies it to a new board. *)
setFencesLeft(b, fences) ==
  [b EXCEPT !.fences = fences,
            !.hash = SymDiff(SymDiff(@, UNION {FenceNumKey(b.fences[pla], pla) : pla \in Players}),
                             UNION {FenceNumKey(fences[pla], pla) : pla \in Players})]

MovePawn(b, loc, pla) ==
  LET moved == setStone(setStone(b, b.pawn[pla], C_EMPTY), loc, pla)
  IN  [moved EXCEPT !.pawn[pla] = loc,
                    !.path[pla] = shortestPath(moved.colors, loc, pla)]

placeFence(b, cells) ==
  [b EXCEPT !.colors = [loc \in Locs |-> IF loc \in cells THEN C_FENCE ELSE @[loc]],
            !.hash = SymDiff(@, UNION {BoardKey(loc, C_FENCE) : loc \in cells})]

(* A cached path is searched again only if the new wall cuts it. *)
PlaceWall(b, anchor, isVertical, pla) ==
  LET placed == placeFence(b, WallCells(anchor, isVertical))
      left == b.fences[pla] - 1
      arms == Arms(WallCenter(anchor), isVertical)
  IN  [placed EXCEPT
         !.hWalls = IF isVertical THEN @ ELSE @ \cup {anchor},
         !.vWalls = IF isVertical THEN @ \cup {anchor} ELSE @,
         !.fences[pla] = left,
         !.hash = SymDiff(SymDiff(@, FenceNumKey(b.fences[pla], pla)), FenceNumKey(left, pla)),
         !.path = [p \in Players |-> IF pathCrossesWall(@[p], arms)
                                     THEN shortestPath(placed.colors, b.pawn[p], p)
                                     ELSE @[p]]]

playMoveAssumeLegal(b, loc, pla) ==
  LET counted == [b EXCEPT !.movenum = @ + 1]
  IN  IF loc \in PawnLocs THEN MovePawn(counted, loc, pla)
      ELSE PlaceWall(counted, AnchorOf(loc), IsVWallLoc(loc), pla)

(* playMoveRecorded: what it remembers of the board it is about to change. *)
MoveRecord(b, loc, pla) ==
  [pla |-> pla, loc |-> loc, pawn |-> b.pawn, fences |-> b.fences,
   movenum |-> b.movenum, hash |-> b.hash,
   cells |-> IF loc \in PawnLocs THEN {} ELSE WallCells(AnchorOf(loc), IsVWallLoc(loc))]

(* The paths that undo searches again. *)
(* Fault: lifting a wall refreshes the path of its owner only. *)
PathsToRedo_MoverOnly(record) == {record.pla}
PathsToRedo(record) == IF record.loc \in PawnLocs THEN {record.pla} ELSE Players

(* undo restores counts and hash from the record, the cells from the move. *)
undo(b, record) ==
  LET pla == record.pla
      isPawn == record.loc \in PawnLocs
      colors == IF isPawn
                THEN [b.colors EXCEPT ![b.pawn[pla]] = C_EMPTY, ![record.pawn[pla]] = pla]
                ELSE [loc \in Locs |-> IF loc \in record.cells THEN C_EMPTY ELSE b.colors[loc]]
      lifted == IF isPawn THEN {} ELSE {AnchorOf(record.loc)}
      isVertical == IsVWallLoc(record.loc)
      pawn == IF isPawn THEN [b.pawn EXCEPT ![pla] = record.pawn[pla]] ELSE b.pawn
  IN  [colors |-> colors, pawn |-> pawn,
       fences |-> IF isPawn THEN b.fences ELSE record.fences,
       hWalls |-> IF isVertical THEN b.hWalls ELSE b.hWalls \ lifted,
       vWalls |-> IF isVertical THEN b.vWalls \ lifted ELSE b.vWalls,
       movenum |-> record.movenum, hash |-> record.hash,
       path |-> [p \in Players |-> IF p \in PathsToRedo(record)
                                   THEN shortestPath(colors, pawn[p], p) ELSE b.path[p]]]

-----------------------------------------------------------------------------
(* Derived boards and hashes *)

getSitHashAfterPawnMove(b, to, pla) ==
  LET from == b.pawn[pla]
      keys == <<BoardKey(from, pla), BoardKey(from, C_EMPTY), BoardKey(to, C_EMPTY),
                BoardKey(to, pla), PlayerKey(getOpp(pla))>>
  IN  FoldLeft(SymDiff, b.hash, keys)

getMirrorLoc(loc) == <<size - 1 - loc[1], loc[2]>>
(* Fault: wall anchors are mirrored as if there were one more column. *)
MirrorAnchor_PawnColumn(anchor) == <<N - 1 - anchor[1], anchor[2]>>
MirrorAnchor(anchor) == <<N - 2 - anchor[1], anchor[2]>>

getMirroredX(b) ==
  LET colors == [loc \in Locs |-> b.colors[getMirrorLoc(loc)]]
      pawn == [pla \in Players |-> getMirrorLoc(b.pawn[pla])]
      m == [b EXCEPT !.colors = colors,
                     !.pawn = pawn,
                     !.hWalls = {MirrorAnchor(a) : a \in @},
                     !.vWalls = {MirrorAnchor(a) : a \in @},
                     !.path = [pla \in Players |-> shortestPath(colors, pawn[pla], pla)]]
  IN  [m EXCEPT !.hash = HashFromScratch(m)]

-----------------------------------------------------------------------------
(* Consistency *)

(* The placed walls, <<anchor, isVertical>>, and the cells they cover. *)
Walls(b) == {<<a, FALSE>> : a \in b.hWalls} \cup {<<a, TRUE>> : a \in b.vWalls}
FencedBy(b) == {loc \in Locs : \E w \in Walls(b) : loc \in WallCells(w[1], w[2])}

(* The assertions of checkConsistency, made exact: the fenced cells are    *)
(* those of the placed walls and no others, no two walls share a cell, the *)
(* pawn cells show the two pawns, and walls placed came out of the         *)
(* players' supplies.  Every step that edits colors, wall flags and counts *)
(* in separate statements can break it.                                    *)
Consistent(b) ==
  /\ \A loc \in Locs : b.colors[loc] = C_FENCE <=> loc \in FencedBy(b)
  /\ \A w1, w2 \in Walls(b) :
       w1 # w2 => WallCells(w1[1], w1[2]) \cap WallCells(w2[1], w2[2]) = {}
  /\ \A loc \in Locs, pla \in Players : b.colors[loc] = pla <=> b.pawn[pla] = loc
  /\ Cardinality(Walls(b)) <= 2 * MAX_FENCE_NUM - b.fences[P_BLACK] - b.fences[P_WHITE]

(* A board as moves and undos leave it (BoardPlay): consistent, with the   *)
(* hash of its position and for each player the path to the goal that a    *)
(* search would find.                                                      *)
InPlay(b) ==
  /\ b = [colors |-> b.colors, pawn |-> b.pawn, fences |-> b.fences, hWalls |-> b.hWalls,
          vWalls |-> b.vWalls, movenum |-> b.movenum, hash |-> b.hash, path |-> b.path]
  /\ b.colors \in [Locs -> Colors] /\ b.pawn \in [Players -> PawnLocs]
  /\ b.fences \in [Players -> 0 .. MAX_FENCE_NUM] /\ b.movenum \in Nat
  /\ b.hWalls \in SUBSET Anchors /\ b.vWalls \in SUBSET Anchors
  /\ Consistent(b) /\ b.hash = HashFromScratch(b)
  /\ b.path = [pla \in Players |-> shortestPath(b.colors, b.pawn[pla], pla)]
  /\ \A pla \in Players : b.path[pla] # <<>>

=============================================================================
