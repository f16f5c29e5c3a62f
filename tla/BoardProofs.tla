---------------------------- MODULE BoardProofs ----------------------------
(***************************************************************************)
(* Proofs about the board, the games played on it and the hashes of their  *)
(* histories: BoardPlay, GamePlay and GraphHash for every board size,      *)
(* supply of walls, handicap, set of starts, rules, komis and bound.       *)
(***************************************************************************)
EXTENDS BoardPlay, GamePlay, GraphHash, FiniteSetTheorems, WellFoundedInduction, TLAPS

-----------------------------------------------------------------------------
(* Geometry *)

LEMMA PlayersDistinct ==
  /\ P_BLACK \in Players /\ P_WHITE \in Players /\ P_BLACK # P_WHITE
  /\ C_EMPTY \in Colors /\ C_FENCE \in Colors /\ Players \subseteq Colors
  /\ C_EMPTY # C_FENCE /\ C_EMPTY \notin Players /\ C_FENCE \notin Players
  /\ \A pla \in Players : pla = P_BLACK \/ pla = P_WHITE
  BY DEF Players, Colors, P_BLACK, P_WHITE, C_EMPTY, C_FENCE

(* A wall lies on the board and on no pawn cell. *)
LEMMA WallCellsOffPawns ==
  ASSUME NEW anchor \in Anchors, NEW isVertical \in BOOLEAN
  PROVE  WallCells(anchor, isVertical) \subseteq Locs \ PawnLocs
  <1>1. PICK c \in 0 .. N - 2, r \in 0 .. N - 2 : anchor = <<c, r>>
    BY DEF Anchors
  <1>2. WallCenter(anchor) = <<2 * c + 1, 2 * r + 1>>
    BY <1>1 DEF WallCenter
  <1>3. 2 * c + 1 \in 1 .. size - 2 /\ 2 * r + 1 \in 1 .. size - 2
    BY BoardSizeAssumption DEF size
  <1>4. (2 * c + 1) % 2 = 1 /\ (2 * r + 1) % 2 = 1
    OBVIOUS
  <1>5. WallCells(anchor, isVertical) =
          {<<2 * c + 1, 2 * r + 1>>} \cup
            (IF isVertical THEN {<<2 * c + 1, 2 * r>>, <<2 * c + 1, 2 * r + 2>>}
                           ELSE {<<2 * c, 2 * r + 1>>, <<2 * c + 2, 2 * r + 1>>})
    BY <1>2 DEF WallCells, Arms, Plus
  <1>6. size \in Nat /\ 0 .. size - 1 \subseteq Int
    BY BoardSizeAssumption DEF size
  <1>7. \A cell \in WallCells(anchor, isVertical) :
          cell \in Locs /\ (cell[1] % 2 = 1 \/ cell[2] % 2 = 1)
    BY <1>3, <1>4, <1>5, <1>6 DEF Locs
  <1> QED BY <1>7 DEF PawnLocs

-----------------------------------------------------------------------------
(* What is known of every board in play *)

(* A board is a record of these fields, of which path and hash are left open. *)
Fields == {"colors", "pawn", "fences", "hWalls", "vWalls", "movenum", "hash", "path"}
IsRecord(b) == b \in [Fields -> {b[f] : f \in Fields}]

BoardTyped(b) ==
  /\ IsRecord(b)
  /\ b.colors \in [Locs -> Colors]
  /\ b.pawn \in [Players -> PawnLocs]
  /\ b.fences \in [Players -> 0 .. MAX_FENCE_NUM]
  /\ b.hWalls \in SUBSET Anchors /\ b.vWalls \in SUBSET Anchors
  /\ b.movenum \in Nat

(* The position: everything but the hash, the counter and the cached paths. *)
Core(b) == <<b.colors, b.pawn, b.fences, b.hWalls, b.vWalls>>

LEMMA ConsistentIsOfCore ==
  ASSUME NEW b, NEW c, Core(b) = Core(c)
  PROVE  Consistent(b) <=> Consistent(c)
  BY DEF Core, Consistent, FencedBy, Walls

LEMMA AnchorsFinite == IsFiniteSet(Anchors)
  <1>1. IsFiniteSet(0 .. N - 2)
    BY BoardSizeAssumption, FS_Interval
  <1> QED BY <1>1, FS_Product DEF Anchors

LEMMA TaggedIsProduct ==
  ASSUME NEW S, NEW tag
  PROVE  {<<x, tag>> : x \in S} = S \X {tag}
  OBVIOUS

LEMMA WallsFinite ==
  ASSUME NEW b, BoardTyped(b)
  PROVE  IsFiniteSet(Walls(b))
  <1> DEFINE h == {<<a, FALSE>> : a \in b.hWalls}
             v == {<<a, TRUE>> : a \in b.vWalls}
  <1>1. IsFiniteSet(b.hWalls) /\ IsFiniteSet(b.vWalls)
    BY AnchorsFinite, FS_Subset DEF BoardTyped
  <1>2. IsFiniteSet({FALSE}) /\ IsFiniteSet({TRUE})
    BY FS_Singleton
  <1>3. IsFiniteSet(b.hWalls \X {FALSE}) /\ IsFiniteSet(b.vWalls \X {TRUE})
    BY <1>1, <1>2, FS_Product
  <1>4. h = b.hWalls \X {FALSE} /\ v = b.vWalls \X {TRUE}
    BY TaggedIsProduct, Zenon
  <1>5. IsFiniteSet(h) /\ IsFiniteSet(v)
    <2> HIDE DEF h, v
    <2> QED BY <1>3, <1>4
  <1> QED BY <1>5, FS_Union, Zenon DEF Walls

-----------------------------------------------------------------------------
(* Moves *)

(* The hash after a cell is recolored, and hash and paths after a move. *)
StoneHash(hash, loc, old, color) == SymDiff(SymDiff(hash, BoardKey(loc, old)), BoardKey(loc, color))
MovedColors(b, loc, pla) == [[b.colors EXCEPT ![b.pawn[pla]] = C_EMPTY] EXCEPT ![loc] = pla]
MovedHash(b, loc, pla) ==
  StoneHash(StoneHash(b.hash, b.pawn[pla], b.colors[b.pawn[pla]], C_EMPTY),
            loc, [b.colors EXCEPT ![b.pawn[pla]] = C_EMPTY][loc], pla)
MovedPath(b, loc, pla) == [b.path EXCEPT ![pla] = shortestPath(MovedColors(b, loc, pla), loc, pla)]
WalledColors(b, anchor, isVertical) ==
  [loc \in Locs |-> IF loc \in WallCells(anchor, isVertical) THEN C_FENCE ELSE b.colors[loc]]
WalledHash(b, anchor, isVertical, pla) ==
  SymDiff(SymDiff(SymDiff(b.hash, UNION {BoardKey(loc, C_FENCE) : loc \in WallCells(anchor, isVertical)}),
                  FenceNumKey(b.fences[pla], pla)),
          FenceNumKey(b.fences[pla] - 1, pla))
WalledPath(b, anchor, isVertical) ==
  [p \in Players |-> IF pathCrossesWall(b.path[p], Arms(WallCenter(anchor), isVertical))
                     THEN shortestPath(WalledColors(b, anchor, isVertical), b.pawn[p], p)
                     ELSE b.path[p]]

LEMMA SetStoneEffect ==
  ASSUME NEW b, BoardTyped(b), NEW loc \in Locs, NEW color \in Colors
  PROVE  /\ BoardTyped(setStone(b, loc, color))
         /\ setStone(b, loc, color).colors = [b.colors EXCEPT ![loc] = color]
         /\ setStone(b, loc, color).pawn = b.pawn
         /\ setStone(b, loc, color).fences = b.fences
         /\ setStone(b, loc, color).hWalls = b.hWalls
         /\ setStone(b, loc, color).vWalls = b.vWalls
         /\ setStone(b, loc, color).movenum = b.movenum
         /\ setStone(b, loc, color).path = b.path
         /\ setStone(b, loc, color).hash = StoneHash(b.hash, loc, b.colors[loc], color)
  <1> DEFINE hash == SymDiff(SymDiff(b.hash, BoardKey(loc, b.colors[loc])), BoardKey(loc, color))
             colors == [b.colors EXCEPT ![loc] = color]
             s == [b EXCEPT !.colors = colors, !.hash = hash]
  <1>1. setStone(b, loc, color) = s
    BY DEF setStone, BoardTyped, IsRecord, Fields
  <1>2. colors \in [Locs -> Colors]
    BY DEF BoardTyped
  <1> HIDE DEF colors, hash
  <1>3. IsRecord(s)
    BY DEF BoardTyped, IsRecord
  <1>4. /\ s.colors = colors /\ s.pawn = b.pawn /\ s.fences = b.fences
        /\ s.hWalls = b.hWalls /\ s.vWalls = b.vWalls /\ s.movenum = b.movenum
        /\ s.path = b.path /\ s.hash = hash
    BY DEF BoardTyped, IsRecord, Fields
  <1> HIDE DEF s
  <1>5. BoardTyped(s)
    BY <1>2, <1>3, <1>4 DEF BoardTyped
  <1> QED BY <1>1, <1>4, <1>5 DEF colors, hash, StoneHash

LEMMA MovePawnEffect ==
  ASSUME NEW b, BoardTyped(b), NEW loc \in PawnLocs, NEW pla \in Players
  PROVE  /\ BoardTyped(MovePawn(b, loc, pla))
         /\ MovePawn(b, loc, pla).colors
              = [[b.colors EXCEPT ![b.pawn[pla]] = C_EMPTY] EXCEPT ![loc] = pla]
         /\ MovePawn(b, loc, pla).pawn = [b.pawn EXCEPT ![pla] = loc]
         /\ MovePawn(b, loc, pla).fences = b.fences
         /\ MovePawn(b, loc, pla).hWalls = b.hWalls
         /\ MovePawn(b, loc, pla).vWalls = b.vWalls
         /\ MovePawn(b, loc, pla).movenum = b.movenum
         /\ MovePawn(b, loc, pla).path = MovedPath(b, loc, pla)
         /\ MovePawn(b, loc, pla).hash = MovedHash(b, loc, pla)
  <1> DEFINE lifted == setStone(b, b.pawn[pla], C_EMPTY)
             moved == setStone(lifted, loc, pla)
  <1>1. b.pawn[pla] \in Locs /\ loc \in Locs
    BY DEF BoardTyped, PawnLocs
  <1>2. /\ BoardTyped(lifted)
        /\ lifted.colors = [b.colors EXCEPT ![b.pawn[pla]] = C_EMPTY]
        /\ lifted.pawn = b.pawn /\ lifted.fences = b.fences
        /\ lifted.hWalls = b.hWalls /\ lifted.vWalls = b.vWalls
        /\ lifted.movenum = b.movenum /\ lifted.path = b.path
        /\ lifted.hash = StoneHash(b.hash, b.pawn[pla], b.colors[b.pawn[pla]], C_EMPTY)
    BY <1>1, SetStoneEffect, PlayersDistinct
  <1>3. /\ BoardTyped(moved)
        /\ moved.colors = [lifted.colors EXCEPT ![loc] = pla]
        /\ moved.pawn = b.pawn /\ moved.fences = b.fences
        /\ moved.hWalls = b.hWalls /\ moved.vWalls = b.vWalls
        /\ moved.movenum = b.movenum /\ moved.path = b.path
        /\ moved.hash = StoneHash(lifted.hash, loc, lifted.colors[loc], pla)
    <2>1. pla \in Colors
      BY PlayersDistinct
    <2>2. BoardTyped(lifted)
      BY <1>2
    <2> HIDE DEF lifted
    <2>3. /\ BoardTyped(moved)
          /\ moved.colors = [lifted.colors EXCEPT ![loc] = pla]
          /\ moved.pawn = lifted.pawn /\ moved.fences = lifted.fences
          /\ moved.hWalls = lifted.hWalls /\ moved.vWalls = lifted.vWalls
          /\ moved.movenum = lifted.movenum /\ moved.path = lifted.path
          /\ moved.hash = StoneHash(lifted.hash, loc, lifted.colors[loc], pla)
      BY <1>1, <2>1, <2>2, SetStoneEffect
    <2> HIDE DEF moved
    <2> QED BY <1>2, <2>3
  <1> HIDE DEF lifted, moved
  <1>4. MovePawn(b, loc, pla) = [moved EXCEPT !.pawn[pla] = loc,
                                   !.path[pla] = shortestPath(moved.colors, loc, pla)]
    BY DEF MovePawn, moved, lifted
  <1> DEFINE pawn == [b.pawn EXCEPT ![pla] = loc]
             path == [moved.path EXCEPT ![pla] = shortestPath(moved.colors, loc, pla)]
             m == [moved EXCEPT !.pawn = pawn, !.path = path]
  <1>5. MovePawn(b, loc, pla) = m
    BY <1>3, <1>4 DEF BoardTyped, IsRecord, Fields
  <1>6. pawn \in [Players -> PawnLocs]
    BY DEF BoardTyped
  <1> HIDE DEF pawn, path
  <1>7. IsRecord(m)
    BY <1>3 DEF BoardTyped, IsRecord
  <1>8. /\ m.colors = moved.colors /\ m.pawn = pawn /\ m.fences = b.fences
        /\ m.hWalls = b.hWalls /\ m.vWalls = b.vWalls /\ m.movenum = b.movenum
        /\ m.path = path /\ m.hash = moved.hash
    BY <1>3 DEF BoardTyped, IsRecord, Fields
  <1> HIDE DEF m
  <1>9. BoardTyped(m)
    BY <1>3, <1>6, <1>7, <1>8 DEF BoardTyped
  <1> QED BY <1>2, <1>3, <1>5, <1>8, <1>9 DEF pawn, path, MovedHash, MovedPath, MovedColors

LEMMA MovePawnConsistent ==
  ASSUME NEW b, BoardTyped(b), Consistent(b),
         NEW loc \in PawnLocs, NEW pla \in Players, b.colors[loc] = C_EMPTY
  PROVE  Consistent(MovePawn(b, loc, pla))
  <1> DEFINE c == MovePawn(b, loc, pla)
             from == b.pawn[pla]
  <1>1. /\ c.colors = [[b.colors EXCEPT ![from] = C_EMPTY] EXCEPT ![loc] = pla]
        /\ c.pawn = [b.pawn EXCEPT ![pla] = loc]
        /\ c.fences = b.fences /\ c.hWalls = b.hWalls /\ c.vWalls = b.vWalls
    BY MovePawnEffect
  <1> HIDE DEF c
  <1>2. /\ from \in Locs /\ loc \in Locs /\ b.colors[from] = pla /\ from # loc
        /\ b.colors \in [Locs -> Colors]
        /\ b.pawn \in [Players -> Locs]
    BY PlayersDistinct DEF BoardTyped, Consistent, PawnLocs
  <1>3. \A l \in Locs :
          c.colors[l] = IF l = loc THEN pla ELSE IF l = from THEN C_EMPTY ELSE b.colors[l]
    BY <1>1, <1>2
  <1>4. FencedBy(c) = FencedBy(b) /\ Walls(c) = Walls(b)
    BY <1>1 DEF FencedBy, Walls
  <1>5. \A l \in Locs : c.colors[l] = C_FENCE <=> l \in FencedBy(c)
    BY <1>2, <1>3, <1>4, PlayersDistinct DEF Consistent
  <1>6. ASSUME NEW l \in Locs, NEW p \in Players
        PROVE  c.colors[l] = p <=> c.pawn[p] = l
    <2>1. b.colors[l] = p <=> b.pawn[p] = l
      BY DEF Consistent
    <2>2. CASE p = pla
      BY <1>1, <1>2, <1>3, <2>1, <2>2, PlayersDistinct
    <2>3. CASE p # pla
      <3>1. c.pawn[p] = b.pawn[p]
        BY <1>1, <1>2, <2>3
      <3>2. b.pawn[p] # loc /\ b.pawn[p] # from
        BY <1>2, <2>3, PlayersDistinct DEF Consistent
      <3> QED BY <1>3, <2>1, <2>3, <3>1, <3>2, PlayersDistinct
    <2> QED BY <2>2, <2>3
  <1> QED BY <1>1, <1>4, <1>5, <1>6 DEF Consistent, c

(* A counted move: the board with its counter raised. *)
LEMMA CountEffect ==
  ASSUME NEW b, BoardTyped(b)
  PROVE  LET c == [b EXCEPT !.movenum = @ + 1]
         IN  /\ BoardTyped(c) /\ c.movenum = b.movenum + 1
             /\ Core(c) = Core(b) /\ c.hash = b.hash /\ c.path = b.path
  <1> DEFINE n == b.movenum + 1
             c == [b EXCEPT !.movenum = n]
  <1>1. [b EXCEPT !.movenum = @ + 1] = c
    BY DEF BoardTyped, IsRecord, Fields
  <1>2. n \in Nat
    BY DEF BoardTyped
  <1> HIDE DEF n
  <1>3. IsRecord(c)
    BY DEF BoardTyped, IsRecord
  <1>4. /\ c.movenum = n /\ c.colors = b.colors /\ c.pawn = b.pawn /\ c.fences = b.fences
        /\ c.hWalls = b.hWalls /\ c.vWalls = b.vWalls /\ c.hash = b.hash /\ c.path = b.path
    BY DEF BoardTyped, IsRecord, Fields
  <1> HIDE DEF c
  <1>5. BoardTyped(c)
    BY <1>2, <1>3, <1>4 DEF BoardTyped
  <1> QED BY <1>1, <1>4, <1>5 DEF n, Core

(* What placing a wall makes of a board. *)
IsWalled(b, anchor, isVertical, pla, c) ==
  /\ BoardTyped(c)
  /\ c.colors = [loc \in Locs |-> IF loc \in WallCells(anchor, isVertical)
                                  THEN C_FENCE ELSE b.colors[loc]]
  /\ c.pawn = b.pawn
  /\ c.fences = [b.fences EXCEPT ![pla] = b.fences[pla] - 1]
  /\ Walls(c) = Walls(b) \cup {<<anchor, isVertical>>}
  /\ c.movenum = b.movenum
  /\ c.path = WalledPath(b, anchor, isVertical)
  /\ c.hash = WalledHash(b, anchor, isVertical, pla)

LEMMA PlaceWallEffect ==
  ASSUME NEW b, BoardTyped(b), NEW anchor \in Anchors, NEW isVertical \in BOOLEAN,
         NEW pla \in Players, b.fences[pla] > 0,
         NEW c, c = PlaceWall(b, anchor, isVertical, pla)
  PROVE  IsWalled(b, anchor, isVertical, pla, c)
  <1> DEFINE cells == WallCells(anchor, isVertical)
             arms == Arms(WallCenter(anchor), isVertical)
             colors == [loc \in Locs |-> IF loc \in cells THEN C_FENCE ELSE b.colors[loc]]
             hash1 == SymDiff(b.hash, UNION {BoardKey(loc, C_FENCE) : loc \in cells})
             placed == [b EXCEPT !.colors = colors, !.hash = hash1]
             left == b.fences[pla] - 1
             hash2 == SymDiff(SymDiff(hash1, FenceNumKey(b.fences[pla], pla)),
                              FenceNumKey(left, pla))
             hW == IF isVertical THEN b.hWalls ELSE b.hWalls \cup {anchor}
             vW == IF isVertical THEN b.vWalls \cup {anchor} ELSE b.vWalls
             fences == [b.fences EXCEPT ![pla] = left]
             path == [p \in Players |-> IF pathCrossesWall(b.path[p], arms)
                                        THEN shortestPath(placed.colors, b.pawn[p], p)
                                        ELSE b.path[p]]
             r == [placed EXCEPT !.hWalls = hW, !.vWalls = vW, !.fences = fences,
                                 !.hash = hash2, !.path = path]
  <1>1. placeFence(b, cells) = placed
    BY DEF placeFence, BoardTyped, IsRecord, Fields
  <1>2. colors \in [Locs -> Colors]
    BY PlayersDistinct DEF BoardTyped
  <1>3. left \in 0 .. MAX_FENCE_NUM /\ fences \in [Players -> 0 .. MAX_FENCE_NUM]
    BY FenceNumAssumption DEF BoardTyped
  <1>4. hW \in SUBSET Anchors /\ vW \in SUBSET Anchors
    BY DEF BoardTyped
  <1>5. IsRecord(placed) /\ placed.hWalls = b.hWalls /\ placed.vWalls = b.vWalls
          /\ placed.fences = b.fences /\ placed.path = b.path /\ placed.hash = hash1
          /\ placed.pawn = b.pawn /\ placed.movenum = b.movenum /\ placed.colors = colors
    <2> HIDE DEF colors, hash1
    <2> QED BY DEF BoardTyped, IsRecord, Fields
  <1>6. PlaceWall(b, anchor, isVertical, pla)
          = [placed EXCEPT
               !.hWalls = hW, !.vWalls = vW, !.fences[pla] = left,
               !.hash = hash2, !.path = path]
    <2> HIDE DEF placed, left, cells, hash1
    <2> QED BY <1>1, <1>5 DEF PlaceWall, IsRecord, Fields, cells, left
  <1>7. PlaceWall(b, anchor, isVertical, pla) = r
    <2> HIDE DEF placed, left, hW, vW, hash2, path
    <2> QED BY <1>5, <1>6 DEF IsRecord, Fields
  <1> HIDE DEF placed, colors, fences, hW, vW, hash2, path
  <1>8. IsRecord(r)
    BY <1>5 DEF IsRecord
  <1>9. /\ r.colors = colors /\ r.pawn = b.pawn /\ r.fences = fences
        /\ r.hWalls = hW /\ r.vWalls = vW /\ r.movenum = b.movenum
        /\ r.path = path /\ r.hash = hash2
    BY <1>5 DEF IsRecord, Fields
  <1> HIDE DEF r
  <1>10. BoardTyped(r)
    BY <1>2, <1>3, <1>4, <1>8, <1>9 DEF BoardTyped
  <1>11. Walls(r) = Walls(b) \cup {<<anchor, isVertical>>}
    <2>1. CASE isVertical = TRUE
      BY <1>9, <2>1 DEF Walls, hW, vW
    <2>2. CASE isVertical = FALSE
      BY <1>9, <2>2 DEF Walls, hW, vW
    <2> QED BY <2>1, <2>2
  <1>12. path = [p \in Players |-> IF pathCrossesWall(b.path[p], arms)
                                   THEN shortestPath(colors, b.pawn[p], p) ELSE b.path[p]]
    BY <1>5 DEF path
  <1>13. path = WalledPath(b, anchor, isVertical) /\ hash2 = WalledHash(b, anchor, isVertical, pla)
    BY <1>12 DEF WalledPath, WalledColors, WalledHash, colors, hash2
  <1> QED BY <1>7, <1>9, <1>10, <1>11, <1>13 DEF colors, fences, IsWalled

(* Free cells belong to no wall, so a wall placed on them is a new one. *)
LEMMA WallIsNew ==
  ASSUME NEW b, BoardTyped(b), Consistent(b), NEW anchor \in Anchors,
         NEW isVertical \in BOOLEAN, NoOverlap(b, anchor, isVertical)
  PROVE  /\ \A w \in Walls(b) : WallCells(w[1], w[2]) \cap WallCells(anchor, isVertical) = {}
         /\ <<anchor, isVertical>> \notin Walls(b)
  <1> DEFINE wall == <<anchor, isVertical>>
             cells == WallCells(anchor, isVertical)
  <1>1. cells \subseteq Locs \ PawnLocs
    BY WallCellsOffPawns
  <1>2. \A loc \in cells : b.colors[loc] = C_EMPTY /\ loc \notin FencedBy(b)
    BY <1>1, PlayersDistinct DEF NoOverlap, Consistent
  <1>3. \A w \in Walls(b) : WallCells(w[1], w[2]) \cap cells = {}
    BY <1>1, <1>2 DEF FencedBy
  <1>4. WallCenter(anchor) \in cells
    BY DEF WallCells
  <1>5. WallCells(wall[1], wall[2]) = cells
    BY Zenon
  <1> HIDE DEF wall
  <1>6. wall \notin Walls(b)
    BY <1>3, <1>4, <1>5
  <1> QED BY <1>3, <1>6 DEF wall

(* A wall on free cells is new and disjoint from the others. *)
LEMMA PlaceWallConsistent ==
  ASSUME NEW b, BoardTyped(b), Consistent(b), NEW anchor \in Anchors,
         NEW isVertical \in BOOLEAN, NEW pla \in Players, b.fences[pla] > 0,
         NoOverlap(b, anchor, isVertical),
         NEW c, c = PlaceWall(b, anchor, isVertical, pla)
  PROVE  Consistent(c)
  <1> DEFINE wall == <<anchor, isVertical>>
             cells == WallCells(anchor, isVertical)
  <1>1. /\ c.colors = [loc \in Locs |-> IF loc \in WallCells(anchor, isVertical)
                                        THEN C_FENCE ELSE b.colors[loc]]
        /\ c.pawn = b.pawn
        /\ c.fences = [b.fences EXCEPT ![pla] = b.fences[pla] - 1]
        /\ Walls(c) = Walls(b) \cup {<<anchor, isVertical>>}
    <2>1. IsWalled(b, anchor, isVertical, pla, c)
      BY PlaceWallEffect
    <2> QED BY <2>1 DEF IsWalled
  <1>2. cells \subseteq Locs \ PawnLocs
    BY WallCellsOffPawns
  <1>3. Walls(c) = Walls(b) \cup {wall}
    BY <1>1
  <1>4. \A loc \in Locs : loc \in FencedBy(c) <=> loc \in FencedBy(b) \/ loc \in cells
    <2>1. WallCells(wall[1], wall[2]) = cells
      BY Zenon
    <2> HIDE DEF wall, cells
    <2> QED BY <1>3, <2>1 DEF FencedBy
  <1>5. \A loc \in cells : b.colors[loc] = C_EMPTY
    BY DEF NoOverlap
  <1>6. \A w \in Walls(b) : WallCells(w[1], w[2]) \cap cells = {}
    BY WallIsNew
  <1>8. wall \notin Walls(b)
    BY WallIsNew
  <1>9. \A loc \in Locs : c.colors[loc] = C_FENCE <=> loc \in FencedBy(c)
    BY <1>1, <1>4 DEF Consistent
  <1>10. \A w1, w2 \in Walls(c) :
           w1 # w2 => WallCells(w1[1], w1[2]) \cap WallCells(w2[1], w2[2]) = {}
    BY <1>3, <1>6 DEF Consistent
  <1>11. ASSUME NEW loc \in Locs, NEW p \in Players
         PROVE  c.colors[loc] = p <=> c.pawn[p] = loc
    <2>1. b.colors[loc] = p <=> b.pawn[p] = loc
      BY DEF Consistent
    <2>2. b.pawn[p] \in PawnLocs
      BY DEF BoardTyped
    <2> QED BY <1>1, <1>2, <1>5, <2>1, <2>2, PlayersDistinct
  <1>12. Cardinality(Walls(c)) = Cardinality(Walls(b)) + 1
    BY <1>3, <1>8, WallsFinite, FS_AddElement
  <1>13. Cardinality(Walls(b)) \in Nat
    BY WallsFinite, FS_CardinalityType
  <1>14. /\ b.fences[P_BLACK] \in Nat /\ b.fences[P_WHITE] \in Nat
         /\ c.fences[P_BLACK] + c.fences[P_WHITE] = b.fences[P_BLACK] + b.fences[P_WHITE] - 1
    BY <1>1, PlayersDistinct, FenceNumAssumption DEF BoardTyped
  <1>15. /\ c.fences[P_BLACK] \in Int /\ c.fences[P_WHITE] \in Int
    BY <1>1, PlayersDistinct, FenceNumAssumption DEF BoardTyped
  <1>16. Cardinality(Walls(c)) <= 2 * MAX_FENCE_NUM - c.fences[P_BLACK] - c.fences[P_WHITE]
    <2>1. Cardinality(Walls(b)) <= 2 * MAX_FENCE_NUM - b.fences[P_BLACK] - b.fences[P_WHITE]
      BY DEF Consistent
    <2> QED BY <1>12, <1>13, <1>14, <1>15, <2>1, FenceNumAssumption
  <1> QED BY <1>9, <1>10, <1>11, <1>16 DEF Consistent

-----------------------------------------------------------------------------
(* A new board *)

LEMMA NewBoard ==
  ASSUME NEW fences \in [Players -> 0 .. MAX_FENCE_NUM],
         NEW b, b = setFencesLeft(initialBoard, fences)
  PROVE  BoardTyped(b) /\ Consistent(b) /\ b.movenum = 0
  <1> DEFINE pawn == [pla \in Players |-> InitialPawn(pla)]
             colors == [loc \in Locs |-> IF \E pla \in Players : pawn[pla] = loc
                                         THEN CHOOSE pla \in Players : pawn[pla] = loc
                                         ELSE C_EMPTY]
             path == [pla \in Players |-> shortestPath(colors, pawn[pla], pla)]
             full == [pla \in Players |-> MAX_FENCE_NUM]
             plain == [colors |-> colors, pawn |-> pawn, fences |-> full,
                       hWalls |-> {}, vWalls |-> {}, movenum |-> 0, hash |-> {}, path |-> path]
             start == [plain EXCEPT !.hash = HashFromScratch(plain)]
  <1>1. initialBoard = start
    BY Zenon DEF initialBoard
  <1>2. IsRecord(start) /\ start.colors = colors /\ start.pawn = pawn
          /\ start.hWalls = {} /\ start.vWalls = {} /\ start.movenum = 0
    <2> HIDE DEF colors, pawn, path, full
    <2> QED BY DEF IsRecord, Fields
  <1> HIDE DEF start
  <1>3. IsRecord(b) /\ b.colors = colors /\ b.pawn = pawn /\ b.fences = fences
          /\ b.hWalls = {} /\ b.vWalls = {} /\ b.movenum = 0
    <2> DEFINE hash == SymDiff(SymDiff(start.hash,
                                  UNION {FenceNumKey(start.fences[pla], pla) : pla \in Players}),
                         UNION {FenceNumKey(fences[pla], pla) : pla \in Players})
               r == [start EXCEPT !.fences = fences, !.hash = hash]
    <2>1. b = r
      BY <1>1, <1>2 DEF setFencesLeft, IsRecord, Fields
    <2> HIDE DEF hash, colors, pawn
    <2>2. IsRecord(r) /\ r.colors = colors /\ r.pawn = pawn /\ r.fences = fences
          /\ r.hWalls = {} /\ r.vWalls = {} /\ r.movenum = 0
      BY <1>2 DEF IsRecord, Fields
    <2> QED BY <2>1, <2>2
  <1>4. /\ InitialPawn(P_BLACK) = <<N - 1, size - 1>> /\ InitialPawn(P_WHITE) = <<N - 1, 0>>
        /\ N - 1 \in 0 .. size - 1 /\ size - 1 \in 0 .. size - 1 /\ 0 \in 0 .. size - 1
        /\ (N - 1) % 2 = 0 /\ (size - 1) % 2 = 0 /\ size - 1 # 0
    BY BoardSizeAssumption, PlayersDistinct DEF InitialPawn, GoalRow, size
  <1>5. InitialPawn(P_BLACK) \in PawnLocs /\ InitialPawn(P_WHITE) \in PawnLocs
    BY <1>4 DEF PawnLocs, Locs
  <1>6. pawn \in [Players -> PawnLocs] /\ pawn[P_BLACK] # pawn[P_WHITE]
    <2>1. \A pla \in Players : InitialPawn(pla) \in PawnLocs
      BY <1>5, PlayersDistinct
    <2>2. InitialPawn(P_BLACK) # InitialPawn(P_WHITE)
      BY <1>4
    <2> QED BY <2>1, <2>2, PlayersDistinct
  <1>7. ASSUME NEW loc \in Locs
        PROVE  /\ colors[loc] \in Colors /\ colors[loc] # C_FENCE
               /\ \A pla \in Players : colors[loc] = pla <=> pawn[pla] = loc
    <2> HIDE DEF pawn
    <2>1. CASE \E pla \in Players : pawn[pla] = loc
      <3>1. PICK pla \in Players : pawn[pla] = loc
        BY <2>1
      <3>2. \A q \in Players : pawn[q] = loc => q = pla
        BY <1>6, <3>1, PlayersDistinct
      <3>3. colors[loc] = pla
        BY <2>1, <3>1, <3>2
      <3> QED BY <3>1, <3>2, <3>3, PlayersDistinct
    <2>2. CASE ~ \E pla \in Players : pawn[pla] = loc
      BY <2>2, PlayersDistinct
    <2> QED BY <2>1, <2>2
  <1>8. colors \in [Locs -> Colors]
    BY <1>7
  <1> HIDE DEF colors, pawn
  <1>9. Walls(b) = {}
    BY <1>3 DEF Walls
  <1>10. FencedBy(b) = {}
    BY <1>9 DEF FencedBy
  <1>11. BoardTyped(b)
    BY <1>3, <1>6, <1>8, BoundsAssumption DEF BoardTyped
  <1>12. Cardinality(Walls(b)) <= 2 * MAX_FENCE_NUM - b.fences[P_BLACK] - b.fences[P_WHITE]
    <2>1. Cardinality(Walls(b)) = 0
      BY <1>9, FS_EmptySet
    <2>2. b.fences[P_BLACK] \in 0 .. MAX_FENCE_NUM /\ b.fences[P_WHITE] \in 0 .. MAX_FENCE_NUM
      BY <1>3, PlayersDistinct
    <2> QED BY <2>1, <2>2, FenceNumAssumption
  <1> QED BY <1>3, <1>7, <1>9, <1>10, <1>11, <1>12 DEF Consistent

-----------------------------------------------------------------------------
(* A legal move *)

(* What makes a move that is not to a pawn cell legal. *)
LEMMA WallMoveLegal ==
  ASSUME NEW b, NEW loc \in Locs \ PawnLocs, NEW pla, isLegal(b, loc, pla)
  PROVE  \E v \in BOOLEAN : /\ IsVWallLoc(loc) = v
                            /\ AnchorOf(loc) \in Anchors /\ b.fences[pla] > 0
                            /\ NoOverlap(b, AnchorOf(loc), v)
  <1>1. ASSUME NEW v \in BOOLEAN, isLegalWallPlacement(b, AnchorOf(loc), v, pla)
        PROVE  /\ AnchorOf(loc) \in Anchors /\ b.fences[pla] > 0
               /\ NoOverlap(b, AnchorOf(loc), v)
    BY <1>1, Zenon DEF isLegalWallPlacement, isGeometricallyLegalWallPlacement
  <1>2. CASE loc \in HWallLocs /\ isLegalWallPlacement(b, AnchorOf(loc), FALSE, pla)
    <2>1. loc[1] % 2 = 1 /\ loc[2] % 2 = 1
      BY <1>2 DEF HWallLocs
    <2>2. IsVWallLoc(loc) = FALSE
      BY <2>1 DEF IsVWallLoc
    <2> QED BY <1>1, <1>2, <2>2, Zenon
  <1>3. CASE IsVWallLoc(loc) /\ isLegalWallPlacement(b, AnchorOf(loc), TRUE, pla)
    <2>1. IsVWallLoc(loc) = TRUE
      BY <1>3 DEF IsVWallLoc
    <2> QED BY <1>1, <1>3, <2>1, Zenon
  <1> QED BY <1>2, <1>3, Zenon DEF isLegal

LEMMA PlayKeeps ==
  ASSUME NEW b, BoardTyped(b), Consistent(b),
         NEW loc \in Locs, NEW pla \in Players, isLegal(b, loc, pla),
         NEW c, c = playMoveAssumeLegal(b, loc, pla)
  PROVE  BoardTyped(c) /\ Consistent(c) /\ c.movenum = b.movenum + 1
  <1> DEFINE d == [b EXCEPT !.movenum = @ + 1]
  <1>1. BoardTyped(d) /\ Core(d) = Core(b) /\ d.movenum = b.movenum + 1
    BY CountEffect
  <1>2. c = IF loc \in PawnLocs THEN MovePawn(d, loc, pla)
            ELSE PlaceWall(d, AnchorOf(loc), IsVWallLoc(loc), pla)
    BY DEF playMoveAssumeLegal
  <1> HIDE DEF d
  <1>3. Consistent(d)
    BY <1>1, ConsistentIsOfCore
  <1>4. d.colors = b.colors /\ d.fences = b.fences
    BY <1>1 DEF Core
  <1>5. CASE loc \in PawnLocs
    <2>1. c = MovePawn(d, loc, pla)
      BY <1>2, <1>5
    <2>2. d.colors[loc] = C_EMPTY
      BY <1>4 DEF isLegal
    <2>3. BoardTyped(MovePawn(d, loc, pla)) /\ MovePawn(d, loc, pla).movenum = d.movenum
      BY <1>1, <1>5, MovePawnEffect
    <2>4. Consistent(MovePawn(d, loc, pla))
      BY <1>1, <1>3, <1>5, <2>2, MovePawnConsistent
    <2> QED BY <1>1, <2>1, <2>3, <2>4
  <1>6. CASE loc \notin PawnLocs
    <2>1. c = PlaceWall(d, AnchorOf(loc), IsVWallLoc(loc), pla)
      BY <1>2, <1>6
    <2>2. PICK v \in BOOLEAN : /\ IsVWallLoc(loc) = v
                               /\ AnchorOf(loc) \in Anchors /\ b.fences[pla] > 0
                               /\ NoOverlap(b, AnchorOf(loc), v)
      BY <1>6, WallMoveLegal
    <2>4. d.fences[pla] > 0 /\ NoOverlap(d, AnchorOf(loc), v)
      BY <1>4, <2>2, Zenon DEF NoOverlap
    <2>5. c = PlaceWall(d, AnchorOf(loc), v, pla)
      BY <2>1, <2>2, Zenon
    <2>6. BoardTyped(c) /\ c.movenum = d.movenum
      <3>1. IsWalled(d, AnchorOf(loc), v, pla, c)
        BY <1>1, <2>2, <2>4, <2>5, PlaceWallEffect
      <3> QED BY <3>1 DEF IsWalled
    <2>7. Consistent(c)
      BY <1>1, <1>3, <2>2, <2>4, <2>5, PlaceWallConsistent
    <2> QED BY <1>1, <2>6, <2>7
  <1> QED BY <1>5, <1>6

-----------------------------------------------------------------------------
(* Taking a move back *)

LEMMA WallsDetermine ==
  ASSUME NEW b, NEW c, Walls(b) = Walls(c)
  PROVE  b.hWalls = c.hWalls /\ b.vWalls = c.vWalls
  <1>1. \A a : a \in b.hWalls <=> <<a, FALSE>> \in Walls(b)
    BY DEF Walls
  <1>2. \A a : a \in c.hWalls <=> <<a, FALSE>> \in Walls(c)
    BY DEF Walls
  <1>3. \A a : a \in b.vWalls <=> <<a, TRUE>> \in Walls(b)
    BY DEF Walls
  <1>4. \A a : a \in c.vWalls <=> <<a, TRUE>> \in Walls(c)
    BY DEF Walls
  <1> QED BY <1>1, <1>2, <1>3, <1>4

LEMMA WallTags ==
  /\ \A x, y : <<x, FALSE>> # <<y, TRUE>>
  /\ \A x, y : <<x, TRUE>> = <<y, TRUE>> => x = y
  /\ \A x, y : <<x, FALSE>> = <<y, FALSE>> => x = y
  OBVIOUS

LEMMA VerticalWallLifted ==
  ASSUME NEW c, NEW d, NEW anchor, c.hWalls = d.hWalls, c.vWalls = d.vWalls \ {anchor}
  PROVE  Walls(c) = Walls(d) \ {<<anchor, TRUE>>}
  <1>1. ASSUME NEW w, w \in Walls(c)
        PROVE  w \in Walls(d) /\ w # <<anchor, TRUE>>
    BY <1>1, WallTags, Zenon DEF Walls
  <1>2. ASSUME NEW w, w \in Walls(d), w # <<anchor, TRUE>>
        PROVE  w \in Walls(c)
    BY <1>2, WallTags, Zenon DEF Walls
  <1> QED BY <1>1, <1>2

LEMMA HorizontalWallLifted ==
  ASSUME NEW c, NEW d, NEW anchor, c.vWalls = d.vWalls, c.hWalls = d.hWalls \ {anchor}
  PROVE  Walls(c) = Walls(d) \ {<<anchor, FALSE>>}
  <1>1. ASSUME NEW w, w \in Walls(c)
        PROVE  w \in Walls(d) /\ w # <<anchor, FALSE>>
    BY <1>1, WallTags, Zenon DEF Walls
  <1>2. ASSUME NEW w, w \in Walls(d), w # <<anchor, FALSE>>
        PROVE  w \in Walls(c)
    BY <1>2, WallTags, Zenon DEF Walls
  <1> QED BY <1>1, <1>2

(* The fields of a board that undo restores. *)
LEMMA UndoFields ==
  ASSUME NEW d, BoardTyped(d), NEW record, NEW c, c = undo(d, record)
  PROVE  /\ IsRecord(c)
         /\ c.movenum = record.movenum /\ c.hash = record.hash
  BY DEF undo, IsRecord, Fields

(* A pawn taken back: the cells it left and entered are as they were. *)
LEMMA UndoPawnMove ==
  ASSUME NEW b, BoardTyped(b), Consistent(b),
         NEW loc \in PawnLocs, NEW pla \in Players, isLegal(b, loc, pla),
         NEW d, BoardTyped(d), Core(d) = Core(playMoveAssumeLegal(b, loc, pla)),
         NEW c, c = undo(d, MoveRecord(b, loc, pla))
  PROVE  Core(c) = Core(b)
  <1> DEFINE e == [b EXCEPT !.movenum = @ + 1]
             m == MovePawn(e, loc, pla)
             from == b.pawn[pla]
             record == MoveRecord(b, loc, pla)
  <1>1. BoardTyped(e) /\ Core(e) = Core(b)
    BY CountEffect
  <1>2. Core(d) = Core(m)
    BY DEF playMoveAssumeLegal
  <1> HIDE DEF e
  <1>3. /\ e.colors = b.colors /\ e.pawn = b.pawn /\ e.fences = b.fences
        /\ e.hWalls = b.hWalls /\ e.vWalls = b.vWalls
    BY <1>1 DEF Core
  <1>4. /\ m.colors = [[e.colors EXCEPT ![e.pawn[pla]] = C_EMPTY] EXCEPT ![loc] = pla]
        /\ m.pawn = [e.pawn EXCEPT ![pla] = loc] /\ m.fences = e.fences
        /\ m.hWalls = e.hWalls /\ m.vWalls = e.vWalls
    BY <1>1, MovePawnEffect
  <1> HIDE DEF m
  <1>5. /\ d.colors = [[b.colors EXCEPT ![from] = C_EMPTY] EXCEPT ![loc] = pla]
        /\ d.pawn = [b.pawn EXCEPT ![pla] = loc] /\ d.fences = b.fences
        /\ d.hWalls = b.hWalls /\ d.vWalls = b.vWalls
    BY <1>2, <1>3, <1>4 DEF Core
  <1>6. /\ record.pla = pla /\ record.loc = loc /\ record.pawn = b.pawn
    BY DEF MoveRecord
  <1> HIDE DEF record
  <1>7. /\ c.colors = [d.colors EXCEPT ![d.pawn[pla]] = C_EMPTY, ![from] = pla]
        /\ c.pawn = [d.pawn EXCEPT ![pla] = from] /\ c.fences = d.fences
        /\ c.hWalls = IF IsVWallLoc(loc) THEN d.hWalls ELSE d.hWalls \ {}
        /\ c.vWalls = IF IsVWallLoc(loc) THEN d.vWalls \ {} ELSE d.vWalls
    BY <1>6 DEF undo, record
  <1>8. c.hWalls = b.hWalls /\ c.vWalls = b.vWalls /\ c.fences = b.fences
    BY <1>5, <1>7
  <1>9. /\ b.pawn \in [Players -> PawnLocs] /\ b.colors \in [Locs -> Colors]
        /\ from \in Locs /\ loc \in Locs
    BY DEF BoardTyped, PawnLocs
  <1>10. b.colors[loc] = C_EMPTY /\ b.colors[from] = pla
    BY <1>9 DEF isLegal, Consistent
  <1>11. c.pawn = b.pawn
    BY <1>5, <1>7, <1>9
  <1>12. c.colors = b.colors
    <2>1. d.pawn[pla] = loc
      BY <1>5, <1>9
    <2>2. c.colors \in [Locs -> Colors \cup Players] /\ \A l \in Locs : c.colors[l] = b.colors[l]
      BY <1>5, <1>7, <1>9, <1>10, <2>1, PlayersDistinct
    <2> QED BY <1>9, <2>2
  <1> QED BY <1>8, <1>11, <1>12 DEF Core

LEMMA UndoWallFields ==
  ASSUME NEW d, NEW record, record.loc \notin PawnLocs, NEW c, c = undo(d, record)
  PROVE  /\ c.colors = [loc \in Locs |-> IF loc \in record.cells THEN C_EMPTY ELSE d.colors[loc]]
         /\ c.pawn = d.pawn /\ c.fences = record.fences
         /\ IsVWallLoc(record.loc) => /\ c.hWalls = d.hWalls
                                      /\ c.vWalls = d.vWalls \ {AnchorOf(record.loc)}
         /\ ~IsVWallLoc(record.loc) => /\ c.hWalls = d.hWalls \ {AnchorOf(record.loc)}
                                       /\ c.vWalls = d.vWalls
  BY DEF undo

(* A wall taken back: its cells are empty again and it is gone from the bitmaps. *)
LEMMA UndoWall ==
  ASSUME NEW b, BoardTyped(b), Consistent(b),
         NEW loc \in Locs \ PawnLocs, NEW pla \in Players, isLegal(b, loc, pla),
         NEW d, BoardTyped(d), Core(d) = Core(playMoveAssumeLegal(b, loc, pla)),
         NEW c, c = undo(d, MoveRecord(b, loc, pla))
  PROVE  Core(c) = Core(b)
  <1> DEFINE e == [b EXCEPT !.movenum = @ + 1]
             anchor == AnchorOf(loc)
             record == MoveRecord(b, loc, pla)
  <1>1. BoardTyped(e) /\ Core(e) = Core(b)
    BY CountEffect
  <1>2. PICK v \in BOOLEAN : /\ IsVWallLoc(loc) = v
                             /\ anchor \in Anchors /\ b.fences[pla] > 0
                             /\ NoOverlap(b, anchor, v)
    BY WallMoveLegal
  <1> DEFINE m == PlaceWall(e, anchor, v, pla)
             cells == WallCells(anchor, v)
  <1>3. Core(d) = Core(m)
    BY <1>2, Zenon DEF playMoveAssumeLegal
  <1> HIDE DEF e
  <1>4. /\ e.colors = b.colors /\ e.pawn = b.pawn /\ e.fences = b.fences
        /\ e.hWalls = b.hWalls /\ e.vWalls = b.vWalls
    BY <1>1 DEF Core
  <1>5. /\ m.colors = [l \in Locs |-> IF l \in WallCells(anchor, v) THEN C_FENCE ELSE e.colors[l]]
        /\ m.pawn = e.pawn
        /\ Walls(m) = Walls(e) \cup {<<anchor, v>>}
    <2>1. e.fences[pla] > 0
      BY <1>2, <1>4
    <2> HIDE DEF m
    <2>2. ASSUME NEW x, x = PlaceWall(e, anchor, v, pla)
          PROVE  /\ x.colors = [l \in Locs |-> IF l \in WallCells(anchor, v)
                                              THEN C_FENCE ELSE e.colors[l]]
                 /\ x.pawn = e.pawn
                 /\ Walls(x) = Walls(e) \cup {<<anchor, v>>}
      <3> HIDE DEF anchor
      <3>1. BoardTyped(e) /\ anchor \in Anchors
        BY <1>1, <1>2
      <3> HIDE DEF m, cells, record
      <3>2. anchor \in Anchors /\ v \in BOOLEAN /\ pla \in Players
        BY <3>1
      <3>3. /\ BoardTyped(x)
            /\ x.colors = [l \in Locs |-> IF l \in WallCells(anchor, v)
                                         THEN C_FENCE ELSE e.colors[l]]
            /\ x.pawn = e.pawn
            /\ x.fences = [e.fences EXCEPT ![pla] = e.fences[pla] - 1]
            /\ Walls(x) = Walls(e) \cup {<<anchor, v>>}
            /\ x.movenum = e.movenum
        <4>1. IsWalled(e, anchor, v, pla, x)
          BY <2>1, <2>2, <3>1, <3>2, PlaceWallEffect
        <4> QED BY <4>1 DEF IsWalled
      <3> QED BY <3>3
    <2> QED BY <2>2 DEF m
  <1> HIDE DEF m, cells
  <1>6. /\ d.colors = [l \in Locs |-> IF l \in cells THEN C_FENCE ELSE b.colors[l]]
        /\ d.pawn = b.pawn
    BY <1>3, <1>4, <1>5 DEF Core, cells
  <1>7. Walls(d) = Walls(b) \cup {<<anchor, v>>}
    <2>1. Walls(d) = Walls(m)
      BY <1>3 DEF Core, Walls
    <2>2. Walls(e) = Walls(b)
      BY <1>4 DEF Walls
    <2> QED BY <1>5, <2>1, <2>2
  <1>8. /\ record.pla = pla /\ record.loc = loc /\ record.fences = b.fences
        /\ record.cells = cells
    BY <1>2, Zenon DEF MoveRecord, cells
  <1>90. c = undo(d, record)
    OBVIOUS
  <1> HIDE DEF record
  <1>9. /\ c.colors = [l \in Locs |-> IF l \in cells THEN C_EMPTY ELSE d.colors[l]]
        /\ c.pawn = d.pawn /\ c.fences = b.fences
        /\ IsVWallLoc(loc) => c.hWalls = d.hWalls /\ c.vWalls = d.vWalls \ {anchor}
        /\ ~IsVWallLoc(loc) => c.hWalls = d.hWalls \ {anchor} /\ c.vWalls = d.vWalls
    <2>1. record.loc \notin PawnLocs
      BY <1>8
    <2>2. /\ c.colors = [l \in Locs |-> IF l \in record.cells THEN C_EMPTY ELSE d.colors[l]]
          /\ c.pawn = d.pawn /\ c.fences = record.fences
          /\ IsVWallLoc(record.loc) => /\ c.hWalls = d.hWalls
                                       /\ c.vWalls = d.vWalls \ {AnchorOf(record.loc)}
          /\ ~IsVWallLoc(record.loc) => /\ c.hWalls = d.hWalls \ {AnchorOf(record.loc)}
                                        /\ c.vWalls = d.vWalls
      BY <1>90, <2>1, UndoWallFields
    <2> QED BY <1>8, <2>2
  <1>10. Walls(c) = Walls(d) \ {<<anchor, v>>}
    <2>1. CASE v = TRUE
      <3>1. c.hWalls = d.hWalls /\ c.vWalls = d.vWalls \ {anchor}
        <4>1. IsVWallLoc(loc)
          BY <1>2, <2>1, Zenon
        <4> QED BY <1>9, <4>1
      <3> QED BY <2>1, <3>1, VerticalWallLifted, Zenon
    <2>2. CASE v = FALSE
      <3>1. c.hWalls = d.hWalls \ {anchor} /\ c.vWalls = d.vWalls
        <4>1. ~IsVWallLoc(loc)
          BY <1>2, <2>2, Zenon
        <4> QED BY <1>9, <4>1
      <3> QED BY <2>2, <3>1, HorizontalWallLifted, Zenon
    <2> QED BY <2>1, <2>2
  <1>11. <<anchor, v>> \notin Walls(b)
    BY <1>2, WallIsNew
  <1>12. Walls(c) = Walls(b)
    <2> DEFINE wall == <<anchor, v>>
    <2> HIDE DEF wall
    <2>1. Walls(c) = Walls(d) \ {wall} /\ Walls(d) = Walls(b) \cup {wall} /\ wall \notin Walls(b)
      BY <1>7, <1>10, <1>11 DEF wall
    <2> QED BY <2>1
  <1>13. c.colors = b.colors
    <2>1. \A l \in cells : b.colors[l] = C_EMPTY
      BY <1>2 DEF NoOverlap, cells
    <2>2. b.colors \in [Locs -> Colors]
      BY DEF BoardTyped
    <2> QED BY <1>6, <1>9, <2>1, <2>2
  <1> QED BY <1>6, <1>9, <1>12, <1>13, WallsDetermine DEF Core

(* Whatever recorded move is taken back, the position before it returns. *)
LEMMA UndoReturns ==
  ASSUME NEW b, BoardTyped(b), Consistent(b),
         NEW loc \in Locs, NEW pla \in Players, isLegal(b, loc, pla),
         NEW d, BoardTyped(d), Core(d) = Core(playMoveAssumeLegal(b, loc, pla)),
         NEW c, c = undo(d, MoveRecord(b, loc, pla))
  PROVE  /\ Core(c) = Core(b) /\ c.movenum = b.movenum /\ c.hash = b.hash
         /\ BoardTyped(c) /\ Consistent(c)
  <1>1. Core(c) = Core(b)
    <2>1. CASE loc \in PawnLocs
      BY <2>1, UndoPawnMove
    <2>2. CASE loc \notin PawnLocs
      BY <2>2, UndoWall
    <2> QED BY <2>1, <2>2
  <1>2. IsRecord(c) /\ c.movenum = b.movenum /\ c.hash = b.hash
    <2> DEFINE record == MoveRecord(b, loc, pla)
    <2>1. record.movenum = b.movenum /\ record.hash = b.hash
      BY DEF MoveRecord
    <2>2. c = undo(d, record)
      OBVIOUS
    <2> HIDE DEF record
    <2> QED BY <2>1, <2>2, UndoFields
  <1>3. Consistent(c)
    BY <1>1, ConsistentIsOfCore
  <1>4. BoardTyped(c)
    BY <1>1, <1>2 DEF Core, BoardTyped
  <1> QED BY <1>1, <1>2, <1>3, <1>4

-----------------------------------------------------------------------------
(* The inductive invariant: the board and every board on the undo stack    *)
(* are well formed, and each record is that of a legal move from the board *)
(* below it to the position above it.                                      *)

After(i) == IF i = Len(records) THEN board ELSE records[i + 1].before

IsEntry(e, d) ==
  /\ BoardTyped(e.before) /\ Consistent(e.before) /\ e.before.movenum < MaxMoves
  /\ e.record.loc \in Locs /\ e.record.pla \in Players
  /\ isLegal(e.before, e.record.loc, e.record.pla)
  /\ e.record = MoveRecord(e.before, e.record.loc, e.record.pla)
  /\ Core(d) = Core(playMoveAssumeLegal(e.before, e.record.loc, e.record.pla))

IInv ==
  /\ BoardTyped(board) /\ Consistent(board) /\ board.movenum <= MaxMoves
  /\ records \in Seq({records[i] : i \in DOMAIN records})
  /\ Len(records) <= MaxUndo
  /\ \A i \in 1 .. Len(records) : IsEntry(records[i], After(i))

LEMMA EntryIsOfCore ==
  ASSUME NEW e, NEW d, NEW c, IsEntry(e, d), Core(c) = Core(d)
  PROVE  IsEntry(e, c)
  BY DEF IsEntry

LEMMA InitInv == Init => IInv
  <1> SUFFICES ASSUME Init PROVE IInv
    OBVIOUS
  <1>1. PICK fences \in Handicaps : board = setFencesLeft(initialBoard, fences)
    BY DEF Init
  <1>2. BoardTyped(board) /\ Consistent(board) /\ board.movenum = 0
    BY <1>1, HandicapsAssumption, NewBoard
  <1>3. records = <<>>
    BY DEF Init
  <1> QED BY <1>2, <1>3, BoundsAssumption DEF IInv

(* What a step that takes a move back does to the position. *)
LEMMA UndoStep ==
  ASSUME IInv, undoLast
  PROVE  /\ Core(board') = Core(Last(records).before)
         /\ board'.movenum = Last(records).before.movenum
         /\ board'.hash = Last(records).before.hash
         /\ BoardTyped(board') /\ Consistent(board')
  <1> DEFINE n == Len(records)
             e == records[n]
  <1>1. n \in Nat /\ n # 0 /\ Last(records) = e
    BY DEF IInv, undoLast, Last
  <1>2. IsEntry(e, board)
    BY <1>1 DEF IInv, After
  <1>3. board' = undo(board, e.record)
    BY <1>1 DEF undoLast
  <1> HIDE DEF e
  <1>4. BoardTyped(board)
    BY DEF IInv
  <1> QED BY <1>1, <1>2, <1>3, <1>4, UndoReturns DEF IsEntry

LEMMA NextInv == IInv /\ [Next]_vars => IInv'
  <1> SUFFICES ASSUME IInv, [Next]_vars PROVE IInv'
    OBVIOUS
  <1> DEFINE n == Len(records)
             S == {records[i] : i \in DOMAIN records}
  <1>0. records \in Seq(S) /\ n \in Nat /\ n <= MaxUndo
    BY DEF IInv
  <1>1. ASSUME NEW loc \in Locs, NEW pla \in Players, playMove(loc, pla)
        PROVE  IInv'
    <2>1. BoardTyped(board') /\ Consistent(board') /\ board'.movenum = board.movenum + 1
      BY <1>1, PlayKeeps DEF IInv, playMove
    <2>3. board'.movenum <= MaxMoves
      BY <1>1, <2>1, BoundsAssumption DEF playMove, IInv, BoardTyped
    <2>2. records = <<>> /\ records' = <<>>
      BY <1>1 DEF playMove
    <2> QED BY <2>1, <2>2, <2>3, BoundsAssumption DEF IInv
  <1>2. ASSUME NEW loc \in Locs, NEW pla \in Players, playMoveRecorded(loc, pla)
        PROVE  IInv'
    <2> DEFINE e == [record |-> MoveRecord(board, loc, pla), before |-> board]
    <2>1. BoardTyped(board') /\ Consistent(board') /\ board'.movenum = board.movenum + 1
      BY <1>2, PlayKeeps DEF IInv, playMoveRecorded
    <2>8. board'.movenum <= MaxMoves
      BY <1>2, <2>1, BoundsAssumption DEF playMoveRecorded, IInv, BoardTyped
    <2>2. records' = Append(records, e) /\ n < MaxUndo
      BY <1>2 DEF playMoveRecorded
    <2>3. IsEntry(e, board')
      BY <1>2 DEF IsEntry, IInv, playMoveRecorded, MoveRecord
    <2>4. e.before = board
      OBVIOUS
    <2> HIDE DEF e
    <2>5. /\ records' \in Seq(S \cup {e}) /\ Len(records') = n + 1
          /\ records'[n + 1] = e /\ \A i \in 1 .. n : records'[i] = records[i]
      BY <1>0, <2>2
    <2>6. ASSUME NEW i \in 1 .. n + 1
          PROVE  IsEntry(records'[i], After(i)')
      <3>1. CASE i = n + 1
        BY <2>3, <2>5, <3>1 DEF After
      <3>2. CASE i = n
        BY <1>0, <2>4, <2>5, <3>2 DEF After, IInv
      <3>3. CASE i \in 1 .. n - 1
        BY <1>0, <2>5, <3>3 DEF After, IInv
      <3> QED BY <1>0, <3>1, <3>2, <3>3
    <2>7. n + 1 <= MaxUndo
      BY <1>0, <2>2, BoundsAssumption
    <2> QED BY <2>1, <2>5, <2>6, <2>7, <2>8 DEF IInv
  <1>3. ASSUME undoLast
        PROVE  IInv'
    <2>1. /\ BoardTyped(board') /\ Consistent(board')
          /\ Core(board') = Core(Last(records).before)
          /\ board'.movenum = Last(records).before.movenum
      BY <1>3, UndoStep
    <2>2. n # 0 /\ n - 1 \in Nat /\ Last(records) = records[n]
      BY <1>0, <1>3 DEF undoLast, Last
    <2>3. records' = [i \in 1 .. n - 1 |-> records[i]]
      BY <1>3 DEF undoLast, Front
    <2>4. records' \in Seq(S) /\ Len(records') = n - 1
      BY <1>0, <2>2, <2>3
    <2>5. ASSUME NEW i \in 1 .. n - 1
          PROVE  IsEntry(records'[i], After(i)')
      <3>1. records'[i] = records[i] /\ IsEntry(records[i], records[i + 1].before)
        <4>1. i \in 1 .. n /\ i # n
          BY <1>0, <2>2
        <4>2. IsEntry(records[i], After(i))
          BY <4>1 DEF IInv
        <4>3. After(i) = records[i + 1].before
          BY <4>1 DEF After
        <4>4. records'[i] = records[i]
          BY <2>3
        <4> QED BY <4>2, <4>3, <4>4
      <3>2. CASE i = n - 1
        BY <1>0, <2>1, <2>2, <2>4, <3>1, <3>2, EntryIsOfCore DEF After
      <3>3. CASE i # n - 1
        <4>1. i + 1 \in 1 .. n - 1 /\ i # Len(records')
          BY <1>0, <2>2, <2>4, <3>3
        <4>2. records'[i + 1] = records[i + 1]
          BY <2>3, <4>1
        <4>3. After(i)' = records'[i + 1].before
          BY <4>1 DEF After
        <4> QED BY <3>1, <4>2, <4>3
      <3> QED BY <3>2, <3>3
    <2>6. n - 1 <= MaxUndo
      BY <1>0, BoundsAssumption
    <2>7. board'.movenum <= MaxMoves
      <3>1. IsEntry(records[n], After(n))
        BY <1>0, <2>2 DEF IInv
      <3> QED BY <2>1, <2>2, <3>1, BoundsAssumption DEF IsEntry, BoardTyped
    <2> QED BY <2>1, <2>4, <2>5, <2>6, <2>7 DEF IInv
  <1>4. CASE UNCHANGED vars
    BY <1>4 DEF vars, IInv, After
  <1> QED BY <1>1, <1>2, <1>3, <1>4 DEF Next

LEMMA InvOfSpec == Spec => []IInv
  BY InitInv, NextInv, PTL DEF Spec

-----------------------------------------------------------------------------
(* Theorems *)

(* Every field of the board keeps its type, whatever is played and taken   *)
(* back: pawns stay on pawn cells, wall counts within the supply, anchors  *)
(* on the board (board.h, struct Board).                                   *)
THEOREM TypeCorrect == Spec => []TypeOK
  <1>1. IInv => TypeOK
    BY BoundsAssumption DEF IInv, TypeOK, BoardTyped
  <1> QED BY <1>1, InvOfSpec, PTL

(* The assertions of Board::checkConsistency hold of every board reached   *)
(* by moves and undos: fenced cells are exactly those of disjoint walls,   *)
(* pawn cells show the pawns and no wall is placed beyond the supply.      *)
THEOREM BoardIsConsistent == Spec => []BoardConsistent
  <1>1. IInv => BoardConsistent
    BY DEF IInv, BoardConsistent
  <1> QED BY <1>1, InvOfSpec, PTL

(* Board::undo returns colors, pawns, wall bitmaps, wall counts, move      *)
(* number and hash to what they were before the recorded move.             *)
UndoRestoresPosition ==
  [][undoLast => /\ Core(board') = Core(Last(records).before)
                 /\ board'.movenum = Last(records).before.movenum
                 /\ board'.hash = Last(records).before.hash]_vars
THEOREM UndoIsExact == Spec => UndoRestoresPosition
  <1>1. IInv /\ [Next]_vars
          => [undoLast => /\ Core(board') = Core(Last(records).before)
                          /\ board'.movenum = Last(records).before.movenum
                          /\ board'.hash = Last(records).before.hash]_vars
    BY UndoStep
  <1> QED BY <1>1, InvOfSpec, PTL DEF Spec, UndoRestoresPosition

-----------------------------------------------------------------------------
(* The breadth-first search: its folds as chains of queues that only grow *)

(* The folds of the search are recursive functions on sets of positions; *)
(* these are their defining equations.                                   *)
Passed(n) == [i \in 1 .. n |-> i]
IsVisits(g, colors, blocked, queue, path) ==
  g = [s \in SUBSET DOMAIN Dirs |->
         IF s = {} THEN queue ELSE BfsVisit(colors, blocked, g[s \ {Max(s)}], path, Dirs[Max(s)])]
IsExpands(g, colors, blocked, queue, n) ==
  g = [s \in SUBSET DOMAIN Passed(n) |->
         IF s = {} THEN queue ELSE BfsExpand(colors, blocked, g[s \ {Max(s)}], Passed(n)[Max(s)])]

(* Expanding a cell folds the four visits. *)
LEMMA ExpandChosen ==
  ASSUME NEW colors, NEW blocked, NEW queue, NEW i, ~(i > Len(queue))
  PROVE  BfsExpand(colors, blocked, queue, i)
           = (CHOOSE g : IsVisits(g, colors, blocked, queue, queue[i]))[DOMAIN Dirs]
  BY DEF BfsExpand, FoldLeft, MapThenFoldSet, IsVisits

(* The search folds the expansions of the first N * N entries of its *)
(* queue.                                                            *)
LEMMA QueueChosen ==
  ASSUME NEW colors, NEW blocked, NEW starts
  PROVE  BfsQueue(starts, colors, blocked)
           = (CHOOSE g : IsExpands(g, colors, blocked, [i \in DOMAIN starts |-> <<starts[i]>>], N * N))
               [DOMAIN Passed(N * N)]
  BY DEF BfsQueue, FoldLeft, MapThenFoldSet, IsExpands, Passed

-----------------------------------------------------------------------------
(* Induction on a set of naturals. *)
LEMMA NatSet ==
  ASSUME NEW S, 0 \in S, \A n \in Nat : n \in S => n + 1 \in S
  PROVE  \A n \in Nat : n \in S
  <1> DEFINE T == Nat \ S
  <1>1. ASSUME T # {} PROVE FALSE
    <2>1. PICK m \in T : \A k \in T : ~ (<<k, m>> \in OpToRel(<, Nat))
      BY <1>1, NatLessThanWellFounded, WFMin
    <2>2. m \in Nat /\ m # 0
      OBVIOUS
    <2>3. m - 1 \in Nat /\ m - 1 < m /\ (m - 1) + 1 = m
      BY <2>2
    <2>4. m - 1 \in T
      BY <2>3
    <2>5. <<m - 1, m>> \in OpToRel(<, Nat)
      BY <2>2, <2>3 DEF OpToRel
    <2> QED BY <2>1, <2>4, <2>5
  <1> QED BY <1>1

(* A set that has n + 1 has no greater element. *)
LEMMA MaxOfNext ==
  ASSUME NEW n \in Nat, NEW s \in SUBSET (1 .. n + 1), n + 1 \in s
  PROVE  Max(s) = n + 1
  <1>1. \A x \in s : x \in Int /\ x <= n + 1
    OBVIOUS
  <1>2. n + 1 \in s /\ \A y \in s : n + 1 >= y
    BY <1>1
  <1>3. ASSUME NEW x \in s, \A y \in s : x >= y PROVE x = n + 1
    BY <1>1, <1>2, <1>3
  <1> QED BY <1>2, <1>3 DEF Max

(* A fold over 1 .. m, as SequencesExt defines it. *)
IsFold(g, op, base, n) ==
  g = [s \in SUBSET (1 .. n) |-> IF s = {} THEN base ELSE op[<<g[s \ {Max(s)}], Max(s)>>]]

(* The equation of a fold over 1 .. m has a solution, whose values stay in *)
(* the domain of what is folded.                                           *)
LEMMA FoldExists ==
  ASSUME NEW D, NEW base \in D, NEW m \in Nat, NEW op \in [D \X (1 .. m) -> D]
  PROVE  \E g : IsFold(g, op, base, m) /\ \A s \in SUBSET (1 .. m) : g[s] \in D
  <1> DEFINE Fine(g, n) == IsFold(g, op, base, n) /\ \A s \in SUBSET (1 .. n) : g[s] \in D
             S == {n \in Nat : n <= m => \E g : Fine(g, n)}
  <1>1. 0 \in S
    <2> DEFINE g == [s \in SUBSET (1 .. 0) |-> base]
    <2>1. \A s \in SUBSET (1 .. 0) : s = {}
      OBVIOUS
    <2>2. g = [s \in SUBSET (1 .. 0) |-> IF s = {} THEN base ELSE op[<<g[s \ {Max(s)}], Max(s)>>]]
      BY <2>1
    <2>3. \A s \in SUBSET (1 .. 0) : g[s] \in D
      OBVIOUS
    <2> HIDE DEF g
    <2> QED BY <2>2, <2>3 DEF IsFold
  <1>2. ASSUME NEW n \in Nat, n \in S PROVE n + 1 \in S
    <2> SUFFICES ASSUME n + 1 <= m PROVE \E g : Fine(g, n + 1)
      OBVIOUS
    <2>1. PICK h : Fine(h, n)
      BY <1>2
    <2> DEFINE g == [s \in SUBSET (1 .. n + 1) |-> IF n + 1 \in s THEN op[<<h[s \ {n + 1}], n + 1>>] ELSE h[s]]
    <2>2. ASSUME NEW s \in SUBSET (1 .. n + 1)
          PROVE  g[s] \in D /\ g[s] = IF s = {} THEN base ELSE op[<<g[s \ {Max(s)}], Max(s)>>]
      <3>1. CASE n + 1 \in s
        <4>1. Max(s) = n + 1
          BY <3>1, MaxOfNext
        <4>2. s \ {n + 1} \in SUBSET (1 .. n) /\ s \ {n + 1} \in SUBSET (1 .. n + 1)
          OBVIOUS
        <4>3. g[s \ {n + 1}] = h[s \ {n + 1}] /\ h[s \ {n + 1}] \in D
          BY <2>1, <4>2
        <4>4. g[s] = op[<<h[s \ {n + 1}], n + 1>>]
          BY <3>1
        <4>5. n + 1 \in 1 .. m
          OBVIOUS
        <4> HIDE DEF g, Fine
        <4> QED BY <3>1, <4>1, <4>3, <4>4, <4>5
      <3>2. CASE n + 1 \notin s
        <4>1. s \in SUBSET (1 .. n) /\ s \ {Max(s)} \in SUBSET (1 .. n) /\ s \ {Max(s)} \in SUBSET (1 .. n + 1)
          <5>1. \A x \in s : x \in 1 .. n
            BY <3>2
          <5> QED BY <5>1
        <4>2. g[s] = h[s] /\ g[s \ {Max(s)}] = h[s \ {Max(s)}]
          BY <3>2, <4>1
        <4>3. h[s] \in D /\ h[s] = IF s = {} THEN base ELSE op[<<h[s \ {Max(s)}], Max(s)>>]
          <5>1. IsFold(h, op, base, n) /\ h[s] \in D
            BY <2>1, <4>1
          <5> QED BY <4>1, <5>1, Zenon DEF IsFold
        <4> HIDE DEF g, Fine
        <4> QED BY <4>2, <4>3
      <3> QED BY <3>1, <3>2
    <2>3. g = [s \in SUBSET (1 .. n + 1) |-> g[s]]
      OBVIOUS
    <2> HIDE DEF g
    <2>4. IsFold(g, op, base, n + 1)
      BY <2>2, <2>3 DEF IsFold
    <2> QED BY <2>2, <2>4
  <1>3. m \in S
    <2> HIDE DEF S
    <2> QED BY <1>1, <1>2, NatSet
  <1> QED BY <1>3

(* A set of positions contains its maximum. *)
LEMMA MaxIn ==
  ASSUME NEW m \in Nat, NEW s \in SUBSET (1 .. m), s # {}
  PROVE  Max(s) \in s
  <1> DEFINE S == {n \in Nat : \A t \in SUBSET (1 .. n) : t # {} => Max(t) \in t}
  <1>1. 0 \in S
    <2>1. 1 .. 0 = {}
      OBVIOUS
    <2> QED BY <2>1
  <1>2. ASSUME NEW n \in Nat, n \in S PROVE n + 1 \in S
    <2> SUFFICES ASSUME NEW t \in SUBSET (1 .. n + 1), t # {} PROVE Max(t) \in t
      OBVIOUS
    <2>1. CASE n + 1 \in t
      BY <2>1, MaxOfNext
    <2>2. CASE n + 1 \notin t
      <3>1. \A x \in t : x \in 1 .. n
        BY <2>2
      <3>2. t \in SUBSET (1 .. n)
        BY <3>1
      <3> QED BY <1>2, <3>2
    <2> QED BY <2>1, <2>2
  <1>3. m \in S
    <2> HIDE DEF S
    <2> QED BY <1>1, <1>2, NatSet
  <1> QED BY <1>3

-----------------------------------------------------------------------------
(* The breadth-first search *)

(* A step that neither a wall nor the wall under consideration closes. *)
Edge(colors, blocked, a, b) == canPawnStep(colors, a, b) /\ Between(a, b) \notin blocked
IsWalk(colors, blocked, path) ==
  /\ path \in Seq(PawnLocs) /\ path # <<>>
  /\ \A i \in 1 .. Len(path) - 1 : Edge(colors, blocked, path[i], path[i + 1])
Grows(q, r) == Len(q) <= Len(r) /\ \A i \in 1 .. Len(q) : r[i] = q[i]

(* A queue of paths from cells of a set, no two of them to the same cell. *)
Queues(colors, blocked, from) ==
  {q \in Seq(Seq(PawnLocs)) :
     /\ \A i \in 1 .. Len(q) : IsWalk(colors, blocked, q[i]) /\ q[i][1] \in from
     /\ \A i, j \in 1 .. Len(q) : End(q[i]) = End(q[j]) => i = j}

(* A walk has a first and a last cell, and all are pawn cells. *)
LEMMA WalkEnds ==
  ASSUME NEW colors, NEW blocked, NEW path, IsWalk(colors, blocked, path)
  PROVE  /\ Len(path) \in Nat \ {0} /\ DOMAIN path = 1 .. Len(path)
         /\ path[1] \in PawnLocs /\ End(path) \in PawnLocs
         /\ \A i \in 1 .. Len(path) : path[i] \in PawnLocs
  BY DEF IsWalk, End

(* One step more on a walk. *)
LEMMA WalkFurther ==
  ASSUME NEW colors, NEW blocked, NEW path, IsWalk(colors, blocked, path),
         NEW next, Edge(colors, blocked, End(path), next)
  PROVE  /\ IsWalk(colors, blocked, Append(path, next)) /\ Append(path, next)[1] = path[1]
         /\ End(Append(path, next)) = next
  <1>1. next \in PawnLocs
    BY DEF Edge, canPawnStep
  <1>2. path \in Seq(PawnLocs) /\ Len(path) \in Nat \ {0}
    BY WalkEnds DEF IsWalk
  <1> DEFINE more == Append(path, next)
  <1>3. /\ more \in Seq(PawnLocs) /\ Len(more) = Len(path) + 1 /\ more[Len(path) + 1] = next
        /\ \A i \in 1 .. Len(path) : more[i] = path[i]
    BY <1>1, <1>2
  <1> HIDE DEF more
  <1>4. End(more) = next
    BY <1>3 DEF End
  <1>5. ASSUME NEW i \in 1 .. Len(more) - 1 PROVE Edge(colors, blocked, more[i], more[i + 1])
    <2>1. CASE i < Len(path)
      <3>1. i \in 1 .. Len(path) - 1 /\ i + 1 \in 1 .. Len(path) /\ i \in 1 .. Len(path)
        BY <1>2, <1>3, <2>1
      <3>2. more[i] = path[i] /\ more[i + 1] = path[i + 1]
        BY <1>3, <3>1
      <3> QED BY <3>1, <3>2 DEF IsWalk
    <2>2. CASE i = Len(path)
      <3>1. more[i] = End(path) /\ more[i + 1] = next
        BY <1>2, <1>3, <2>2 DEF End
      <3> QED BY <3>1
    <2> QED BY <1>2, <1>3, <2>1, <2>2
  <1>6. more # <<>> /\ more[1] = path[1]
    BY <1>2, <1>3
  <1>7. IsWalk(colors, blocked, more)
    BY <1>3, <1>5, <1>6 DEF IsWalk
  <1> QED BY <1>4, <1>6, <1>7 DEF more

(* A visit keeps a queue of walks to different cells and, if the step is *)
(* open, has the cell in it afterwards.                                  *)
LEMMA VisitGrows ==
  ASSUME NEW colors, NEW blocked, NEW from, NEW q \in Queues(colors, blocked, from),
         NEW path, IsWalk(colors, blocked, path), path[1] \in from, NEW dir
  PROVE  /\ BfsVisit(colors, blocked, q, path, dir) \in Queues(colors, blocked, from)
         /\ Grows(q, BfsVisit(colors, blocked, q, path, dir))
         /\ Edge(colors, blocked, End(path), Plus(End(path), dir)) =>
              Plus(End(path), dir) \in Seen(BfsVisit(colors, blocked, q, path, dir))
  <1> DEFINE next == Plus(End(path), dir)
             r == BfsVisit(colors, blocked, q, path, dir)
  <1>1. q \in Seq(Seq(PawnLocs)) /\ Len(q) \in Nat /\ DOMAIN q = 1 .. Len(q)
    BY DEF Queues
  <1>2. Grows(q, q)
    BY <1>1 DEF Grows
  <1>3. CASE Edge(colors, blocked, End(path), next) /\ next \notin Seen(q)
    <2> DEFINE more == Append(path, next)
    <2>1. r = Append(q, more)
      BY <1>3 DEF BfsVisit, Edge
    <2>2. IsWalk(colors, blocked, more) /\ more[1] = path[1] /\ End(more) = next
      BY <1>3, WalkFurther
    <2>3. more \in Seq(PawnLocs)
      BY <2>2 DEF IsWalk
    <2> HIDE DEF more, r, next
    <2>4. /\ r \in Seq(Seq(PawnLocs)) /\ Len(r) = Len(q) + 1 /\ r[Len(q) + 1] = more /\ DOMAIN r = 1 .. Len(r)
          /\ \A i \in 1 .. Len(q) : r[i] = q[i]
      BY <1>1, <2>1, <2>3
    <2>5. \A i \in 1 .. Len(r) : i \in 1 .. Len(q) \/ i = Len(q) + 1
      BY <1>1, <2>4
    <2>6. Len(q) + 1 \in 1 .. Len(r)
      BY <1>1, <2>4
    <2>7. ASSUME NEW i \in 1 .. Len(r) PROVE IsWalk(colors, blocked, r[i]) /\ r[i][1] \in from
      BY <2>2, <2>4, <2>5 DEF Queues
    <2>8. \A i \in 1 .. Len(q) : End(r[i]) # next
      BY <1>1, <1>3, <2>4 DEF Seen
    <2>9. ASSUME NEW i \in 1 .. Len(r), NEW j \in 1 .. Len(r), End(r[i]) = End(r[j]) PROVE i = j
      <3>1. CASE i \in 1 .. Len(q) /\ j \in 1 .. Len(q)
        BY <2>4, <2>9, <3>1 DEF Queues
      <3>2. CASE i = Len(q) + 1 /\ j = Len(q) + 1
        BY <3>2
      <3>3. CASE i \in 1 .. Len(q) /\ j = Len(q) + 1
        BY <2>2, <2>4, <2>8, <2>9, <3>3
      <3>4. CASE i = Len(q) + 1 /\ j \in 1 .. Len(q)
        BY <2>2, <2>4, <2>8, <2>9, <3>4
      <3> QED BY <2>5, <3>1, <3>2, <3>3, <3>4
    <2>10. next \in Seen(r)
      BY <2>2, <2>4, <2>6 DEF Seen
    <2>11. r \in Queues(colors, blocked, from)
      BY <2>4, <2>7, <2>9 DEF Queues
    <2>12. Grows(q, r)
      BY <1>1, <2>4 DEF Grows
    <2> QED BY <2>10, <2>11, <2>12 DEF next, r
  <1>4. CASE ~(Edge(colors, blocked, End(path), next) /\ next \notin Seen(q))
    <2>1. r = q
      BY <1>4 DEF BfsVisit, Edge
    <2> QED BY <1>2, <1>4, <2>1
  <1> QED BY <1>3, <1>4

(* A queue that grows forgets no cell. *)
LEMMA GrowsSeen ==
  ASSUME NEW S, NEW q \in Seq(S), NEW r \in Seq(S), Grows(q, r)
  PROVE  Seen(q) \subseteq Seen(r)
  <1>1. DOMAIN q = 1 .. Len(q) /\ DOMAIN r = 1 .. Len(r) /\ Len(q) \in Nat /\ Len(r) \in Nat
    OBVIOUS
  <1>2. ASSUME NEW i \in DOMAIN q PROVE i \in DOMAIN r /\ r[i] = q[i]
    BY <1>1 DEF Grows
  <1> QED BY <1>2 DEF Seen

(* Growing is transitive. *)
LEMMA GrowsOn ==
  ASSUME NEW S, NEW q \in Seq(S), NEW r \in Seq(S), NEW u \in Seq(S), Grows(q, r), Grows(r, u)
  PROVE  Grows(q, u)
  <1>1. Len(q) \in Nat /\ Len(r) \in Nat /\ Len(u) \in Nat
    OBVIOUS
  <1>2. Len(q) <= Len(u)
    BY <1>1 DEF Grows
  <1>3. ASSUME NEW i \in 1 .. Len(q) PROVE u[i] = q[i]
    <2>1. i \in 1 .. Len(r)
      BY <1>1 DEF Grows
    <2> QED BY <2>1 DEF Grows
  <1> QED BY <1>2, <1>3 DEF Grows

(* The neighbours of a cell are tried one after another. *)
LEMMA DirsFour ==
  /\ DOMAIN Dirs = 1 .. 4
  /\ Dirs[1] = <<0, -2>> /\ Dirs[2] = <<-2, 0>> /\ Dirs[3] = <<2, 0>> /\ Dirs[4] = <<0, 2>>
  BY DEF Dirs

(* The four visits as a chain of queues. *)
LEMMA VisitsChain ==
  ASSUME NEW colors, NEW blocked, NEW from, NEW q \in Queues(colors, blocked, from),
         NEW path, IsWalk(colors, blocked, path), path[1] \in from
  PROVE  \E h : /\ h[{}] = q
                /\ \A k \in 0 .. 3 : h[1 .. k + 1] = BfsVisit(colors, blocked, h[1 .. k], path, Dirs[k + 1])
                /\ h[1 .. 4] = (CHOOSE g : IsVisits(g, colors, blocked, q, path))[DOMAIN Dirs]
  <1> DEFINE D == Queues(colors, blocked, from)
             op == [x \in D \X (1 .. 4) |-> BfsVisit(colors, blocked, x[1], path, Dirs[x[2]])]
             h == CHOOSE g : IsVisits(g, colors, blocked, q, path)
  <1>1. op \in [D \X (1 .. 4) -> D]
    <2> HIDE DEF D
    <2>1. ASSUME NEW x \in D \X (1 .. 4) PROVE BfsVisit(colors, blocked, x[1], path, Dirs[x[2]]) \in D
      BY VisitGrows DEF D
    <2> QED BY <2>1
  <1>2. PICK g : IsFold(g, op, q, 4) /\ \A s \in SUBSET (1 .. 4) : g[s] \in D
    <2> HIDE DEF op
    <2>1. q \in D /\ 4 \in Nat
      OBVIOUS
    <2> HIDE DEF D
    <2> QED BY <1>1, <2>1, FoldExists
  <1>3. IsVisits(g, colors, blocked, q, path)
    <2>1. ASSUME NEW s \in SUBSET (1 .. 4)
          PROVE  (IF s = {} THEN q ELSE op[<<g[s \ {Max(s)}], Max(s)>>])
                   = (IF s = {} THEN q ELSE BfsVisit(colors, blocked, g[s \ {Max(s)}], path, Dirs[Max(s)]))
      <3>1. CASE s # {}
        <4>1. Max(s) \in 1 .. 4 /\ s \ {Max(s)} \in SUBSET (1 .. 4)
          BY <3>1, MaxIn
        <4>2. g[s \ {Max(s)}] \in D
          BY <1>2, <4>1
        <4> HIDE DEF D
        <4>3. <<g[s \ {Max(s)}], Max(s)>> \in D \X (1 .. 4)
          BY <4>1, <4>2
        <4> QED BY <4>3
      <3> QED BY <3>1
    <2> HIDE DEF op, D
    <2> QED BY <1>2, <2>1, DirsFour DEF IsFold, IsVisits
  <1>4. IsVisits(h, colors, blocked, q, path)
    BY <1>3
  <1> HIDE DEF h
  <1>5. h[{}] = q
    BY <1>4, DirsFour DEF IsVisits
  <1>6. ASSUME NEW k \in 0 .. 3 PROVE h[1 .. k + 1] = BfsVisit(colors, blocked, h[1 .. k], path, Dirs[k + 1])
    <2>1. 1 .. k + 1 \in SUBSET (1 .. 4) /\ 1 .. k + 1 # {} /\ k + 1 \in 1 .. k + 1 /\ k \in Nat
      OBVIOUS
    <2>2. Max(1 .. k + 1) = k + 1
      BY <2>1, MaxOfNext
    <2>3. (1 .. k + 1) \ {k + 1} = 1 .. k
      OBVIOUS
    <2>4. h[1 .. k + 1] = BfsVisit(colors, blocked, h[(1 .. k + 1) \ {Max(1 .. k + 1)}], path, Dirs[Max(1 .. k + 1)])
      BY <1>4, <2>1, DirsFour, Zenon DEF IsVisits
    <2> QED BY <2>2, <2>3, <2>4
  <1> QED BY <1>5, <1>6, DirsFour DEF h

(* Every open step is in one of the four directions. *)
LEMMA EdgeByDir ==
  ASSUME NEW colors, NEW blocked, NEW a, NEW b, Edge(colors, blocked, a, b)
  PROVE  \E k \in 0 .. 3 : b = Plus(a, Dirs[k + 1])
  <1>1. PICK ax \in Int, ay \in Int, bx \in Int, by \in Int : a = <<ax, ay>> /\ b = <<bx, by>>
    BY BoardSizeAssumption DEF Edge, canPawnStep, PawnLocs, Locs, size
  <1>2. (ax = bx \/ ay = by) /\ Dist(a, b) = 2
    BY <1>1 DEF Edge, canPawnStep
  <1>3. \/ bx = ax /\ by = ay - 2
        \/ bx = ax - 2 /\ by = ay
        \/ bx = ax + 2 /\ by = ay
        \/ bx = ax /\ by = ay + 2
    BY <1>1, <1>2 DEF Dist, Abs
  <1>4. /\ Plus(a, Dirs[0 + 1]) = <<ax, ay - 2>> /\ Plus(a, Dirs[1 + 1]) = <<ax - 2, ay>>
        /\ Plus(a, Dirs[2 + 1]) = <<ax + 2, ay>> /\ Plus(a, Dirs[3 + 1]) = <<ax, ay + 2>>
    BY <1>1, DirsFour DEF Plus
  <1>5. 0 \in 0 .. 3 /\ 1 \in 0 .. 3 /\ 2 \in 0 .. 3 /\ 3 \in 0 .. 3
    OBVIOUS
  <1> QED BY <1>1, <1>3, <1>4, <1>5

(* Expanding an entry puts everything one step away from it into the *)
(* queue.                                                            *)
LEMMA ExpandGrows ==
  ASSUME NEW colors, NEW blocked, NEW from, NEW q \in Queues(colors, blocked, from), NEW i \in Nat \ {0}
  PROVE  /\ BfsExpand(colors, blocked, q, i) \in Queues(colors, blocked, from)
         /\ Grows(q, BfsExpand(colors, blocked, q, i))
         /\ i <= Len(q) => \A b : Edge(colors, blocked, End(q[i]), b) => b \in Seen(BfsExpand(colors, blocked, q, i))
         /\ i > Len(q) => BfsExpand(colors, blocked, q, i) = q
  <1> DEFINE D == Queues(colors, blocked, from)
             r == BfsExpand(colors, blocked, q, i)
  <1>1. q \in Seq(Seq(PawnLocs)) /\ Len(q) \in Nat /\ D \subseteq Seq(Seq(PawnLocs))
    BY DEF Queues
  <1>2. CASE i > Len(q)
    <2>1. r = q
      BY <1>2 DEF BfsExpand
    <2> QED BY <1>1, <1>2, <2>1 DEF Grows
  <1>3. CASE ~(i > Len(q))
    <2>1. i \in 1 .. Len(q)
      BY <1>1, <1>3
    <2>2. PICK path : path = q[i] /\ IsWalk(colors, blocked, path) /\ path[1] \in from
      BY <2>1 DEF Queues
    <2>3. PICK h : /\ h[{}] = q
                   /\ \A k \in 0 .. 3 : h[1 .. k + 1] = BfsVisit(colors, blocked, h[1 .. k], path, Dirs[k + 1])
                   /\ h[1 .. 4] = (CHOOSE g : IsVisits(g, colors, blocked, q, path))[DOMAIN Dirs]
      BY <2>2, VisitsChain
    <2>4. r = h[1 .. 4]
      BY <1>3, <2>2, <2>3, ExpandChosen
    <2> HIDE DEF D, r
    <2>5. ASSUME NEW k \in 0 .. 3, h[1 .. k] \in D
          PROVE  /\ h[1 .. k + 1] \in D /\ Grows(h[1 .. k], h[1 .. k + 1])
                 /\ Seen(h[1 .. k]) \subseteq Seen(h[1 .. k + 1])
                 /\ Edge(colors, blocked, End(path), Plus(End(path), Dirs[k + 1])) =>
                      Plus(End(path), Dirs[k + 1]) \in Seen(h[1 .. k + 1])
      <3>1. h[1 .. k + 1] \in D /\ Grows(h[1 .. k], h[1 .. k + 1])
            /\ (Edge(colors, blocked, End(path), Plus(End(path), Dirs[k + 1])) =>
                  Plus(End(path), Dirs[k + 1]) \in Seen(h[1 .. k + 1]))
        <4>1. h[1 .. k] \in Queues(colors, blocked, from)
          BY <2>5 DEF D
        <4>2. h[1 .. k + 1] = BfsVisit(colors, blocked, h[1 .. k], path, Dirs[k + 1])
          BY <2>3
        <4> QED BY <2>2, <4>1, <4>2, VisitGrows DEF D
      <3> QED BY <1>1, <2>5, <3>1, GrowsSeen
    <2>6. h[1 .. 0] = q /\ h[1 .. 0] \in D
      <3>1. 1 .. 0 = {}
        OBVIOUS
      <3> QED BY <2>3, <3>1 DEF D
    <2>7. h[1 .. 1] \in D /\ Grows(q, h[1 .. 1])
      BY <2>5, <2>6
    <2>8. h[1 .. 2] \in D /\ Grows(h[1 .. 1], h[1 .. 2])
      BY <2>5, <2>7
    <2>9. h[1 .. 3] \in D /\ Grows(h[1 .. 2], h[1 .. 3])
      BY <2>5, <2>8
    <2>10. h[1 .. 4] \in D /\ Grows(h[1 .. 3], h[1 .. 4])
      BY <2>5, <2>9
    <2>11. Grows(q, h[1 .. 4])
      <3>1. Grows(q, h[1 .. 2])
        BY <1>1, <2>7, <2>8, GrowsOn
      <3>2. Grows(q, h[1 .. 3])
        BY <1>1, <2>8, <2>9, <3>1, GrowsOn
      <3> QED BY <1>1, <2>9, <2>10, <3>2, GrowsOn
    <2>12. Seen(h[1 .. 1]) \subseteq Seen(h[1 .. 4]) /\ Seen(h[1 .. 2]) \subseteq Seen(h[1 .. 4])
           /\ Seen(h[1 .. 3]) \subseteq Seen(h[1 .. 4])
      <3>1. Seen(h[1 .. 1]) \subseteq Seen(h[1 .. 2])
        BY <2>5, <2>7
      <3>2. Seen(h[1 .. 2]) \subseteq Seen(h[1 .. 3])
        BY <2>5, <2>8
      <3>3. Seen(h[1 .. 3]) \subseteq Seen(h[1 .. 4])
        BY <2>5, <2>9
      <3> QED BY <3>1, <3>2, <3>3
    <2>13. ASSUME NEW b, Edge(colors, blocked, End(path), b) PROVE b \in Seen(h[1 .. 4])
      <3>1. PICK k \in 0 .. 3 : b = Plus(End(path), Dirs[k + 1])
        BY <2>13, EdgeByDir
      <3>2. h[1 .. k] \in D
        <4>1. k = 0 \/ k = 1 \/ k = 2 \/ k = 3
          OBVIOUS
        <4> QED BY <2>6, <2>7, <2>8, <2>9, <4>1
      <3>3. b \in Seen(h[1 .. k + 1])
        BY <2>5, <2>13, <3>1, <3>2
      <3>4. k + 1 = 1 \/ k + 1 = 2 \/ k + 1 = 3 \/ k + 1 = 4
        OBVIOUS
      <3> QED BY <2>12, <3>3, <3>4
    <2> QED BY <1>3, <2>2, <2>4, <2>10, <2>11, <2>13 DEF D, r
  <1> QED BY <1>2, <1>3

(* There are at most N * N pawn cells... *)
LEMMA PawnLocsFinite == IsFiniteSet(PawnLocs) /\ Cardinality(PawnLocs) <= N * N
  <1> DEFINE S == 0 .. N - 1
             f == [loc \in PawnLocs |-> <<loc[1] \div 2, loc[2] \div 2>>]
  <1>1. IsFiniteSet(S) /\ Cardinality(S) = N /\ N \in Nat
    <2>1. N - 1 \in Int /\ 0 \in Int /\ ~(0 > N - 1) /\ N - 1 - 0 + 1 = N /\ N \in Nat
      BY BoardSizeAssumption
    <2> QED BY <2>1, FS_Interval
  <1>2. IsFiniteSet(S \X S) /\ Cardinality(S \X S) = N * N
    <2> HIDE DEF S
    <2> QED BY <1>1, FS_Product
  <1>3. ASSUME NEW loc \in PawnLocs
        PROVE  \E x \in S, y \in S : loc = <<2 * x, 2 * y>> /\ f[loc] = <<x, y>>
    <2>1. PICK x \in 0 .. size - 1, y \in 0 .. size - 1 : loc = <<x, y>> /\ x % 2 = 0 /\ y % 2 = 0
      BY DEF PawnLocs, Locs
    <2>2. x \div 2 \in S /\ y \div 2 \in S /\ x = 2 * (x \div 2) /\ y = 2 * (y \div 2)
      BY <2>1, BoardSizeAssumption DEF size
    <2> QED BY <2>1, <2>2
  <1>4. f \in Injection(PawnLocs, S \X S)
    <2>1. f \in [PawnLocs -> S \X S]
      BY <1>3
    <2>2. ASSUME NEW a \in PawnLocs, NEW b \in PawnLocs, f[a] = f[b] PROVE a = b
      BY <1>3, <2>2
    <2> QED BY <2>1, <2>2 DEF Injection, IsInjective
  <1> HIDE DEF S, f
  <1> QED BY <1>2, <1>4, FS_Injection

(* ...so a queue of walks to different cells has at most N * N entries:   *)
(* the loop that the model cuts at N * N expansions has then expanded all *)
(* of them.                                                               *)
LEMMA QueueShort ==
  ASSUME NEW colors, NEW blocked, NEW from, NEW q \in Queues(colors, blocked, from)
  PROVE  Len(q) \in Nat /\ Len(q) <= N * N
  <1> DEFINE f == [i \in 1 .. Len(q) |-> End(q[i])]
  <1>1. Len(q) \in Nat
    BY DEF Queues
  <1>2. \A i \in 1 .. Len(q) : End(q[i]) \in PawnLocs
    BY WalkEnds DEF Queues
  <1>3. f \in Injection(1 .. Len(q), PawnLocs)
    BY <1>2 DEF Injection, IsInjective, Queues
  <1>4. Cardinality(1 .. Len(q)) <= Cardinality(PawnLocs)
    <2> HIDE DEF f
    <2> QED BY <1>3, PawnLocsFinite, FS_Injection
  <1>5. Cardinality(1 .. Len(q)) = Len(q)
    <2>1. Cardinality(1 .. Len(q)) = IF 1 > Len(q) THEN 0 ELSE Len(q) - 1 + 1
      BY <1>1, FS_Interval
    <2> QED BY <1>1, <2>1
  <1>6. Cardinality(PawnLocs) \in Nat /\ N * N \in Nat
    BY PawnLocsFinite, FS_CardinalityType, BoardSizeAssumption
  <1> QED BY <1>1, <1>4, <1>5, <1>6, PawnLocsFinite

(* Where a search starts: different cells. *)
IsStart(starts) == starts \in Seq(PawnLocs) /\ \A i, j \in DOMAIN starts : starts[i] = starts[j] => i = j

(* The search starts with the trivial walks of its start cells. *)
LEMMA FirstQueue ==
  ASSUME NEW colors, NEW blocked, NEW starts, IsStart(starts)
  PROVE  /\ [i \in DOMAIN starts |-> <<starts[i]>>] \in Queues(colors, blocked, ToSet(starts))
         /\ ToSet(starts) \subseteq Seen([i \in DOMAIN starts |-> <<starts[i]>>])
  <1> DEFINE q == [i \in DOMAIN starts |-> <<starts[i]>>]
  <1>1. DOMAIN starts = 1 .. Len(starts) /\ Len(starts) \in Nat /\ \A i \in DOMAIN starts : starts[i] \in PawnLocs
    BY DEF IsStart
  <1>2. ASSUME NEW i \in DOMAIN starts
        PROVE  /\ q[i] = <<starts[i]>> /\ IsWalk(colors, blocked, q[i]) /\ q[i][1] = starts[i] /\ End(q[i]) = starts[i]
               /\ q[i] \in Seq(PawnLocs)
    <2>1. PICK c \in PawnLocs : c = starts[i]
      BY <1>1
    <2>2. /\ <<c>> \in Seq(PawnLocs) /\ <<c>> # <<>> /\ Len(<<c>>) = 1 /\ <<c>>[1] = c
      OBVIOUS
    <2>3. 1 .. 1 - 1 = {}
      OBVIOUS
    <2>4. IsWalk(colors, blocked, <<c>>) /\ End(<<c>>) = c
      BY <2>2, <2>3 DEF IsWalk, End
    <2>5. q[i] = <<c>>
      BY <2>1
    <2> HIDE DEF q
    <2> QED BY <2>1, <2>2, <2>4, <2>5
  <1>3. q \in Seq(Seq(PawnLocs)) /\ Len(q) = Len(starts) /\ DOMAIN q = DOMAIN starts
    BY <1>1, <1>2
  <1> HIDE DEF q
  <1>4. ASSUME NEW i \in 1 .. Len(q), NEW j \in 1 .. Len(q), End(q[i]) = End(q[j]) PROVE i = j
    <2>1. i \in DOMAIN starts /\ j \in DOMAIN starts
      BY <1>1, <1>3
    <2>2. starts[i] = starts[j]
      BY <1>2, <1>4, <2>1
    <2> QED BY <2>1, <2>2 DEF IsStart
  <1>5. \A i \in 1 .. Len(q) : IsWalk(colors, blocked, q[i]) /\ q[i][1] \in ToSet(starts)
    BY <1>1, <1>2, <1>3 DEF ToSet
  <1>6. ToSet(starts) \subseteq Seen(q)
    BY <1>2, <1>3 DEF ToSet, Seen
  <1>7. q \in Queues(colors, blocked, ToSet(starts))
    BY <1>3, <1>4, <1>5 DEF Queues
  <1> QED BY <1>6, <1>7 DEF q

(* The expansions as a chain of queues. *)
LEMMA ExpandsChain ==
  ASSUME NEW colors, NEW blocked, NEW from, NEW q \in Queues(colors, blocked, from), NEW n \in Nat
  PROVE  \E h : /\ h[{}] = q
                /\ \A k \in Nat : k < n => h[1 .. k + 1] = BfsExpand(colors, blocked, h[1 .. k], k + 1)
                /\ h[1 .. n] = (CHOOSE g : IsExpands(g, colors, blocked, q, n))[DOMAIN Passed(n)]
  <1> DEFINE D == Queues(colors, blocked, from)
             op == [x \in D \X (1 .. n) |-> BfsExpand(colors, blocked, x[1], Passed(n)[x[2]])]
             h == CHOOSE g : IsExpands(g, colors, blocked, q, n)
  <1>0. DOMAIN Passed(n) = 1 .. n /\ \A i \in 1 .. n : Passed(n)[i] = i /\ i \in Nat \ {0}
    BY DEF Passed
  <1>1. op \in [D \X (1 .. n) -> D]
    <2> HIDE DEF D
    <2>1. ASSUME NEW x \in D \X (1 .. n) PROVE BfsExpand(colors, blocked, x[1], Passed(n)[x[2]]) \in D
      BY <1>0, ExpandGrows DEF D
    <2> QED BY <2>1
  <1>2. PICK g : IsFold(g, op, q, n) /\ \A s \in SUBSET (1 .. n) : g[s] \in D
    <2> HIDE DEF op
    <2>1. q \in D
      OBVIOUS
    <2> HIDE DEF D
    <2> QED BY <1>1, <2>1, FoldExists
  <1>3. IsExpands(g, colors, blocked, q, n)
    <2>1. ASSUME NEW s \in SUBSET (1 .. n)
          PROVE  (IF s = {} THEN q ELSE op[<<g[s \ {Max(s)}], Max(s)>>])
                   = (IF s = {} THEN q ELSE BfsExpand(colors, blocked, g[s \ {Max(s)}], Passed(n)[Max(s)]))
      <3>1. CASE s # {}
        <4>1. Max(s) \in 1 .. n /\ s \ {Max(s)} \in SUBSET (1 .. n)
          BY <3>1, MaxIn
        <4>2. g[s \ {Max(s)}] \in D
          BY <1>2, <4>1
        <4> HIDE DEF D
        <4>3. <<g[s \ {Max(s)}], Max(s)>> \in D \X (1 .. n)
          BY <4>1, <4>2
        <4> QED BY <4>3
      <3> QED BY <3>1
    <2> HIDE DEF op, D
    <2> QED BY <1>0, <1>2, <2>1 DEF IsFold, IsExpands
  <1>4. IsExpands(h, colors, blocked, q, n)
    BY <1>3
  <1> HIDE DEF h
  <1>5. h[{}] = q
    BY <1>0, <1>4 DEF IsExpands
  <1>6. ASSUME NEW k \in Nat, k < n PROVE h[1 .. k + 1] = BfsExpand(colors, blocked, h[1 .. k], k + 1)
    <2>1. 1 .. k + 1 \in SUBSET (1 .. n) /\ 1 .. k + 1 # {} /\ k + 1 \in 1 .. k + 1 /\ k + 1 \in 1 .. n
      BY <1>6
    <2>2. Max(1 .. k + 1) = k + 1
      BY <2>1, MaxOfNext
    <2>3. (1 .. k + 1) \ {k + 1} = 1 .. k
      OBVIOUS
    <2>4. h[1 .. k + 1] = BfsExpand(colors, blocked, h[(1 .. k + 1) \ {Max(1 .. k + 1)}], Passed(n)[Max(1 .. k + 1)])
      BY <1>0, <1>4, <2>1, Zenon DEF IsExpands
    <2> QED BY <1>0, <2>1, <2>2, <2>3, <2>4
  <1> QED BY <1>0, <1>5, <1>6 DEF h

(* A search visits all that can be reached. *)
LEMMA BfsFinds ==
  ASSUME NEW colors, NEW blocked, NEW starts, IsStart(starts)
  PROVE  /\ BfsQueue(starts, colors, blocked) \in Queues(colors, blocked, ToSet(starts))
         /\ ToSet(starts) \subseteq Seen(BfsQueue(starts, colors, blocked))
         /\ \A a \in Seen(BfsQueue(starts, colors, blocked)) : \A b :
              Edge(colors, blocked, a, b) => b \in Seen(BfsQueue(starts, colors, blocked))
  <1> DEFINE D == Queues(colors, blocked, ToSet(starts))
             q == [i \in DOMAIN starts |-> <<starts[i]>>]
             Q == BfsQueue(starts, colors, blocked)
  <1>1. q \in D /\ ToSet(starts) \subseteq Seen(q)
    BY FirstQueue
  <1>2. N * N \in Nat /\ D \subseteq Seq(Seq(PawnLocs))
    BY BoardSizeAssumption DEF Queues
  <1>3. PICK h : /\ h[{}] = q
                 /\ \A k \in Nat : k < N * N => h[1 .. k + 1] = BfsExpand(colors, blocked, h[1 .. k], k + 1)
                 /\ h[1 .. N * N] = (CHOOSE g : IsExpands(g, colors, blocked, q, N * N))[DOMAIN Passed(N * N)]
    <2> HIDE DEF q, Q
    <2>1. q \in Queues(colors, blocked, ToSet(starts))
      BY <1>1
    <2> HIDE DEF D
    <2>2. PICK n \in Nat : n = N * N
      BY <1>2
    <2>3. \E h : /\ h[{}] = q
                 /\ \A k \in Nat : k < n => h[1 .. k + 1] = BfsExpand(colors, blocked, h[1 .. k], k + 1)
                 /\ h[1 .. n] = (CHOOSE g : IsExpands(g, colors, blocked, q, n))[DOMAIN Passed(n)]
      BY <2>1, <2>2, ExpandsChain
    <2> QED BY <2>2, <2>3
  <1>4. Q = h[1 .. N * N]
    BY <1>3, QueueChosen
  <1> HIDE DEF q, Q, D
  <1> DEFINE Expanded(r, k) == \A j \in 1 .. k :
               j <= Len(r) => \A b : Edge(colors, blocked, End(r[j]), b) => b \in Seen(r)
             S == {k \in Nat : k <= N * N => /\ h[1 .. k] \in D /\ ToSet(starts) \subseteq Seen(h[1 .. k])
                                             /\ Expanded(h[1 .. k], k)}
  <1>5. 0 \in S
    <2>1. 1 .. 0 = {}
      OBVIOUS
    <2>2. h[1 .. 0] = q
      BY <1>3, <2>1
    <2> QED BY <1>1, <2>1, <2>2
  <1>6. ASSUME NEW k \in Nat, k \in S PROVE k + 1 \in S
    <2> SUFFICES ASSUME k + 1 <= N * N
                 PROVE  /\ h[1 .. k + 1] \in D /\ ToSet(starts) \subseteq Seen(h[1 .. k + 1])
                        /\ Expanded(h[1 .. k + 1], k + 1)
      OBVIOUS
    <2>1. k <= N * N /\ k < N * N
      BY <1>2
    <2>2. h[1 .. k] \in D /\ ToSet(starts) \subseteq Seen(h[1 .. k]) /\ Expanded(h[1 .. k], k)
      BY <1>6, <2>1
    <2> HIDE DEF S
    <2>3. PICK r : r = h[1 .. k]
      OBVIOUS
    <2>4. PICK u : u = h[1 .. k + 1]
      OBVIOUS
    <2>5. u = BfsExpand(colors, blocked, r, k + 1)
      BY <1>3, <2>1, <2>3, <2>4
    <2>6. r \in D /\ ToSet(starts) \subseteq Seen(r) /\ Expanded(r, k)
      BY <2>2, <2>3
    <2>7. /\ u \in D /\ Grows(r, u)
          /\ k + 1 <= Len(r) => \A b : Edge(colors, blocked, End(r[k + 1]), b) => b \in Seen(u)
          /\ k + 1 > Len(r) => u = r
      <3>1. k + 1 \in Nat \ {0}
        OBVIOUS
      <3> QED BY <2>5, <2>6, <3>1, ExpandGrows DEF D
    <2>8. Len(r) \in Nat /\ Len(u) \in Nat /\ Seen(r) \subseteq Seen(u)
      BY <1>2, <2>6, <2>7, GrowsSeen
    <2>9. Expanded(u, k + 1)
      <3>1. CASE k + 1 > Len(r)
        <4>1. u = r
          BY <2>7, <3>1
        <4>2. ASSUME NEW j \in 1 .. k + 1, j <= Len(r) PROVE j \in 1 .. k
          BY <2>8, <3>1, <4>2
        <4> QED BY <2>6, <4>1, <4>2
      <3>2. CASE k + 1 <= Len(r)
        <4>1. ASSUME NEW j \in 1 .. k + 1, NEW b, Edge(colors, blocked, End(u[j]), b) PROVE b \in Seen(u)
          <5>1. j \in 1 .. Len(r)
            BY <2>8, <3>2
          <5>2. u[j] = r[j]
            BY <2>7, <5>1 DEF Grows
          <5>3. CASE j = k + 1
            BY <2>7, <3>2, <4>1, <5>2, <5>3
          <5>4. CASE j # k + 1
            <6>1. j \in 1 .. k /\ j <= Len(r)
              BY <5>1, <5>4
            <6> QED BY <2>6, <2>8, <4>1, <5>2, <6>1
          <5> QED BY <5>3, <5>4
        <4> QED BY <4>1
      <3> QED BY <2>8, <3>1, <3>2
    <2> QED BY <2>4, <2>6, <2>7, <2>8, <2>9
  <1>7. N * N \in S
    <2> HIDE DEF S
    <2> QED BY <1>2, <1>5, <1>6, NatSet
  <1>8. Q \in D /\ ToSet(starts) \subseteq Seen(Q) /\ Expanded(Q, N * N)
    <2>1. N * N <= N * N
      BY <1>2
    <2>2. h[1 .. N * N] \in D /\ ToSet(starts) \subseteq Seen(h[1 .. N * N]) /\ Expanded(h[1 .. N * N], N * N)
      BY <1>7, <2>1
    <2> HIDE DEF Expanded
    <2> QED BY <1>4, <2>2
  <1>9. Len(Q) \in Nat /\ Len(Q) <= N * N
    BY <1>8, QueueShort DEF D
  <1>10. ASSUME NEW a \in Seen(Q), NEW b, Edge(colors, blocked, a, b) PROVE b \in Seen(Q)
    <2>1. DOMAIN Q = 1 .. Len(Q)
      BY <1>2, <1>8
    <2>2. PICK j \in 1 .. Len(Q) : End(Q[j]) = a
      BY <2>1 DEF Seen
    <2>3. j \in 1 .. N * N /\ j <= Len(Q)
      BY <1>2, <1>9
    <2> QED BY <1>8, <1>10, <2>2, <2>3
  <1> QED BY <1>8, <1>10 DEF Q, D

-----------------------------------------------------------------------------
(* Reaching a row: what no closed set of cells can separate *)

(* A set of cells that no step leaves, and what it is to reach a row: every *)
(* such set around the cell has a cell of the row.                          *)
Closed(colors, blocked, R) == \A a \in R : \A b : Edge(colors, blocked, a, b) => b \in R
CanReach(colors, blocked, from, row) ==
  \A R \in SUBSET PawnLocs : from \in R /\ Closed(colors, blocked, R) => \E c \in R : c[2] = row

(* A location is the pair of its coordinates. *)
LEMMA LocParts ==
  ASSUME NEW a \in Locs
  PROVE  a[1] \in Nat /\ a[2] \in Nat /\ a = <<a[1], a[2]>>
  BY BoardSizeAssumption DEF Locs, size

(* An open step is open in the other direction. *)
LEMMA EdgeBack ==
  ASSUME NEW colors, NEW blocked, NEW a, NEW b, Edge(colors, blocked, a, b)
  PROVE  Edge(colors, blocked, b, a) /\ a \in PawnLocs /\ b \in PawnLocs
  <1>1. a \in PawnLocs /\ b \in PawnLocs
    BY DEF Edge, canPawnStep
  <1>2. a[1] \in Nat /\ a[2] \in Nat /\ b[1] \in Nat /\ b[2] \in Nat
    BY <1>1, LocParts DEF PawnLocs
  <1>3. a[1] + b[1] = b[1] + a[1] /\ a[2] + b[2] = b[2] + a[2]
    BY <1>2
  <1>4. Between(a, b) = Between(b, a)
    BY <1>3 DEF Between
  <1>5. Abs(a[1] - b[1]) = Abs(b[1] - a[1]) /\ Abs(a[2] - b[2]) = Abs(b[2] - a[2])
    BY <1>2 DEF Abs
  <1>6. Dist(a, b) = Dist(b, a)
    BY <1>5 DEF Dist
  <1> QED BY <1>1, <1>4, <1>6 DEF Edge, canPawnStep

(* Steps can be taken back: what lies outside a closed set is closed. *)
LEMMA OutsideClosed ==
  ASSUME NEW colors, NEW blocked, NEW R, Closed(colors, blocked, R)
  PROVE  Closed(colors, blocked, PawnLocs \ R)
  BY EdgeBack DEF Closed

(* A walk does not leave a closed set. *)
LEMMA WalkStays ==
  ASSUME NEW colors, NEW blocked, NEW path, IsWalk(colors, blocked, path),
         NEW R, Closed(colors, blocked, R), path[1] \in R
  PROVE  End(path) \in R
  <1> DEFINE S == {k \in Nat : k + 1 <= Len(path) => path[k + 1] \in R}
  <1>1. 0 \in S
    OBVIOUS
  <1>2. ASSUME NEW k \in Nat, k \in S PROVE k + 1 \in S
    <2> SUFFICES ASSUME k + 2 <= Len(path) PROVE path[k + 2] \in R
      OBVIOUS
    <2>1. path[k + 1] \in R /\ k + 1 \in 1 .. Len(path) - 1
      BY <1>2, WalkEnds
    <2>2. Edge(colors, blocked, path[k + 1], path[k + 1 + 1])
      BY <2>1 DEF IsWalk
    <2> QED BY <2>1, <2>2 DEF Closed
  <1>3. \A k \in Nat : k \in S
    <2> HIDE DEF S
    <2> QED BY <1>1, <1>2, NatSet
  <1>4. Len(path) - 1 \in Nat /\ (Len(path) - 1) + 1 = Len(path)
    BY WalkEnds
  <1>5. path[(Len(path) - 1) + 1] \in R
    BY <1>3, <1>4
  <1> QED BY <1>4, <1>5 DEF End

(* A walk to a row is a proof that the row can be reached. *)
LEMMA WalkReaches ==
  ASSUME NEW colors, NEW blocked, NEW path, IsWalk(colors, blocked, path),
         NEW row, End(path)[2] = row
  PROVE  CanReach(colors, blocked, path[1], row)
  BY WalkStays DEF CanReach

(* A set of naturals contains its minimum. *)
LEMMA MinIn ==
  ASSUME NEW S \in SUBSET Nat, S # {}
  PROVE  Min(S) \in S /\ \A k \in S : Min(S) <= k
  <1>1. PICK m \in S : \A k \in S : ~ (<<k, m>> \in OpToRel(<, Nat))
    BY NatLessThanWellFounded, WFMin
  <1>2. ASSUME NEW k \in S, ~(m <= k) PROVE FALSE
    <2>1. k \in Nat /\ m \in Nat /\ k < m
      BY <1>2
    <2>2. <<k, m>> \in OpToRel(<, Nat)
      BY <2>1 DEF OpToRel
    <2>3. ~ (<<k, m>> \in OpToRel(<, Nat))
      BY <1>1
    <2> QED BY <2>2, <2>3
  <1> QED BY <1>2 DEF Min

(* A single start cell is a list of start cells. *)
LEMMA OneStart ==
  ASSUME NEW c \in PawnLocs
  PROVE  IsStart(<<c>>) /\ ToSet(<<c>>) = {c}
  <1>1. DOMAIN <<c>> = {1} /\ <<c>>[1] = c /\ <<c>> \in Seq(PawnLocs)
    OBVIOUS
  <1> QED BY <1>1 DEF IsStart, ToSet

(* Board::bfsReachable finds a path exactly when there is one. *)
LEMMA BfsReaches ==
  ASSUME NEW colors, NEW blocked, NEW from \in PawnLocs, NEW row,
         NEW path, path = bfsReachable(colors, from, row, blocked)
  PROVE  /\ path # <<>> <=> CanReach(colors, blocked, from, row)
         /\ path # <<>> => /\ IsWalk(colors, blocked, path)
                           /\ path[1] = from /\ End(path)[2] = row
  <1> DEFINE Q == BfsQueue(<<from>>, colors, blocked)
             arrived == {i \in DOMAIN Q : End(Q[i])[2] = row}
  <1>1. /\ Q \in Queues(colors, blocked, {from})
        /\ from \in Seen(Q)
        /\ Closed(colors, blocked, Seen(Q))
    <2>1. ToSet(<<from>>) = {from} /\ IsStart(<<from>>)
      BY OneStart
    <2> QED BY <2>1, BfsFinds DEF Closed
  <1>2. path = IF arrived = {} THEN <<>> ELSE Q[Min(arrived)]
    BY DEF bfsReachable
  <1> HIDE DEF Q
  <1>3. DOMAIN Q = 1 .. Len(Q) /\ Len(Q) \in Nat
    BY <1>1 DEF Queues
  <1>4. Seen(Q) \subseteq PawnLocs
    BY <1>1, <1>3, WalkEnds DEF Seen, Queues
  <1>5. CASE arrived = {}
    <2>1. ~ \E c \in Seen(Q) : c[2] = row
      BY <1>5 DEF Seen
    <2>2. ~ CanReach(colors, blocked, from, row)
      BY <1>1, <1>4, <2>1 DEF CanReach
    <2> QED BY <1>2, <1>5, <2>2
  <1>6. CASE arrived # {}
    <2>1. Min(arrived) \in arrived
      <3>1. arrived \in SUBSET Nat
        BY <1>3
      <3> HIDE DEF arrived
      <3> QED BY <1>6, <3>1, MinIn
    <2>2. PICK i \in 1 .. Len(Q) : i = Min(arrived) /\ End(Q[i])[2] = row
      BY <1>3, <2>1
    <2>3. path = Q[i]
      BY <1>2, <1>6, <2>2
    <2>4. IsWalk(colors, blocked, path) /\ path[1] = from
      BY <1>1, <2>2, <2>3 DEF Queues
    <2>5. path # <<>> /\ CanReach(colors, blocked, from, row)
      BY <2>2, <2>3, <2>4, WalkReaches DEF IsWalk
    <2> QED BY <2>2, <2>3, <2>4, <2>5
  <1> QED BY <1>5, <1>6

-----------------------------------------------------------------------------
(* Two boards with the same walls between pawn cells have the same steps. *)
LEMMA EdgesOfFences ==
  ASSUME NEW c, NEW d, NEW x, NEW y,
         \A a, b \in PawnLocs : Edge(c, x, a, b) <=> Edge(d, y, a, b)
  PROVE  /\ \A a, b : Edge(c, x, a, b) <=> Edge(d, y, a, b)
         /\ \A path : IsWalk(c, x, path) <=> IsWalk(d, y, path)
         /\ \A from, row : CanReach(c, x, from, row) <=> CanReach(d, y, from, row)
  <1>1. \A a, b : Edge(c, x, a, b) <=> Edge(d, y, a, b)
    BY DEF Edge, canPawnStep
  <1>2. \A path : IsWalk(c, x, path) <=> IsWalk(d, y, path)
    BY <1>1 DEF IsWalk
  <1>3. \A R : Closed(c, x, R) <=> Closed(d, y, R)
    BY <1>1 DEF Closed
  <1> QED BY <1>1, <1>2, <1>3 DEF CanReach

(* The cell between two neighbouring pawn cells is on the board, and is    *)
(* neither a pawn cell nor the centre of a wall.                           *)
LEMMA BetweenPawns ==
  ASSUME NEW a \in PawnLocs, NEW b \in PawnLocs,
         Dist(a, b) = 2, a[1] = b[1] \/ a[2] = b[2]
  PROVE  /\ Between(a, b) \in Locs \ PawnLocs
         /\ \A anchor \in Anchors : Between(a, b) # WallCenter(anchor)
  <1>1. PICK ax \in 0 .. size - 1, ay \in 0 .. size - 1 : a = <<ax, ay>> /\ ax % 2 = 0 /\ ay % 2 = 0
    BY DEF PawnLocs, Locs
  <1>2. PICK bx \in 0 .. size - 1, by \in 0 .. size - 1 : b = <<bx, by>> /\ bx % 2 = 0 /\ by % 2 = 0
    BY DEF PawnLocs, Locs
  <1>3. size \in Nat
    BY BoardSizeAssumption DEF size
  <1>4. ax \in Nat /\ ay \in Nat /\ bx \in Nat /\ by \in Nat
    BY <1>3
  <1>5. \/ ax = bx /\ (ay = by + 2 \/ by = ay + 2)
        \/ ay = by /\ (ax = bx + 2 \/ bx = ax + 2)
    BY <1>1, <1>2, <1>4 DEF Dist, Abs
  <1>6. PICK mx \in Nat, my \in Nat : Between(a, b) = <<mx, my>> /\ mx = (ax + bx) \div 2 /\ my = (ay + by) \div 2
    BY <1>1, <1>2, <1>4 DEF Between
  <1>7. /\ mx <= size - 1 /\ my <= size - 1
        /\ \/ mx % 2 = 0 /\ my % 2 = 1
           \/ mx % 2 = 1 /\ my % 2 = 0
    <2>1. ax <= size - 1 /\ ay <= size - 1 /\ bx <= size - 1 /\ by <= size - 1
      BY <1>3
    <2>2. CASE ax = bx /\ ay = by + 2
      BY <1>1, <1>2, <1>3, <1>4, <1>6, <2>1, <2>2
    <2>3. CASE ax = bx /\ by = ay + 2
      BY <1>1, <1>2, <1>3, <1>4, <1>6, <2>1, <2>3
    <2>4. CASE ay = by /\ ax = bx + 2
      BY <1>1, <1>2, <1>3, <1>4, <1>6, <2>1, <2>4
    <2>5. CASE ay = by /\ bx = ax + 2
      BY <1>1, <1>2, <1>3, <1>4, <1>6, <2>1, <2>5
    <2> QED BY <1>5, <2>2, <2>3, <2>4, <2>5
  <1>8. Between(a, b) \in Locs \ PawnLocs
    <2>1. mx \in 0 .. size - 1 /\ my \in 0 .. size - 1
      BY <1>3, <1>7
    <2> QED BY <1>6, <1>7, <2>1 DEF Locs, PawnLocs
  <1>9. ASSUME NEW anchor \in Anchors PROVE Between(a, b) # WallCenter(anchor)
    <2>1. PICK c \in 0 .. N - 2, r \in 0 .. N - 2 : anchor = <<c, r>>
      BY DEF Anchors
    <2>2. c \in Nat /\ r \in Nat /\ (2 * c + 1) % 2 = 1 /\ (2 * r + 1) % 2 = 1
      BY BoardSizeAssumption
    <2>3. WallCenter(anchor) = <<2 * c + 1, 2 * r + 1>>
      BY <2>1 DEF WallCenter
    <2> QED BY <1>6, <1>7, <2>2, <2>3
  <1> QED BY <1>8, <1>9

(* Pawns do not stand in the way of steps, and a wall blocks its two arms. *)
LEMMA EdgesOnBoard ==
  ASSUME NEW c, NEW d, NEW blocked, NEW anchor \in Anchors, NEW isVertical \in BOOLEAN
  PROVE  /\ (\A loc \in Locs \ PawnLocs : c[loc] = C_FENCE <=> d[loc] = C_FENCE)
              => \A a, b \in PawnLocs : Edge(c, blocked, a, b) <=> Edge(d, blocked, a, b)
         /\ d = [loc \in Locs |-> IF loc \in WallCells(anchor, isVertical) THEN C_FENCE ELSE c[loc]]
              => \A a, b \in PawnLocs :
                   Edge(c, Arms(WallCenter(anchor), isVertical), a, b) <=> Edge(d, {}, a, b)
  <1> SUFFICES ASSUME NEW a \in PawnLocs, NEW b \in PawnLocs,
                      Dist(a, b) = 2, a[1] = b[1] \/ a[2] = b[2]
               PROVE  /\ (\A loc \in Locs \ PawnLocs : c[loc] = C_FENCE <=> d[loc] = C_FENCE)
                           => (Edge(c, blocked, a, b) <=> Edge(d, blocked, a, b))
                      /\ d = [loc \in Locs |-> IF loc \in WallCells(anchor, isVertical) THEN C_FENCE ELSE c[loc]]
                           => (Edge(c, Arms(WallCenter(anchor), isVertical), a, b) <=> Edge(d, {}, a, b))
    BY DEF Edge, canPawnStep
  <1>1. Between(a, b) \in Locs \ PawnLocs /\ Between(a, b) # WallCenter(anchor)
    BY BetweenPawns
  <1>2. Between(a, b) \in WallCells(anchor, isVertical) <=> Between(a, b) \in Arms(WallCenter(anchor), isVertical)
    BY <1>1 DEF WallCells
  <1> QED BY <1>1, <1>2 DEF Edge, canPawnStep

(* A path that a wall does not cross is a walk around it. *)
LEMMA NotCrossed ==
  ASSUME NEW colors, NEW path, IsWalk(colors, {}, path), NEW arms
  PROVE  ~pathCrossesWall(path, arms) <=> IsWalk(colors, arms, path)
  BY DEF IsWalk, Edge, pathCrossesWall

-----------------------------------------------------------------------------
(* The cached path and the distance map find whether the goal row is reached *)

(* The cells a distance map is searched from: the goal row. *)
LEMMA GoalCells ==
  ASSUME NEW pla \in Players, NEW goals, goals = [c \in 1 .. N |-> <<2 * (c - 1), GoalRow(pla)>>]
  PROVE  IsStart(goals) /\ ToSet(goals) = {loc \in PawnLocs : loc[2] = GoalRow(pla)}
  <1>1. N \in Nat /\ size = 2 * N - 1 /\ GoalRow(pla) \in 0 .. size - 1 /\ GoalRow(pla) % 2 = 0
    <2>1. N \in Nat /\ N >= 3 /\ (2 * N - 1) - 1 = 2 * (N - 1) /\ (2 * (N - 1)) % 2 = 0 /\ 0 % 2 = 0
      BY BoardSizeAssumption
    <2>2. size = 2 * N - 1 /\ size - 1 = 2 * (N - 1)
      BY <2>1 DEF size
    <2>3. (size - 1) % 2 = 0 /\ 0 \in 0 .. size - 1 /\ size - 1 \in 0 .. size - 1
      BY <2>1, <2>2
    <2> QED BY <2>1, <2>2, <2>3 DEF GoalRow
  <1>2. PICK row \in 0 .. size - 1 : row = GoalRow(pla) /\ row % 2 = 0
    BY <1>1
  <1>3. goals = [c \in 1 .. N |-> <<2 * (c - 1), row>>]
    BY <1>2
  <1>4. ASSUME NEW c \in 1 .. N PROVE goals[c] = <<2 * (c - 1), row>> /\ goals[c] \in PawnLocs
    <2>1. c \in Nat /\ 2 * (c - 1) \in 0 .. size - 1 /\ (2 * (c - 1)) % 2 = 0
      BY <1>1
    <2> QED BY <1>2, <1>3, <2>1 DEF PawnLocs, Locs
  <1>5. goals \in Seq(PawnLocs) /\ DOMAIN goals = 1 .. N
    BY <1>1, <1>3, <1>4
  <1>6. ASSUME NEW i \in 1 .. N, NEW j \in 1 .. N, goals[i] = goals[j] PROVE i = j
    BY <1>1, <1>4, <1>6
  <1>7. ASSUME NEW loc \in PawnLocs, loc[2] = row PROVE loc \in ToSet(goals)
    <2>1. PICK x \in 0 .. size - 1 : loc = <<x, row>> /\ x % 2 = 0
      BY <1>7 DEF PawnLocs, Locs
    <2>2. PICK c \in 1 .. N : x = 2 * (c - 1)
      <3>1. x \div 2 + 1 \in 1 .. N /\ x = 2 * ((x \div 2 + 1) - 1)
        BY <1>1, <2>1
      <3> QED BY <3>1
    <2>3. goals[c] = loc
      BY <1>4, <2>1, <2>2
    <2> QED BY <1>5, <2>3 DEF ToSet
  <1>8. \A loc \in ToSet(goals) : loc \in PawnLocs /\ loc[2] = row
    BY <1>4, <1>5 DEF ToSet
  <1> QED BY <1>2, <1>5, <1>6, <1>7, <1>8 DEF IsStart

(* Board::calDistMap has a distance for a cell exactly when the cell has a *)
(* way to the goal row, though it searches the other way round.            *)
LEMMA DistMapReaches ==
  ASSUME NEW colors, NEW pla \in Players, NEW loc \in PawnLocs
  PROVE  calDistMap(colors, pla)[loc] # -1 <=> CanReach(colors, {}, loc, GoalRow(pla))
  <1> DEFINE goals == [c \in 1 .. N |-> <<2 * (c - 1), GoalRow(pla)>>]
             Q == BfsQueue(goals, colors, {})
             DistTo(c) == Len(Q[CHOOSE i \in DOMAIN Q : End(Q[i]) = c]) - 1
  <1>1. IsStart(goals) /\ ToSet(goals) = {c \in PawnLocs : c[2] = GoalRow(pla)}
    BY GoalCells
  <1>2. calDistMap(colors, pla)[loc] = IF loc \in Seen(Q) THEN DistTo(loc) ELSE -1
    BY DEF calDistMap
  <1> HIDE DEF goals
  <1>3. /\ Q \in Queues(colors, {}, ToSet(goals))
        /\ ToSet(goals) \subseteq Seen(Q)
        /\ Closed(colors, {}, Seen(Q))
    BY <1>1, BfsFinds DEF Closed
  <1> HIDE DEF Q
  <1>4. DOMAIN Q = 1 .. Len(Q) /\ Len(Q) \in Nat
    BY <1>3 DEF Queues
  <1>5. loc \in Seen(Q) => DistTo(loc) # -1
    <2> SUFFICES ASSUME loc \in Seen(Q) PROVE DistTo(loc) # -1
      OBVIOUS
    <2>1. PICK i \in DOMAIN Q : i = CHOOSE j \in DOMAIN Q : End(Q[j]) = loc
      BY DEF Seen
    <2>2. Len(Q[i]) \in Nat \ {0}
      BY <1>3, <1>4, <2>1, WalkEnds DEF Queues
    <2> QED BY <2>1, <2>2
  <1>6. ASSUME loc \in Seen(Q), NEW R \in SUBSET PawnLocs, loc \in R, Closed(colors, {}, R)
        PROVE  \E c \in R : c[2] = GoalRow(pla)
    <2>1. PICK i \in 1 .. Len(Q) : End(Q[i]) = loc
      BY <1>4, <1>6 DEF Seen
    <2>2. IsWalk(colors, {}, Q[i]) /\ Q[i][1] \in ToSet(goals)
      BY <1>3, <2>1 DEF Queues
    <2>3. Q[i][1] \in R
      <3> SUFFICES ASSUME Q[i][1] \in PawnLocs \ R PROVE FALSE
        BY <1>1, <2>2
      <3>1. Closed(colors, {}, PawnLocs \ R)
        BY <1>6, OutsideClosed
      <3>2. End(Q[i]) \in PawnLocs \ R
        BY <2>2, <3>1, WalkStays
      <3> QED BY <1>6, <2>1, <3>2
    <2> QED BY <1>1, <2>2, <2>3
  <1>7. ASSUME loc \notin Seen(Q) PROVE ~CanReach(colors, {}, loc, GoalRow(pla))
    <2>1. Closed(colors, {}, PawnLocs \ Seen(Q))
      BY <1>3, OutsideClosed
    <2>2. ~ \E c \in PawnLocs \ Seen(Q) : c[2] = GoalRow(pla)
      BY <1>1, <1>3
    <2> QED BY <1>7, <2>1, <2>2 DEF CanReach
  <1> QED BY <1>2, <1>5, <1>6, <1>7 DEF CanReach

-----------------------------------------------------------------------------
(* The cached paths: each player's is a walk from its pawn to its goal row. *)
PathFor(colors, cell, pla, path) ==
  IsWalk(colors, {}, path) /\ path[1] = cell /\ End(path)[2] = GoalRow(pla)
PathsGood(b) ==
  DOMAIN b.path = Players /\ \A pla \in Players : PathFor(b.colors, b.pawn[pla], pla, b.path[pla])

(* A path that is searched anew is good if there is a way at all. *)
LEMMA FreshPath ==
  ASSUME NEW colors, NEW pla \in Players, NEW cell \in PawnLocs,
         CanReach(colors, {}, cell, GoalRow(pla))
  PROVE  PathFor(colors, cell, pla, shortestPath(colors, cell, pla))
  BY BfsReaches DEF shortestPath, PathFor

(* A good path shows that there is a way. *)
LEMMA PathReaches ==
  ASSUME NEW colors, NEW pla, NEW cell, NEW path, PathFor(colors, cell, pla, path)
  PROVE  CanReach(colors, {}, cell, GoalRow(pla))
  BY WalkReaches DEF PathFor

(* A pawn moves by one step, or by two over the other pawn. *)
LEMMA MoveSteps ==
  ASSUME NEW b, NEW loc, NEW pla, isLegalPawnMove(b, loc, pla)
  PROVE  \/ Edge(b.colors, {}, b.pawn[pla], loc)
         \/ \E o : Edge(b.colors, {}, b.pawn[pla], o) /\ Edge(b.colors, {}, o, loc)
  <1>1. CASE canPawnStep(b.colors, b.pawn[pla], loc)
    BY <1>1 DEF Edge
  <1>2. CASE \E d \in DOMAIN Dirs :
               /\ Plus(b.pawn[pla], Dirs[d]) = b.pawn[getOpp(pla)]
               /\ canPawnStep(b.colors, b.pawn[pla], b.pawn[getOpp(pla)])
               /\ canPawnStep(b.colors, b.pawn[getOpp(pla)], loc)
    BY <1>2 DEF Edge
  <1> QED BY <1>1, <1>2, Zenon DEF isLegalPawnMove

(* Who can reach the row can reach it from a neighbouring cell: it can *)
(* step back first.                                                    *)
LEMMA ReachFromNext ==
  ASSUME NEW colors, NEW blocked, NEW a, NEW b, Edge(colors, blocked, a, b),
         NEW row, CanReach(colors, blocked, a, row)
  PROVE  CanReach(colors, blocked, b, row)
  BY EdgeBack DEF CanReach, Closed

(* A pawn's move does not lose its way to the goal row. *)
LEMMA MovedReaches ==
  ASSUME NEW b, NEW loc, NEW pla, isLegalPawnMove(b, loc, pla),
         NEW row, CanReach(b.colors, {}, b.pawn[pla], row)
  PROVE  CanReach(b.colors, {}, loc, row)
  BY MoveSteps, ReachFromNext

-----------------------------------------------------------------------------
(* A new board *)

(* The straight column down which the pawns of a new board look. *)
LEMMA StraightWay ==
  ASSUME NEW colors, \A loc \in Locs : colors[loc] # C_FENCE, NEW pla \in Players
  PROVE  InitialPawn(pla) \in PawnLocs /\ CanReach(colors, {}, InitialPawn(pla), GoalRow(pla))
  <1>1. N \in Nat /\ N >= 3 /\ size = 2 * N - 1 /\ size - 1 = 2 * (N - 1) /\ N - 1 \in Nat /\ (N - 1) % 2 = 0
    BY BoardSizeAssumption DEF size
  <1> DEFINE y(k) == IF pla = P_BLACK THEN 2 * (N - 1) - 2 * k ELSE 2 * k
             cell(k) == <<N - 1, y(k)>>
  <1>2. ASSUME NEW k \in Nat, k <= N - 1 PROVE cell(k) \in PawnLocs
    <2>1. y(k) \in 0 .. size - 1 /\ y(k) % 2 = 0
      <3>1. CASE pla = P_BLACK
        <4>1. y(k) = 2 * (N - 1 - k) /\ N - 1 - k \in Nat
          BY <1>1, <1>2, <3>1
        <4> QED BY <1>1, <1>2, <4>1
      <3>2. CASE pla # P_BLACK
        BY <1>1, <1>2, <3>2
      <3> QED BY <3>1, <3>2
    <2>2. N - 1 \in 0 .. size - 1
      BY <1>1
    <2> HIDE DEF y
    <2> QED BY <1>1, <2>1, <2>2 DEF PawnLocs, Locs
  <1>3. cell(0) = InitialPawn(pla) /\ cell(N - 1)[2] = GoalRow(pla)
    BY <1>1, PlayersDistinct DEF InitialPawn, GoalRow
  <1>4. ASSUME NEW k \in Nat, k + 1 <= N - 1 PROVE Edge(colors, {}, cell(k), cell(k + 1))
    <2>1. cell(k) \in PawnLocs /\ cell(k + 1) \in PawnLocs
      <3>1. k <= N - 1 /\ k + 1 \in Nat
        BY <1>1, <1>4
      <3> HIDE DEF cell
      <3> QED BY <1>2, <1>4, <3>1
    <2>2. Dist(cell(k), cell(k + 1)) = 2 /\ cell(k)[1] = cell(k + 1)[1]
      <3>1. y(k) \in Int /\ y(k + 1) \in Int /\ (y(k) - y(k + 1) = 2 \/ y(k) - y(k + 1) = -2)
        BY <1>1
      <3> HIDE DEF y
      <3> QED BY <1>1, <3>1 DEF Dist, Abs
    <2>3. Between(cell(k), cell(k + 1)) \in Locs
      BY <2>1, <2>2, BetweenPawns
    <2> HIDE DEF cell
    <2> QED BY <2>1, <2>2, <2>3 DEF Edge, canPawnStep
  <1>5. ASSUME NEW R \in SUBSET PawnLocs, InitialPawn(pla) \in R, Closed(colors, {}, R)
        PROVE  \E c \in R : c[2] = GoalRow(pla)
    <2> DEFINE S == {k \in Nat : k <= N - 1 => cell(k) \in R}
    <2> HIDE DEF cell
    <2>1. 0 \in S
      BY <1>3, <1>5
    <2>2. ASSUME NEW k \in Nat, k \in S PROVE k + 1 \in S
      <3> SUFFICES ASSUME k + 1 <= N - 1 PROVE cell(k + 1) \in R
        OBVIOUS
      <3>1. cell(k) \in R
        BY <1>1, <2>2
      <3> QED BY <1>4, <1>5, <3>1 DEF Closed
    <2>3. N - 1 \in S
      <3> HIDE DEF S
      <3> QED BY <1>1, <2>1, <2>2, NatSet
    <2>4. cell(N - 1) \in R
      BY <1>1, <2>3
    <2> QED BY <1>3, <2>4
  <1>6. InitialPawn(pla) \in PawnLocs
    <2> HIDE DEF cell
    <2> QED BY <1>1, <1>2, <1>3
  <1> QED BY <1>5, <1>6 DEF CanReach

(* On a new board both paths are good. *)
LEMMA NewBoardPaths ==
  ASSUME NEW fences, NEW b, b = setFencesLeft(initialBoard, fences)
  PROVE  PathsGood(b)
  <1> DEFINE pawn == [pla \in Players |-> InitialPawn(pla)]
             colors == [loc \in Locs |-> IF \E pla \in Players : pawn[pla] = loc
                                         THEN CHOOSE pla \in Players : pawn[pla] = loc
                                         ELSE C_EMPTY]
             path == [pla \in Players |-> shortestPath(colors, pawn[pla], pla)]
             full == [pla \in Players |-> MAX_FENCE_NUM]
             plain == [colors |-> colors, pawn |-> pawn, fences |-> full,
                       hWalls |-> {}, vWalls |-> {}, movenum |-> 0, hash |-> {}, path |-> path]
             start == [plain EXCEPT !.hash = HashFromScratch(plain)]
  <1>1. initialBoard = start
    BY Zenon DEF initialBoard
  <1>2. start.colors = colors /\ start.pawn = pawn /\ start.path = path
    <2> HIDE DEF colors, pawn, path, full
    <2> QED OBVIOUS
  <1>3. \A loc \in Locs : colors[loc] # C_FENCE
    BY PlayersDistinct
  <1> HIDE DEF start, colors
  <1>4. b.colors = colors /\ b.pawn = pawn /\ b.path = path
    BY <1>1, <1>2 DEF setFencesLeft
  <1>5. ASSUME NEW pla \in Players PROVE PathFor(colors, pawn[pla], pla, path[pla])
    BY <1>3, StraightWay, FreshPath
  <1> QED BY <1>4, <1>5 DEF PathsGood

-----------------------------------------------------------------------------
(* Moves and the ways to the goal *)

(* A pawn's move changes pawn cells only. *)
LEMMA MovedEdges ==
  ASSUME NEW b, BoardTyped(b), NEW loc \in PawnLocs, NEW pla \in Players
  PROVE  \A l \in Locs \ PawnLocs : MovedColors(b, loc, pla)[l] = b.colors[l]
  <1>1. b.colors \in [Locs -> Colors] /\ b.pawn[pla] \in PawnLocs
    BY DEF BoardTyped
  <1> QED BY <1>1 DEF MovedColors

(* A pawn's move searches the mover's path again and leaves the other one, *)
(* which it cannot cut.                                                    *)
LEMMA MovePawnPaths ==
  ASSUME NEW b, BoardTyped(b), PathsGood(b), NEW loc \in PawnLocs, NEW pla \in Players,
         isLegalPawnMove(b, loc, pla)
  PROVE  PathsGood(MovePawn(b, loc, pla))
  <1> DEFINE c == MovePawn(b, loc, pla)
             colors == MovedColors(b, loc, pla)
  <1>1. c.colors = colors /\ c.pawn = [b.pawn EXCEPT ![pla] = loc] /\ c.path = MovedPath(b, loc, pla)
    BY MovePawnEffect DEF MovedColors
  <1> HIDE DEF c
  <1>2. \A l \in Locs \ PawnLocs : b.colors[l] = C_FENCE <=> colors[l] = C_FENCE
    BY MovedEdges
  <1> HIDE DEF colors
  <1>3. /\ \A path : IsWalk(b.colors, {}, path) <=> IsWalk(colors, {}, path)
        /\ \A from, row : CanReach(b.colors, {}, from, row) <=> CanReach(colors, {}, from, row)
    <2>1. \A x, y \in PawnLocs : Edge(b.colors, {}, x, y) <=> Edge(colors, {}, x, y)
      <3>1. <<0, 0>> \in Anchors
        BY BoardSizeAssumption DEF Anchors
      <3> QED BY <1>2, <3>1, EdgesOnBoard
    <2> QED BY <2>1, EdgesOfFences
  <1>4. b.pawn \in [Players -> PawnLocs]
    BY DEF BoardTyped
  <1>5. DOMAIN c.path = Players /\ \A p \in Players :
          c.path[p] = IF p = pla THEN shortestPath(colors, loc, pla) ELSE b.path[p]
    BY <1>1 DEF PathsGood, MovedPath, colors
  <1>6. ASSUME NEW p \in Players PROVE PathFor(colors, c.pawn[p], p, c.path[p])
    <2>1. CASE p = pla
      <3>1. CanReach(b.colors, {}, b.pawn[pla], GoalRow(pla))
        BY PathReaches DEF PathsGood
      <3>2. CanReach(colors, {}, loc, GoalRow(pla))
        BY <1>3, <3>1, MovedReaches
      <3>3. c.pawn[p] = loc /\ c.path[p] = shortestPath(colors, loc, pla)
        BY <1>1, <1>4, <1>5, <2>1
      <3> QED BY <2>1, <3>2, <3>3, FreshPath
    <2>2. CASE p # pla
      <3>1. c.pawn[p] = b.pawn[p] /\ c.path[p] = b.path[p]
        BY <1>1, <1>4, <1>5, <2>2
      <3> QED BY <1>3, <3>1 DEF PathsGood, PathFor
    <2> QED BY <2>1, <2>2
  <1> QED BY <1>1, <1>5, <1>6 DEF PathsGood, c

(* A wall on the board closes its arms to steps. *)
LEMMA WalledEdges ==
  ASSUME NEW b, NEW anchor \in Anchors, NEW isVertical \in BOOLEAN
  PROVE  LET arms == Arms(WallCenter(anchor), isVertical)
             colors == WalledColors(b, anchor, isVertical)
         IN  /\ \A path : IsWalk(b.colors, arms, path) <=> IsWalk(colors, {}, path)
             /\ \A from, row : CanReach(b.colors, arms, from, row) <=> CanReach(colors, {}, from, row)
  <1> DEFINE arms == Arms(WallCenter(anchor), isVertical)
             colors == WalledColors(b, anchor, isVertical)
  <1>1. \A x, y \in PawnLocs : Edge(b.colors, arms, x, y) <=> Edge(colors, {}, x, y)
    <2>1. colors = [loc \in Locs |-> IF loc \in WallCells(anchor, isVertical) THEN C_FENCE ELSE b.colors[loc]]
      BY DEF WalledColors
    <2> HIDE DEF colors
    <2> QED BY <2>1, EdgesOnBoard
  <1> HIDE DEF arms, colors
  <1>2. /\ \A path : IsWalk(b.colors, arms, path) <=> IsWalk(colors, {}, path)
        /\ \A from, row : CanReach(b.colors, arms, from, row) <=> CanReach(colors, {}, from, row)
    BY <1>1, EdgesOfFences
  <1> QED BY <1>2 DEF arms, colors

(* checkNoFullBlockLazy, which looks at the two cached paths first, says   *)
(* whether both players still have a way around the wall.                  *)
LEMMA LazyCheckIsRule ==
  ASSUME NEW b, BoardTyped(b), PathsGood(b), NEW arms
  PROVE  checkNoFullBlockLazy(b, arms)
           <=> \A pla \in Players : CanReach(b.colors, arms, b.pawn[pla], GoalRow(pla))
  <1>1. ASSUME NEW pla \in Players
        PROVE  /\ bfsReachable(b.colors, b.pawn[pla], GoalRow(pla), arms) # <<>>
                    <=> CanReach(b.colors, arms, b.pawn[pla], GoalRow(pla))
               /\ ~pathCrossesWall(b.path[pla], arms)
                    => CanReach(b.colors, arms, b.pawn[pla], GoalRow(pla))
    <2>1. b.pawn[pla] \in PawnLocs
      BY DEF BoardTyped
    <2>2. PathFor(b.colors, b.pawn[pla], pla, b.path[pla])
      BY DEF PathsGood
    <2>3. ASSUME ~pathCrossesWall(b.path[pla], arms)
          PROVE  CanReach(b.colors, arms, b.pawn[pla], GoalRow(pla))
      <3>1. IsWalk(b.colors, arms, b.path[pla])
        BY <2>2, <2>3, NotCrossed DEF PathFor
      <3> QED BY <2>2, <3>1, WalkReaches DEF PathFor
    <2> QED BY <2>1, <2>3, BfsReaches
  <1> QED BY <1>1, Zenon DEF checkNoFullBlockLazy

(* A wall that passed the lazy check leaves two good paths: those it cuts *)
(* are searched again.                                                    *)
LEMMA PlaceWallPaths ==
  ASSUME NEW b, BoardTyped(b), PathsGood(b), NEW anchor \in Anchors, NEW isVertical \in BOOLEAN,
         NEW pla \in Players, b.fences[pla] > 0,
         checkNoFullBlockLazy(b, Arms(WallCenter(anchor), isVertical)),
         NEW c, c = PlaceWall(b, anchor, isVertical, pla)
  PROVE  PathsGood(c)
  <1> DEFINE arms == Arms(WallCenter(anchor), isVertical)
             colors == WalledColors(b, anchor, isVertical)
  <1>1. c.colors = colors /\ c.pawn = b.pawn /\ c.path = WalledPath(b, anchor, isVertical)
    <2>1. IsWalled(b, anchor, isVertical, pla, c)
      BY PlaceWallEffect
    <2> QED BY <2>1 DEF IsWalled, WalledColors
  <1>2. /\ \A path : IsWalk(b.colors, arms, path) <=> IsWalk(colors, {}, path)
        /\ \A from, row : CanReach(b.colors, arms, from, row) <=> CanReach(colors, {}, from, row)
    BY WalledEdges
  <1>3. \A p \in Players : CanReach(b.colors, arms, b.pawn[p], GoalRow(p))
    BY LazyCheckIsRule
  <1>4. DOMAIN c.path = Players /\ \A p \in Players :
          c.path[p] = IF pathCrossesWall(b.path[p], arms) THEN shortestPath(colors, b.pawn[p], p) ELSE b.path[p]
    BY <1>1 DEF WalledPath
  <1> HIDE DEF arms, colors
  <1>5. ASSUME NEW p \in Players PROVE PathFor(colors, b.pawn[p], p, c.path[p])
    <2>1. b.pawn[p] \in PawnLocs /\ PathFor(b.colors, b.pawn[p], p, b.path[p])
      BY DEF BoardTyped, PathsGood
    <2>2. CASE pathCrossesWall(b.path[p], arms)
      BY <1>2, <1>3, <1>4, <2>1, <2>2, FreshPath
    <2>3. CASE ~pathCrossesWall(b.path[p], arms)
      BY <1>2, <1>4, <2>1, <2>3, NotCrossed DEF PathFor
    <2> QED BY <2>2, <2>3
  <1> QED BY <1>1, <1>4, <1>5 DEF PathsGood

-----------------------------------------------------------------------------
(* A move, or its undoing, keeps every cached path *)

(* A move as a whole, the counted move number aside. *)
LEMMA PlayedPawn ==
  ASSUME NEW b, BoardTyped(b), NEW loc \in PawnLocs, NEW pla \in Players,
         NEW c, c = playMoveAssumeLegal(b, loc, pla)
  PROVE  /\ c.colors = MovedColors(b, loc, pla) /\ c.pawn = [b.pawn EXCEPT ![pla] = loc]
         /\ c.fences = b.fences /\ c.hWalls = b.hWalls /\ c.vWalls = b.vWalls
         /\ c.path = MovedPath(b, loc, pla) /\ c.hash = MovedHash(b, loc, pla)
  <1> DEFINE d == [b EXCEPT !.movenum = @ + 1]
  <1>1. BoardTyped(d) /\ Core(d) = Core(b) /\ d.hash = b.hash /\ d.path = b.path
    BY CountEffect
  <1>2. c = MovePawn(d, loc, pla)
    BY DEF playMoveAssumeLegal
  <1> HIDE DEF d
  <1>3. /\ d.colors = b.colors /\ d.pawn = b.pawn /\ d.fences = b.fences
        /\ d.hWalls = b.hWalls /\ d.vWalls = b.vWalls
    BY <1>1 DEF Core
  <1>4. /\ MovePawn(d, loc, pla).colors = MovedColors(d, loc, pla)
        /\ MovePawn(d, loc, pla).pawn = [d.pawn EXCEPT ![pla] = loc]
        /\ MovePawn(d, loc, pla).fences = d.fences
        /\ MovePawn(d, loc, pla).hWalls = d.hWalls
        /\ MovePawn(d, loc, pla).vWalls = d.vWalls
        /\ MovePawn(d, loc, pla).path = MovedPath(d, loc, pla)
        /\ MovePawn(d, loc, pla).hash = MovedHash(d, loc, pla)
    BY <1>1, MovePawnEffect DEF MovedColors
  <1>5. /\ MovedColors(d, loc, pla) = MovedColors(b, loc, pla)
        /\ MovedHash(d, loc, pla) = MovedHash(b, loc, pla)
    BY <1>1, <1>3 DEF MovedColors, MovedHash
  <1>6. MovedPath(d, loc, pla) = MovedPath(b, loc, pla)
    BY <1>1, <1>5 DEF MovedPath
  <1> QED BY <1>2, <1>3, <1>4, <1>5, <1>6

(* A wall, likewise. *)
LEMMA PlayedWall ==
  ASSUME NEW b, BoardTyped(b), NEW loc \in Locs \ PawnLocs, NEW pla \in Players,
         NEW v \in BOOLEAN, IsVWallLoc(loc) = v, AnchorOf(loc) \in Anchors, b.fences[pla] > 0,
         NEW c, c = playMoveAssumeLegal(b, loc, pla)
  PROVE  /\ c.colors = WalledColors(b, AnchorOf(loc), v) /\ c.pawn = b.pawn
         /\ c.fences = [b.fences EXCEPT ![pla] = b.fences[pla] - 1]
         /\ c.path = WalledPath(b, AnchorOf(loc), v) /\ c.hash = WalledHash(b, AnchorOf(loc), v, pla)
  <1> DEFINE d == [b EXCEPT !.movenum = @ + 1]
             anchor == AnchorOf(loc)
  <1>1. BoardTyped(d) /\ Core(d) = Core(b) /\ d.hash = b.hash /\ d.path = b.path
    BY CountEffect
  <1>2. c = PlaceWall(d, anchor, v, pla)
    BY DEF playMoveAssumeLegal
  <1> HIDE DEF d, anchor
  <1>3. d.colors = b.colors /\ d.pawn = b.pawn /\ d.fences = b.fences
    BY <1>1 DEF Core
  <1>4. IsWalled(d, anchor, v, pla, c)
    BY <1>1, <1>2, <1>3, PlaceWallEffect DEF anchor
  <1>5. /\ WalledColors(d, anchor, v) = WalledColors(b, anchor, v)
        /\ WalledHash(d, anchor, v, pla) = WalledHash(b, anchor, v, pla)
    BY <1>1, <1>3 DEF WalledColors, WalledHash
  <1>6. WalledPath(d, anchor, v) = WalledPath(b, anchor, v)
    BY <1>1, <1>3, <1>5 DEF WalledPath
  <1>7. /\ c.colors = WalledColors(d, anchor, v) /\ c.pawn = d.pawn
        /\ c.fences = [d.fences EXCEPT ![pla] = d.fences[pla] - 1]
        /\ c.path = WalledPath(d, anchor, v) /\ c.hash = WalledHash(d, anchor, v, pla)
    BY <1>4 DEF IsWalled, WalledColors
  <1> QED BY <1>3, <1>5, <1>6, <1>7 DEF anchor

(* The full-block check of a wall that is legal. *)
LEMMA WallMoveChecked ==
  ASSUME NEW b, NEW loc \in Locs \ PawnLocs, NEW pla, isLegal(b, loc, pla),
         NEW v \in BOOLEAN, IsVWallLoc(loc) = v
  PROVE  checkNoFullBlockLazy(b, Arms(WallCenter(AnchorOf(loc)), v))
  <1>1. CASE loc \in HWallLocs /\ isLegalWallPlacement(b, AnchorOf(loc), FALSE, pla)
    <2>1. loc[1] % 2 = 1 /\ loc[2] % 2 = 1
      BY <1>1 DEF HWallLocs
    <2>2. v = FALSE
      BY <2>1 DEF IsVWallLoc
    <2> QED BY <1>1, <2>2, Zenon DEF isLegalWallPlacement, isGeometricallyLegalWallPlacement
  <1>2. CASE IsVWallLoc(loc) /\ isLegalWallPlacement(b, AnchorOf(loc), TRUE, pla)
    BY <1>2, Zenon DEF isLegalWallPlacement, isGeometricallyLegalWallPlacement
  <1> QED BY <1>1, <1>2, Zenon DEF isLegal

(* PathsGood speaks of colors, pawns and paths only. *)
LEMMA PlayKeepsPaths ==
  ASSUME NEW b, BoardTyped(b), PathsGood(b),
         NEW loc \in Locs, NEW pla \in Players, isLegal(b, loc, pla),
         NEW c, c = playMoveAssumeLegal(b, loc, pla)
  PROVE  PathsGood(c)
  <1> DEFINE d == [b EXCEPT !.movenum = @ + 1]
  <1>1. BoardTyped(d) /\ Core(d) = Core(b) /\ d.path = b.path
    BY CountEffect
  <1>2. c = IF loc \in PawnLocs THEN MovePawn(d, loc, pla)
            ELSE PlaceWall(d, AnchorOf(loc), IsVWallLoc(loc), pla)
    BY DEF playMoveAssumeLegal
  <1> HIDE DEF d
  <1>3. d.colors = b.colors /\ d.pawn = b.pawn /\ d.fences = b.fences
    BY <1>1 DEF Core
  <1>4. PathsGood(d)
    BY <1>1, <1>3 DEF PathsGood
  <1>5. CASE loc \in PawnLocs
    <2>1. isLegalPawnMove(b, loc, pla)
      <3>1. loc \notin HWallLocs /\ ~IsVWallLoc(loc)
        BY <1>5 DEF PawnLocs, HWallLocs, IsVWallLoc
      <3> QED BY <3>1, Zenon DEF isLegal
    <2>2. isLegalPawnMove(d, loc, pla)
      BY <1>3, <2>1, Zenon DEF isLegalPawnMove
    <2>3. PathsGood(MovePawn(d, loc, pla))
      BY <1>1, <1>4, <1>5, <2>2, MovePawnPaths
    <2> QED BY <1>2, <1>5, <2>3
  <1>6. CASE loc \notin PawnLocs
    <2>1. PICK v \in BOOLEAN : /\ IsVWallLoc(loc) = v
                               /\ AnchorOf(loc) \in Anchors /\ b.fences[pla] > 0
                               /\ NoOverlap(b, AnchorOf(loc), v)
      BY <1>6, WallMoveLegal
    <2>2. checkNoFullBlockLazy(b, Arms(WallCenter(AnchorOf(loc)), v))
      BY <1>6, <2>1, WallMoveChecked
    <2>3. checkNoFullBlockLazy(d, Arms(WallCenter(AnchorOf(loc)), v))
      BY <1>1, <1>3, <2>2, Zenon DEF checkNoFullBlockLazy
    <2>4. c = PlaceWall(d, AnchorOf(loc), v, pla)
      BY <1>2, <1>6, <2>1
    <2> QED BY <1>1, <1>3, <1>4, <2>1, <2>3, <2>4, PlaceWallPaths
  <1> QED BY <1>5, <1>6

(* The paths that undo leaves: of the board it leaves if searched again. *)
LEMMA UndoPathField ==
  ASSUME NEW d, NEW record, NEW c, c = undo(d, record)
  PROVE  c.path = [p \in Players |-> IF p \in PathsToRedo(record)
                                     THEN shortestPath(c.colors, c.pawn[p], p) ELSE d.path[p]]
  <1> DEFINE pla == record.pla
             isPawn == record.loc \in PawnLocs
             isVertical == IsVWallLoc(record.loc)
             colors == IF isPawn
                       THEN [d.colors EXCEPT ![d.pawn[pla]] = C_EMPTY, ![record.pawn[pla]] = pla]
                       ELSE [loc \in Locs |-> IF loc \in record.cells THEN C_EMPTY ELSE d.colors[loc]]
             pawn == IF isPawn THEN [d.pawn EXCEPT ![pla] = record.pawn[pla]] ELSE d.pawn
             fences == IF isPawn THEN d.fences ELSE record.fences
             lifted == IF isPawn THEN {} ELSE {AnchorOf(record.loc)}
             hWalls == IF isVertical THEN d.hWalls ELSE d.hWalls \ lifted
             vWalls == IF isVertical THEN d.vWalls \ lifted ELSE d.vWalls
             path == [p \in Players |-> IF p \in PathsToRedo(record)
                                        THEN shortestPath(colors, pawn[p], p) ELSE d.path[p]]
  <1>1. c = [colors |-> colors, pawn |-> pawn, fences |-> fences, hWalls |-> hWalls, vWalls |-> vWalls,
             movenum |-> record.movenum, hash |-> record.hash, path |-> path]
    BY Zenon DEF undo
  <1> HIDE DEF colors, pawn, fences, hWalls, vWalls
  <1>2. c.colors = colors /\ c.pawn = pawn /\ c.path = path
    BY <1>1
  <1> QED BY <1>2

(* Undo returns to a position in which both players had a way; what it *)
(* searches again it finds.                                            *)
LEMMA UndoPaths ==
  ASSUME NEW b, BoardTyped(b), Consistent(b), PathsGood(b),
         NEW loc \in Locs, NEW pla \in Players, isLegal(b, loc, pla),
         NEW d, BoardTyped(d), PathsGood(d), Core(d) = Core(playMoveAssumeLegal(b, loc, pla)),
         NEW c, c = undo(d, MoveRecord(b, loc, pla))
  PROVE  PathsGood(c)
  <1> DEFINE record == MoveRecord(b, loc, pla)
  <1>1. c.colors = b.colors /\ c.pawn = b.pawn
    <2>1. Core(c) = Core(b)
      BY UndoReturns
    <2> QED BY <2>1 DEF Core
  <1>2. DOMAIN c.path = Players /\ \A p \in Players :
          c.path[p] = IF p \in PathsToRedo(record) THEN shortestPath(c.colors, c.pawn[p], p) ELSE d.path[p]
    <2> HIDE DEF record
    <2>1. c = undo(d, record)
      BY DEF record
    <2>2. c.path = [p \in Players |-> IF p \in PathsToRedo(record)
                                      THEN shortestPath(c.colors, c.pawn[p], p) ELSE d.path[p]]
      BY <2>1, UndoPathField
    <2> QED BY <2>2
  <1>3. record.loc = loc /\ record.pla = pla
    BY DEF MoveRecord
  <1> HIDE DEF record
  <1>4. ASSUME NEW p \in Players, p \in PathsToRedo(record) PROVE PathFor(c.colors, c.pawn[p], p, c.path[p])
    <2>1. b.pawn[p] \in PawnLocs /\ CanReach(b.colors, {}, b.pawn[p], GoalRow(p))
      BY PathReaches DEF PathsGood, BoardTyped
    <2> QED BY <1>1, <1>2, <1>4, <2>1, FreshPath
  <1>5. ASSUME NEW p \in Players, p \notin PathsToRedo(record) PROVE PathFor(c.colors, c.pawn[p], p, c.path[p])
    <2>1. loc \in PawnLocs /\ p # pla
      BY <1>3, <1>5 DEF PathsToRedo
    <2>2. PICK m : m = playMoveAssumeLegal(b, loc, pla)
      OBVIOUS
    <2>3. m.colors = MovedColors(b, loc, pla) /\ m.pawn = [b.pawn EXCEPT ![pla] = loc]
      BY <2>1, <2>2, PlayedPawn
    <2>4. d.colors = MovedColors(b, loc, pla) /\ d.pawn[p] = b.pawn[p]
      BY <2>1, <2>2, <2>3 DEF Core, BoardTyped
    <2>5. \A l \in Locs \ PawnLocs : b.colors[l] = C_FENCE <=> d.colors[l] = C_FENCE
      BY <2>1, <2>4, MovedEdges
    <2>6. \A x, y \in PawnLocs : Edge(b.colors, {}, x, y) <=> Edge(d.colors, {}, x, y)
      <3>1. <<0, 0>> \in Anchors
        BY BoardSizeAssumption DEF Anchors
      <3> QED BY <2>5, <3>1, EdgesOnBoard
    <2>7. IsWalk(b.colors, {}, d.path[p]) <=> IsWalk(d.colors, {}, d.path[p])
      BY <2>6, EdgesOfFences
    <2>8. PathFor(d.colors, d.pawn[p], p, d.path[p])
      BY DEF PathsGood
    <2> QED BY <1>1, <1>2, <1>5, <2>4, <2>7, <2>8 DEF PathFor
  <1> QED BY <1>2, <1>4, <1>5 DEF PathsGood

-----------------------------------------------------------------------------
(* The wall rule *)

(* The second invariant: every cached path, on the board and on the boards *)
(* that undo will return to, leads its pawn to the goal row.               *)
PathInv == PathsGood(board) /\ \A i \in 1 .. Len(records) : PathsGood(records[i].before)

(* PathInv is inductive relative to IInv. *)
LEMMA InitPaths == Init => PathInv
  <1> SUFFICES ASSUME Init PROVE PathInv
    OBVIOUS
  <1>1. PathsGood(board)
    BY NewBoardPaths DEF Init
  <1>2. Len(records) = 0 /\ 1 .. 0 = {}
    BY DEF Init
  <1> QED BY <1>1, <1>2 DEF PathInv

(* Every move and every undo keeps it. *)
LEMMA NextPaths == IInv /\ PathInv /\ [Next]_vars => PathInv'
  <1> SUFFICES ASSUME IInv, PathInv, [Next]_vars PROVE PathInv'
    OBVIOUS
  <1> DEFINE n == Len(records)
             S == {records[i] : i \in DOMAIN records}
  <1>0. records \in Seq(S) /\ n \in Nat /\ BoardTyped(board) /\ Consistent(board)
    BY DEF IInv
  <1>1. ASSUME NEW loc \in Locs, NEW pla \in Players, playMove(loc, pla)
        PROVE  PathInv'
    <2>1. PathsGood(board')
      BY <1>0, <1>1, PlayKeepsPaths DEF PathInv, playMove
    <2>2. Len(records') = 0 /\ 1 .. 0 = {}
      BY <1>1 DEF playMove
    <2> QED BY <2>1, <2>2 DEF PathInv
  <1>2. ASSUME NEW loc \in Locs, NEW pla \in Players, playMoveRecorded(loc, pla)
        PROVE  PathInv'
    <2> DEFINE e == [record |-> MoveRecord(board, loc, pla), before |-> board]
    <2>1. PathsGood(board')
      BY <1>0, <1>2, PlayKeepsPaths DEF PathInv, playMoveRecorded
    <2>2. records' = Append(records, e) /\ e.before = board
      BY <1>2 DEF playMoveRecorded
    <2> HIDE DEF e
    <2>3. /\ Len(records') = n + 1 /\ records'[n + 1] = e
          /\ \A i \in 1 .. n : records'[i] = records[i]
      BY <1>0, <2>2
    <2>4. ASSUME NEW i \in 1 .. n + 1 PROVE PathsGood(records'[i].before)
      BY <1>0, <2>2, <2>3 DEF PathInv
    <2> QED BY <2>1, <2>3, <2>4 DEF PathInv
  <1>3. ASSUME undoLast PROVE PathInv'
    <2>1. n # 0 /\ Last(records) = records[n] /\ n \in 1 .. n
      BY <1>0, <1>3 DEF undoLast, Last
    <2>2. PICK e : e = records[n]
      OBVIOUS
    <2>3. IsEntry(e, board) /\ PathsGood(e.before)
      BY <1>0, <2>1, <2>2 DEF IInv, After, PathInv
    <2>4. board' = undo(board, MoveRecord(e.before, e.record.loc, e.record.pla))
      BY <1>3, <2>1, <2>2, <2>3 DEF undoLast, IsEntry
    <2>5. PathsGood(board')
      BY <1>0, <2>3, <2>4, UndoPaths DEF IsEntry, PathInv
    <2>6. records' = [i \in 1 .. n - 1 |-> records[i]]
      BY <1>3 DEF undoLast, Front
    <2>7. n - 1 \in Nat
      BY <1>0, <2>1
    <2>8. Len(records') = n - 1
      BY <2>6, <2>7
    <2>9. ASSUME NEW i \in 1 .. n - 1 PROVE PathsGood(records'[i].before)
      BY <1>0, <2>6, <2>7 DEF PathInv
    <2> QED BY <2>5, <2>8, <2>9 DEF PathInv
  <1>4. CASE UNCHANGED vars
    BY <1>4 DEF vars, PathInv
  <1> QED BY <1>1, <1>2, <1>3, <1>4 DEF Next

(* So it always holds. *)
LEMMA PathsOfSpec == Spec => []PathInv
  <1>1. IInv /\ PathInv /\ [Next]_vars => PathInv'
    BY NextPaths
  <1> QED BY InitPaths, <1>1, InvOfSpec, PTL DEF Spec

(* With good paths, what the code decides about a wall is the rule. *)
LEMMA RuleOfInv ==
  ASSUME NEW b, BoardTyped(b), PathsGood(b), NEW anchor \in Anchors, NEW isVertical \in BOOLEAN,
         NoOverlap(b, anchor, isVertical)
  PROVE  isGeometricallyLegalWallPlacement(b, anchor, isVertical)
           <=> \A pla \in Players :
                 calDistMap(placeFence(b, WallCells(anchor, isVertical)).colors, pla)[b.pawn[pla]] # -1
  <1> DEFINE arms == Arms(WallCenter(anchor), isVertical)
             colors == WalledColors(b, anchor, isVertical)
  <1>1. placeFence(b, WallCells(anchor, isVertical)).colors = colors
    BY DEF placeFence, BoardTyped, IsRecord, Fields, WalledColors
  <1>2. \A from, row : CanReach(b.colors, arms, from, row) <=> CanReach(colors, {}, from, row)
    BY WalledEdges
  <1>3. isGeometricallyLegalWallPlacement(b, anchor, isVertical) <=> checkNoFullBlockLazy(b, arms)
    BY Zenon DEF isGeometricallyLegalWallPlacement
  <1> HIDE DEF arms, colors
  <1>4. ASSUME NEW pla \in Players
        PROVE  calDistMap(colors, pla)[b.pawn[pla]] # -1 <=> CanReach(colors, {}, b.pawn[pla], GoalRow(pla))
    <2>1. b.pawn[pla] \in PawnLocs
      BY DEF BoardTyped
    <2> QED BY <2>1, DistMapReaches
  <1>5. checkNoFullBlockLazy(b, arms)
          <=> \A pla \in Players : CanReach(b.colors, arms, b.pawn[pla], GoalRow(pla))
    BY LazyCheckIsRule
  <1> QED BY <1>1, <1>2, <1>3, <1>4, <1>5

(* checkNoFullBlockLazy, which looks at two cached paths and searches only *)
(* if the wall crosses one, allows exactly the walls that leave every pawn *)
(* a distance to its goal row: the rule of the game, after any moves and   *)
(* undos (Board::isGeometricallyLegalWallPlacement).                       *)
THEOREM WallRuleHolds == Spec => []WallLegalIffNoFullBlock
  <1>1. IInv /\ PathInv => WallLegalIffNoFullBlock
    BY RuleOfInv DEF WallLegalIffNoFullBlock, IInv, PathInv
  <1> QED BY <1>1, InvOfSpec, PathsOfSpec, PTL

-----------------------------------------------------------------------------
(* Sequences that list a set once *)

(* Sequences without repetitions. *)
Distinct(s) == \A i, j \in 1 .. Len(s) : s[i] = s[j] => i = j

(* Two lists without a common element, one after the other. *)
LEMMA ConcatDistinct ==
  ASSUME NEW S, NEW s \in Seq(S), NEW t \in Seq(S), Distinct(s), Distinct(t),
         ToSet(s) \cap ToSet(t) = {}
  PROVE  Distinct(s \o t) /\ ToSet(s \o t) = ToSet(s) \cup ToSet(t) /\ s \o t \in Seq(S)
  <1>1. /\ DOMAIN s = 1 .. Len(s) /\ DOMAIN t = 1 .. Len(t) /\ DOMAIN (s \o t) = 1 .. Len(s) + Len(t)
        /\ Len(s) \in Nat /\ Len(t) \in Nat /\ Len(s \o t) = Len(s) + Len(t) /\ s \o t \in Seq(S)
    OBVIOUS
  <1>2. /\ \A i \in 1 .. Len(s) : (s \o t)[i] = s[i]
        /\ \A i \in 1 .. Len(t) : (s \o t)[Len(s) + i] = t[i]
    OBVIOUS
  <1>3. ASSUME NEW i \in 1 .. Len(s) + Len(t)
        PROVE  i \in 1 .. Len(s) \/ \E k \in 1 .. Len(t) : i = Len(s) + k
    <2>1. CASE i <= Len(s)
      BY <1>1, <2>1
    <2>2. CASE i > Len(s)
      <3>1. i - Len(s) \in 1 .. Len(t) /\ i = Len(s) + (i - Len(s))
        BY <1>1, <2>2
      <3> QED BY <3>1
    <2> QED BY <1>1, <2>1, <2>2
  <1>4. \A i \in 1 .. Len(s), k \in 1 .. Len(t) : s[i] # t[k]
    BY <1>1 DEF ToSet
  <1> DEFINE u == s \o t
  <1>5. Distinct(u)
    <2> HIDE DEF u
    <2> SUFFICES ASSUME NEW i \in 1 .. Len(s) + Len(t), NEW j \in 1 .. Len(s) + Len(t), u[i] = u[j]
                 PROVE  i = j
      BY <1>1 DEF Distinct, u
    <2>1. CASE i \in 1 .. Len(s) /\ j \in 1 .. Len(s)
      BY <1>2, <2>1 DEF Distinct, u
    <2>2. CASE i \in 1 .. Len(s) /\ \E k \in 1 .. Len(t) : j = Len(s) + k
      BY <1>2, <1>4, <2>2 DEF u
    <2>3. CASE j \in 1 .. Len(s) /\ \E k \in 1 .. Len(t) : i = Len(s) + k
      BY <1>2, <1>4, <2>3 DEF u
    <2>4. CASE (\E k \in 1 .. Len(t) : i = Len(s) + k) /\ (\E k \in 1 .. Len(t) : j = Len(s) + k)
      BY <1>2, <2>4 DEF Distinct, u
    <2> QED BY <1>3, <2>1, <2>2, <2>3, <2>4
  <1>6. ToSet(u) = ToSet(s) \cup ToSet(t)
    <2> HIDE DEF u
    <2>1. ASSUME NEW x \in ToSet(u) PROVE x \in ToSet(s) \cup ToSet(t)
      <3>1. PICK i \in 1 .. Len(s) + Len(t) : u[i] = x
        BY <1>1, <2>1 DEF ToSet, u
      <3> QED BY <1>1, <1>2, <1>3, <3>1 DEF ToSet, u
    <2>2. ASSUME NEW i \in 1 .. Len(s) PROVE s[i] \in ToSet(u)
      <3>1. i \in 1 .. Len(s) + Len(t) /\ u[i] = s[i]
        BY <1>1, <1>2 DEF u
      <3> QED BY <1>1, <3>1 DEF ToSet, u
    <2>3. ASSUME NEW i \in 1 .. Len(t) PROVE t[i] \in ToSet(u)
      <3>1. Len(s) + i \in 1 .. Len(s) + Len(t) /\ u[Len(s) + i] = t[i]
        BY <1>1, <1>2 DEF u
      <3> QED BY <1>1, <3>1 DEF ToSet, u
    <2> QED BY <1>1, <2>1, <2>2, <2>3 DEF ToSet
  <1> QED BY <1>1, <1>5, <1>6

(* Such a list is as long as the set is large. *)
LEMMA DistinctCounted ==
  ASSUME NEW S, NEW s \in Seq(S), Distinct(s)
  PROVE  Cardinality(ToSet(s)) = Len(s)
  <1>1. Len(s) \in Nat /\ DOMAIN s = 1 .. Len(s)
    OBVIOUS
  <1>2. s \in Bijection(1 .. Len(s), ToSet(s))
    <2>1. s \in [1 .. Len(s) -> ToSet(s)]
      BY <1>1 DEF ToSet
    <2> QED BY <1>1, <2>1 DEF Bijection, Injection, Surjection, IsInjective, Distinct, ToSet
  <1> QED BY <1>1, <1>2, FS_CountingElements DEF ExistsBijection

(* FlattenSeq of four sequences. *)
LEMMA FlattenFour ==
  ASSUME NEW f, f = [d \in 1 .. 4 |-> f[d]]
  PROVE  FlattenSeq(f) = ((f[1] \o f[2]) \o f[3]) \o f[4]
  <1> DEFINE Is(g) == g = [i \in 1 .. Len(f) |-> IF i = 1 THEN f[i] ELSE g[i - 1] \o f[i]]
             a2 == f[1] \o f[2]
             a3 == a2 \o f[3]
             a4 == a3 \o f[4]
             w == [i \in 1 .. 4 |-> IF i = 1 THEN f[1] ELSE IF i = 2 THEN a2 ELSE IF i = 3 THEN a3 ELSE a4]
  <1>1. Len(f) = 4
    OBVIOUS
  <1>2. FlattenSeq(f) = (CHOOSE g : Is(g))[4]
    <2>1. Len(f) # 0
      BY <1>1
    <2>2. FlattenSeq(f) = (CHOOSE g : Is(g))[Len(f)]
      BY <2>1 DEF FlattenSeq
    <2> QED BY <1>1, <2>2, Zenon
  <1>3. Is(w)
    <2>0. a2 = f[1] \o f[2] /\ a3 = a2 \o f[3] /\ a4 = a3 \o f[4]
      OBVIOUS
    <2> HIDE DEF a2, a3, a4
    <2>1. w[1] = f[1] /\ w[2] = a2 /\ w[3] = a3 /\ w[4] = a4
      OBVIOUS
    <2>2. ASSUME NEW i \in 1 .. 4 PROVE w[i] = IF i = 1 THEN f[i] ELSE w[i - 1] \o f[i]
      <3>1. i = 1 \/ i = 2 \/ i = 3 \/ i = 4
        OBVIOUS
      <3> HIDE DEF w
      <3>2. CASE i = 1
        BY <2>1, <3>2
      <3>3. CASE i = 2
        <4>1. i # 1 /\ i - 1 = 1
          BY <3>3
        <4> QED BY <2>0, <2>1, <3>3, <4>1
      <3>4. CASE i = 3
        <4>1. i # 1 /\ i - 1 = 2
          BY <3>4
        <4> QED BY <2>0, <2>1, <3>4, <4>1
      <3>5. CASE i = 4
        <4>1. i # 1 /\ i - 1 = 3
          BY <3>5
        <4> QED BY <2>0, <2>1, <3>5, <4>1
      <3> QED BY <3>1, <3>2, <3>3, <3>4, <3>5
    <2>3. w = [i \in 1 .. 4 |-> w[i]]
      BY Zenon
    <2> HIDE DEF w
    <2> QED BY <1>1, <2>2, <2>3
  <1>4. PICK g : g = CHOOSE h : Is(h)
    OBVIOUS
  <1>5. Is(g)
    <2> HIDE DEF Is
    <2> QED BY <1>3, <1>4
  <1>6. \A i \in 1 .. 4 : g[i] = IF i = 1 THEN f[i] ELSE g[i - 1] \o f[i]
    BY <1>1, <1>5, Zenon
  <1>7. g[1] = f[1] /\ g[2] = f[1] \o f[2] /\ g[3] = (f[1] \o f[2]) \o f[3] /\ g[4] = ((f[1] \o f[2]) \o f[3]) \o f[4]
    <2>1. g[1] = f[1]
      BY <1>6
    <2>2. g[2] = g[1] \o f[2]
      BY <1>6
    <2>3. g[3] = g[2] \o f[3]
      BY <1>6
    <2>4. g[4] = g[3] \o f[4]
      BY <1>6
    <2> QED BY <2>1, <2>2, <2>3, <2>4
  <1> QED BY <1>2, <1>4, <1>7

-----------------------------------------------------------------------------
(* The directions of a pawn's moves *)

(* The two directions across each direction. *)
LEMMA Perp ==
  /\ PerpDirs(1)[1] = 2 /\ PerpDirs(1)[2] = 3 /\ PerpDirs(4)[1] = 2 /\ PerpDirs(4)[2] = 3
  /\ PerpDirs(2)[1] = 1 /\ PerpDirs(2)[2] = 4 /\ PerpDirs(3)[1] = 1 /\ PerpDirs(3)[2] = 4
  BY DEF PerpDirs

(* The four neighbours of a cell, and the cells around a jumped pawn. *)
Straight(my, d) == Plus(Plus(my, Dirs[d]), Dirs[d])
Diagonal(my, d, i) == Plus(Plus(my, Dirs[d]), Dirs[PerpDirs(d)[i]])

(* Where the cells around a jumped pawn lie, and that they are different. *)
LEMMA Around ==
  ASSUME NEW x \in Int, NEW y \in Int, NEW d \in 1 .. 4
  PROVE  LET my == <<x, y>> IN
         /\ Dist(my, Plus(my, Dirs[d])) = 2
         /\ Dist(my, Straight(my, d)) = 4
         /\ Dist(my, Diagonal(my, d, 1)) = 4 /\ Dist(my, Diagonal(my, d, 2)) = 4
         /\ Diagonal(my, d, 1) # Diagonal(my, d, 2)
         /\ \A e \in 1 .. 4 : Plus(my, Dirs[e]) = Plus(my, Dirs[d]) => e = d
         /\ \A e \in 1 .. 4 : Plus(Plus(my, Dirs[d]), Dirs[e])
                                \in {my, Straight(my, d), Diagonal(my, d, 1), Diagonal(my, d, 2)}
  <1> DEFINE my == <<x, y>>
  <1>0. \A p \in Int, q \in Int : /\ Plus(<<p, q>>, Dirs[1]) = <<p, q - 2>>
                                  /\ Plus(<<p, q>>, Dirs[2]) = <<p - 2, q>>
                                  /\ Plus(<<p, q>>, Dirs[3]) = <<p + 2, q>>
                                  /\ Plus(<<p, q>>, Dirs[4]) = <<p, q + 2>>
    BY DirsFour DEF Plus
  <1>00. \A p \in Int, q \in Int : Dist(<<x, y>>, <<p, q>>)
           = (IF x - p < 0 THEN p - x ELSE x - p) + (IF y - q < 0 THEN q - y ELSE y - q)
    BY DEF Dist, Abs
  <1>1. CASE d = 1
    <2>1. /\ Plus(my, Dirs[d]) = <<x, y - 2>> /\ Straight(my, d) = <<x, y - 4>>
          /\ Diagonal(my, d, 1) = <<x - 2, y - 2>> /\ Diagonal(my, d, 2) = <<x + 2, y - 2>>
      BY <1>0, <1>1, Perp DEF Straight, Diagonal
    <2>2. \A e \in 1 .. 4 : Plus(my, Dirs[e]) = Plus(my, Dirs[d]) => e = d
      BY <1>0, <1>1
    <2>3. ASSUME NEW e \in 1 .. 4
          PROVE  Plus(Plus(my, Dirs[d]), Dirs[e])
                   \in {my, Straight(my, d), Diagonal(my, d, 1), Diagonal(my, d, 2)}
      <3>1. /\ y - 2 \in Int /\ (y - 2) - 2 = y - 4 /\ (y - 2) + 2 = y
            /\ e = 1 \/ e = 2 \/ e = 3 \/ e = 4
        OBVIOUS
      <3>2. Plus(Plus(my, Dirs[d]), Dirs[e]) \in {<<x, y - 4>>, <<x - 2, y - 2>>, <<x + 2, y - 2>>, <<x, y>>}
        BY <1>0, <2>1, <3>1
      <3> QED BY <2>1, <3>2
    <2> QED BY <1>00, <2>1, <2>2, <2>3
  <1>2. CASE d = 2
    <2>1. /\ Plus(my, Dirs[d]) = <<x - 2, y>> /\ Straight(my, d) = <<x - 4, y>>
          /\ Diagonal(my, d, 1) = <<x - 2, y - 2>> /\ Diagonal(my, d, 2) = <<x - 2, y + 2>>
      BY <1>0, <1>2, Perp DEF Straight, Diagonal
    <2> QED BY <1>0, <1>00, <1>2, <2>1
  <1>3. CASE d = 3
    <2>1. /\ Plus(my, Dirs[d]) = <<x + 2, y>> /\ Straight(my, d) = <<x + 4, y>>
          /\ Diagonal(my, d, 1) = <<x + 2, y - 2>> /\ Diagonal(my, d, 2) = <<x + 2, y + 2>>
      BY <1>0, <1>3, Perp DEF Straight, Diagonal
    <2> QED BY <1>0, <1>00, <1>3, <2>1
  <1>4. CASE d = 4
    <2>1. /\ Plus(my, Dirs[d]) = <<x, y + 2>> /\ Straight(my, d) = <<x, y + 4>>
          /\ Diagonal(my, d, 1) = <<x - 2, y + 2>> /\ Diagonal(my, d, 2) = <<x + 2, y + 2>>
      BY <1>0, <1>4, Perp DEF Straight, Diagonal
    <2> QED BY <1>0, <1>00, <1>4, <2>1
  <1> QED BY <1>1, <1>2, <1>3, <1>4

(* Where a pawn goes in direction d: to the neighbouring cell, or over the *)
(* other pawn if it stands there.                                          *)
StepsTo(b, pla, d, loc) ==
  LET my == b.pawn[pla] IN
  /\ Plus(my, Dirs[d]) # b.pawn[getOpp(pla)]
  /\ loc = Plus(my, Dirs[d]) /\ CanLand(b, my, loc)
JumpsTo(b, pla, d, loc) ==
  LET my == b.pawn[pla]
      opp == b.pawn[getOpp(pla)] IN
  /\ Plus(my, Dirs[d]) = opp /\ canPawnStep(b.colors, my, opp)
  /\ IF CanLand(b, opp, Straight(my, d)) THEN loc = Straight(my, d)
     ELSE (loc = Diagonal(my, d, 1) \/ loc = Diagonal(my, d, 2)) /\ CanLand(b, opp, loc)

(* The list of at most one cell. *)
LEMMA LandedIs ==
  ASSUME NEW b, NEW from, NEW to
  PROVE  /\ IfLanded(b, from, to) \in Seq(PawnLocs) /\ Distinct(IfLanded(b, from, to))
         /\ \A loc : loc \in ToSet(IfLanded(b, from, to)) <=> loc = to /\ CanLand(b, from, to)
  <1>1. CASE CanLand(b, from, to)
    <2>1. to \in PawnLocs
      BY <1>1 DEF CanLand, canPawnStep
    <2>2. DOMAIN <<to>> = {1} /\ <<to>>[1] = to /\ <<to>> \in Seq(PawnLocs) /\ Len(<<to>>) = 1
      BY <2>1
    <2>3. IfLanded(b, from, to) = <<to>>
      BY <1>1 DEF IfLanded
    <2> QED BY <1>1, <2>2, <2>3 DEF Distinct, ToSet
  <1>2. CASE ~CanLand(b, from, to)
    <2>1. IfLanded(b, from, to) = <<>>
      BY <1>2 DEF IfLanded
    <2>2. DOMAIN <<>> = {} /\ <<>> \in Seq(PawnLocs) /\ Len(<<>>) = 0 /\ 1 .. 0 = {}
      OBVIOUS
    <2> QED BY <1>2, <2>1, <2>2 DEF Distinct, ToSet
  <1> QED BY <1>1, <1>2

(* A pawn cell has integer coordinates. *)
LEMMA CellIs ==
  ASSUME NEW a \in PawnLocs
  PROVE  \E x \in Int, y \in Int : a = <<x, y>>
  BY LocParts DEF PawnLocs

(* What the generator lists for one direction. *)
LEMMA DestinationsAre ==
  ASSUME NEW b, BoardTyped(b), NEW pla \in Players, NEW d \in 1 .. 4
  PROVE  /\ DestinationsIn(b, pla, d) \in Seq(PawnLocs) /\ Distinct(DestinationsIn(b, pla, d))
         /\ \A loc : loc \in ToSet(DestinationsIn(b, pla, d))
                       <=> StepsTo(b, pla, d, loc) \/ JumpsTo(b, pla, d, loc)
  <1> DEFINE my == b.pawn[pla]
             opp == b.pawn[getOpp(pla)]
             step1 == Plus(my, Dirs[d])
             list == DestinationsIn(b, pla, d)
  <1>1. CASE ~(canPawnStep(b.colors, my, step1) /\ step1 = opp)
    <2>1. list = IfLanded(b, my, step1)
      BY <1>1 DEF DestinationsIn
    <2>2. \A loc : ~JumpsTo(b, pla, d, loc)
      BY <1>1 DEF JumpsTo
    <2>3. \A loc : StepsTo(b, pla, d, loc) <=> loc = step1 /\ CanLand(b, my, step1)
      BY <1>1 DEF StepsTo, CanLand
    <2> HIDE DEF list, step1, my
    <2> QED BY <2>1, <2>2, <2>3, LandedIs DEF list
  <1>2. CASE canPawnStep(b.colors, my, step1) /\ step1 = opp
    <2>1. list = JumpDestinations(b, opp, d)
      BY <1>2 DEF DestinationsIn
    <2>2. /\ Straight(my, d) = Plus(opp, Dirs[d])
          /\ Diagonal(my, d, 1) = Plus(opp, Dirs[PerpDirs(d)[1]])
          /\ Diagonal(my, d, 2) = Plus(opp, Dirs[PerpDirs(d)[2]])
      BY <1>2 DEF Straight, Diagonal
    <2>3. Diagonal(my, d, 1) # Diagonal(my, d, 2)
      <3>1. my \in PawnLocs
        BY <1>2 DEF canPawnStep
      <3> HIDE DEF my
      <3> QED BY <3>1, CellIs, Around
    <2>4. \A loc : ~StepsTo(b, pla, d, loc)
      BY <1>2 DEF StepsTo
    <2>5. \A loc : JumpsTo(b, pla, d, loc) <=>
            IF CanLand(b, opp, Straight(my, d)) THEN loc = Straight(my, d)
            ELSE (loc = Diagonal(my, d, 1) \/ loc = Diagonal(my, d, 2)) /\ CanLand(b, opp, loc)
      BY <1>2 DEF JumpsTo
    <2> HIDE DEF my, opp, list
    <2>6. CASE CanLand(b, opp, Straight(my, d))
      <3>1. list = IfLanded(b, opp, Straight(my, d))
        BY <2>1, <2>2, <2>6 DEF JumpDestinations, IfLanded
      <3> QED BY <2>4, <2>5, <2>6, <3>1, LandedIs DEF list
    <2>7. CASE ~CanLand(b, opp, Straight(my, d))
      <3> DEFINE s == IfLanded(b, opp, Diagonal(my, d, 1))
                 t == IfLanded(b, opp, Diagonal(my, d, 2))
      <3>1. list = s \o t
        BY <2>1, <2>2, <2>7 DEF JumpDestinations, Diagonals
      <3>2. /\ s \in Seq(PawnLocs) /\ Distinct(s) /\ t \in Seq(PawnLocs) /\ Distinct(t)
            /\ \A loc : loc \in ToSet(s) <=> loc = Diagonal(my, d, 1) /\ CanLand(b, opp, Diagonal(my, d, 1))
            /\ \A loc : loc \in ToSet(t) <=> loc = Diagonal(my, d, 2) /\ CanLand(b, opp, Diagonal(my, d, 2))
        BY LandedIs
      <3> HIDE DEF s, t
      <3>3. Distinct(list) /\ ToSet(list) = ToSet(s) \cup ToSet(t) /\ list \in Seq(PawnLocs)
        <4>1. ToSet(s) \cap ToSet(t) = {}
          BY <2>3, <3>2
        <4> QED BY <3>1, <3>2, <4>1, ConcatDistinct
      <3> QED BY <2>4, <2>5, <2>7, <3>2, <3>3 DEF list
    <2> QED BY <2>6, <2>7
  <1> QED BY <1>1, <1>2

-----------------------------------------------------------------------------
(* The generator and the predicate *)

(* A direction leads to a cell at distance two by a step, four by a jump,  *)
(* and no two directions to the same.                                      *)
LEMMA OneDirection ==
  ASSUME NEW b, BoardTyped(b), NEW pla \in Players, NEW loc, NEW d \in 1 .. 4
  PROVE  /\ StepsTo(b, pla, d, loc) => Dist(b.pawn[pla], loc) = 2
         /\ JumpsTo(b, pla, d, loc) => Dist(b.pawn[pla], loc) = 4
         /\ \A e \in 1 .. 4 : /\ StepsTo(b, pla, d, loc) /\ StepsTo(b, pla, e, loc) => e = d
                              /\ JumpsTo(b, pla, d, loc) /\ JumpsTo(b, pla, e, loc) => e = d
  <1> DEFINE my == b.pawn[pla]
  <1>1. PICK x \in Int, y \in Int : my = <<x, y>>
    BY CellIs DEF BoardTyped
  <1>2. /\ Dist(my, Plus(my, Dirs[d])) = 2
        /\ Dist(my, Straight(my, d)) = 4
        /\ Dist(my, Diagonal(my, d, 1)) = 4 /\ Dist(my, Diagonal(my, d, 2)) = 4
        /\ \A e \in 1 .. 4 : Plus(my, Dirs[e]) = Plus(my, Dirs[d]) => e = d
    BY <1>1, Around
  <1> QED BY <1>2 DEF StepsTo, JumpsTo

(* So the four lists have no cell in common. *)
LEMMA ListsApart ==
  ASSUME NEW b, BoardTyped(b), NEW pla \in Players, NEW d \in 1 .. 4, NEW e \in 1 .. 4, d # e
  PROVE  ToSet(DestinationsIn(b, pla, d)) \cap ToSet(DestinationsIn(b, pla, e)) = {}
  <1> SUFFICES ASSUME NEW loc, loc \in ToSet(DestinationsIn(b, pla, d)), loc \in ToSet(DestinationsIn(b, pla, e))
               PROVE  FALSE
    OBVIOUS
  <1>1. /\ StepsTo(b, pla, d, loc) \/ JumpsTo(b, pla, d, loc)
        /\ StepsTo(b, pla, e, loc) \/ JumpsTo(b, pla, e, loc)
    BY DestinationsAre
  <1>2. CASE StepsTo(b, pla, d, loc) /\ StepsTo(b, pla, e, loc)
    BY <1>2, OneDirection
  <1>3. CASE JumpsTo(b, pla, d, loc) /\ JumpsTo(b, pla, e, loc)
    BY <1>3, OneDirection
  <1>4. CASE StepsTo(b, pla, d, loc) /\ JumpsTo(b, pla, e, loc)
    <2>1. Dist(b.pawn[pla], loc) = 2 /\ Dist(b.pawn[pla], loc) = 4
      BY <1>4, OneDirection
    <2> QED BY <2>1
  <1>5. CASE JumpsTo(b, pla, d, loc) /\ StepsTo(b, pla, e, loc)
    <2>1. Dist(b.pawn[pla], loc) = 2 /\ Dist(b.pawn[pla], loc) = 4
      BY <1>5, OneDirection
    <2> QED BY <2>1
  <1> QED BY <1>1, <1>2, <1>3, <1>4, <1>5

(* The generator lists each destination once. *)
LEMMA GeneratorLists ==
  ASSUME NEW b, BoardTyped(b), NEW pla \in Players, NEW moves, moves = getLegalPawnDestinations(b, pla)
  PROVE  /\ moves \in Seq(PawnLocs) /\ Distinct(moves)
         /\ \A loc : loc \in ToSet(moves)
                       <=> \E d \in 1 .. 4 : StepsTo(b, pla, d, loc) \/ JumpsTo(b, pla, d, loc)
  <1> DEFINE f == [d \in 1 .. 4 |-> DestinationsIn(b, pla, d)]
  <1>1. PICK f1, f2, f3, f4 : /\ f1 = DestinationsIn(b, pla, 1) /\ f2 = DestinationsIn(b, pla, 2)
                              /\ f3 = DestinationsIn(b, pla, 3) /\ f4 = DestinationsIn(b, pla, 4)
    OBVIOUS
  <1>2. moves = ((f1 \o f2) \o f3) \o f4
    <2>1. f[1] = f1 /\ f[2] = f2 /\ f[3] = f3 /\ f[4] = f4 /\ f = [d \in 1 .. 4 |-> f[d]]
      BY <1>1
    <2>2. moves = FlattenSeq(f)
      BY DEF getLegalPawnDestinations
    <2> HIDE DEF f
    <2>3. FlattenSeq(f) = ((f[1] \o f[2]) \o f[3]) \o f[4]
      BY <2>1, FlattenFour
    <2> QED BY <2>1, <2>2, <2>3
  <1> HIDE DEF f
  <1>3. /\ f1 \in Seq(PawnLocs) /\ f2 \in Seq(PawnLocs) /\ f3 \in Seq(PawnLocs) /\ f4 \in Seq(PawnLocs)
        /\ Distinct(f1) /\ Distinct(f2) /\ Distinct(f3) /\ Distinct(f4)
    BY <1>1, DestinationsAre
  <1>4. /\ ToSet(f1) \cap ToSet(f2) = {} /\ ToSet(f1) \cap ToSet(f3) = {} /\ ToSet(f1) \cap ToSet(f4) = {}
        /\ ToSet(f2) \cap ToSet(f3) = {} /\ ToSet(f2) \cap ToSet(f4) = {} /\ ToSet(f3) \cap ToSet(f4) = {}
    BY <1>1, ListsApart
  <1>5. PICK g2 : g2 = f1 \o f2
    OBVIOUS
  <1>6. PICK g3 : g3 = g2 \o f3
    OBVIOUS
  <1>7. Distinct(g2) /\ ToSet(g2) = ToSet(f1) \cup ToSet(f2) /\ g2 \in Seq(PawnLocs)
    BY <1>3, <1>4, <1>5, ConcatDistinct
  <1>8. Distinct(g3) /\ ToSet(g3) = ToSet(g2) \cup ToSet(f3) /\ g3 \in Seq(PawnLocs)
    <2>1. ToSet(g2) \cap ToSet(f3) = {}
      BY <1>4, <1>7
    <2> QED BY <1>3, <1>6, <1>7, <2>1, ConcatDistinct
  <1>9. Distinct(moves) /\ ToSet(moves) = ToSet(g3) \cup ToSet(f4) /\ moves \in Seq(PawnLocs)
    <2>1. ToSet(g3) \cap ToSet(f4) = {}
      BY <1>4, <1>7, <1>8
    <2>2. moves = g3 \o f4
      BY <1>2, <1>5, <1>6
    <2> QED BY <1>3, <1>8, <2>1, <2>2, ConcatDistinct
  <1>10. ASSUME NEW loc
         PROVE  loc \in ToSet(moves) <=> \E d \in 1 .. 4 : loc \in ToSet(DestinationsIn(b, pla, d))
    BY <1>1, <1>7, <1>8, <1>9
  <1>11. \A d \in 1 .. 4 : \A loc : loc \in ToSet(DestinationsIn(b, pla, d))
                                  <=> StepsTo(b, pla, d, loc) \/ JumpsTo(b, pla, d, loc)
    BY DestinationsAre
  <1> QED BY <1>9, <1>10, <1>11

(* The predicate allows the same moves. *)
LEMMA PredicateAllows ==
  ASSUME NEW b, BoardTyped(b), NEW pla \in Players, NEW loc
  PROVE  isLegalPawnMove(b, loc, pla)
           <=> \E d \in 1 .. 4 : StepsTo(b, pla, d, loc) \/ JumpsTo(b, pla, d, loc)
  <1> DEFINE my == b.pawn[pla]
             opp == b.pawn[getOpp(pla)]
             Jump(d) == /\ Plus(my, Dirs[d]) = opp
                        /\ canPawnStep(b.colors, my, opp)
                        /\ IF CanLand(b, opp, Plus(opp, Dirs[d]))
                           THEN loc = Plus(opp, Dirs[d])
                           ELSE \E i \in 1 .. 2 : /\ loc = Plus(opp, Dirs[PerpDirs(d)[i]])
                                                  /\ CanLand(b, opp, loc)
  <1>1. isLegalPawnMove(b, loc, pla) <=>
          /\ loc \in PawnLocs /\ b.colors[loc] = C_EMPTY
          /\ \/ Dist(my, loc) = 2 /\ loc # opp /\ canPawnStep(b.colors, my, loc)
             \/ Dist(my, loc) = 4 /\ \E d \in DOMAIN Dirs : Jump(d)
    BY Zenon DEF isLegalPawnMove, CanLand
  <1>2. ASSUME NEW d \in 1 .. 4 PROVE Jump(d) <=> JumpsTo(b, pla, d, loc)
    <2>1. ASSUME Plus(my, Dirs[d]) = opp
          PROVE  /\ Straight(my, d) = Plus(opp, Dirs[d])
                 /\ Diagonal(my, d, 1) = Plus(opp, Dirs[PerpDirs(d)[1]])
                 /\ Diagonal(my, d, 2) = Plus(opp, Dirs[PerpDirs(d)[2]])
      BY <2>1 DEF Straight, Diagonal
    <2>2. \A i \in 1 .. 2 : i = 1 \/ i = 2
      OBVIOUS
    <2>3. 1 \in 1 .. 2 /\ 2 \in 1 .. 2
      OBVIOUS
    <2>4. CASE Plus(my, Dirs[d]) = opp
      BY <2>1, <2>2, <2>3, <2>4, Zenon DEF JumpsTo
    <2> QED BY <2>4 DEF JumpsTo
  <1> HIDE DEF Jump
  <1>3. DOMAIN Dirs = 1 .. 4
    BY DirsFour
  <1>4. ASSUME NEW d \in 1 .. 4, StepsTo(b, pla, d, loc) PROVE isLegalPawnMove(b, loc, pla)
    <2>1. Dist(my, loc) = 2
      BY <1>4, OneDirection
    <2>2. loc # opp /\ canPawnStep(b.colors, my, loc) /\ b.colors[loc] = C_EMPTY
      BY <1>4 DEF StepsTo, CanLand
    <2> QED BY <1>1, <2>1, <2>2 DEF canPawnStep
  <1>5. ASSUME NEW d \in 1 .. 4, JumpsTo(b, pla, d, loc) PROVE isLegalPawnMove(b, loc, pla)
    <2>1. Dist(my, loc) = 4
      BY <1>5, OneDirection
    <2>2. canPawnStep(b.colors, opp, loc) /\ b.colors[loc] = C_EMPTY
      BY <1>5 DEF JumpsTo, CanLand
    <2> QED BY <1>1, <1>2, <1>3, <1>5, <2>1, <2>2 DEF canPawnStep
  <1>6. ASSUME isLegalPawnMove(b, loc, pla), Dist(my, loc) = 2 /\ loc # opp /\ canPawnStep(b.colors, my, loc)
        PROVE  \E d \in 1 .. 4 : StepsTo(b, pla, d, loc)
    <2>1. Edge(b.colors, {}, my, loc)
      BY <1>6 DEF Edge
    <2>2. PICK k \in 0 .. 3 : loc = Plus(my, Dirs[k + 1])
      BY <2>1, EdgeByDir
    <2>3. k + 1 \in 1 .. 4 /\ b.colors[loc] = C_EMPTY
      BY <1>1, <1>6
    <2>4. StepsTo(b, pla, k + 1, loc)
      BY <1>6, <2>2, <2>3 DEF StepsTo, CanLand
    <2> QED BY <2>3, <2>4
  <1> QED BY <1>1, <1>2, <1>3, <1>4, <1>5, <1>6

-----------------------------------------------------------------------------
(* A pawn is never without a move *)

(* The three cells of a wall. *)
LEMMA WallCellsAre ==
  ASSUME NEW c \in 0 .. N - 2, NEW r \in 0 .. N - 2, NEW v \in BOOLEAN
  PROVE  /\ <<c, r>> \in Anchors
         /\ WallCells(<<c, r>>, v) =
              {<<2 * c + 1, 2 * r + 1>>} \cup
                (IF v THEN {<<2 * c + 1, 2 * r>>, <<2 * c + 1, 2 * r + 2>>}
                      ELSE {<<2 * c, 2 * r + 1>>, <<2 * c + 2, 2 * r + 1>>})
  <1>1. WallCenter(<<c, r>>) = <<2 * c + 1, 2 * r + 1>>
    BY DEF WallCenter
  <1> QED BY <1>1 DEF Anchors, WallCells, Arms, Plus

(* A fenced cell beside a pawn cell belongs to a wall across it. *)
LEMMA FencedIsWalled ==
  ASSUME NEW b, BoardTyped(b), Consistent(b), NEW loc \in Locs, b.colors[loc] = C_FENCE
  PROVE  \E c \in 0 .. N - 2, r \in 0 .. N - 2, v \in BOOLEAN :
           <<<<c, r>>, v>> \in Walls(b) /\ loc \in WallCells(<<c, r>>, v)
  <1>1. PICK w \in Walls(b) : loc \in WallCells(w[1], w[2])
    BY DEF Consistent, FencedBy
  <1>2. PICK a \in Anchors, v \in BOOLEAN : w = <<a, v>>
    BY DEF Walls, BoardTyped
  <1>3. PICK c \in 0 .. N - 2, r \in 0 .. N - 2 : a = <<c, r>>
    BY DEF Anchors
  <1> QED BY <1>1, <1>2, <1>3

(* Two walls around a pawn cell of a goal row would cross: it has a way out. *)
LEMMA GoalRowOpen ==
  ASSUME NEW b, BoardTyped(b), Consistent(b), NEW m \in PawnLocs, m[2] = 0 \/ m[2] = size - 1
  PROVE  \E n : Edge(b.colors, {}, m, n)
  <1> SUFFICES ASSUME \A n : ~Edge(b.colors, {}, m, n) PROVE FALSE
    OBVIOUS
  <1>0. N \in Nat /\ N >= 3 /\ size = 2 * N - 1
    BY BoardSizeAssumption DEF size
  <1>1. PICK i \in 0 .. N - 1, j \in 0 .. N - 1 : m = <<2 * i, 2 * j>> /\ (j = 0 \/ j = N - 1)
    <2>1. PICK x \in 0 .. size - 1, y \in 0 .. size - 1 : m = <<x, y>> /\ x % 2 = 0 /\ y % 2 = 0
      BY DEF PawnLocs, Locs
    <2>2. /\ x \div 2 \in 0 .. N - 1 /\ x = 2 * (x \div 2) /\ y \div 2 \in 0 .. N - 1 /\ y = 2 * (y \div 2)
          /\ y \div 2 = 0 \/ y \div 2 = N - 1
      BY <1>0, <2>1
    <2> QED BY <2>1, <2>2
  <1>2. ASSUME NEW p \in 0 .. N - 1, NEW q \in 0 .. N - 1,
               \/ p = i /\ (q = j + 1 \/ j = q + 1)
               \/ q = j /\ (p = i + 1 \/ i = p + 1)
        PROVE  /\ <<i + p, j + q>> \in Locs
               /\ b.colors[<<i + p, j + q>>] = C_FENCE
    <2> DEFINE n == <<2 * p, 2 * q>>
    <2>1. n \in PawnLocs
      <3>1. 2 * p \in 0 .. size - 1 /\ 2 * q \in 0 .. size - 1 /\ (2 * p) % 2 = 0 /\ (2 * q) % 2 = 0
        BY <1>0
      <3> QED BY <3>1 DEF PawnLocs, Locs
    <2>2. Dist(m, n) = 2 /\ (m[1] = n[1] \/ m[2] = n[2])
      BY <1>0, <1>1, <1>2 DEF Dist, Abs
    <2>3. Between(m, n) = <<i + p, j + q>>
      <3>1. (2 * i + 2 * p) \div 2 = i + p /\ (2 * j + 2 * q) \div 2 = j + q
        BY <1>0
      <3> QED BY <1>1, <3>1 DEF Between
    <2> HIDE DEF n
    <2>4. Between(m, n) \in Locs
      BY <2>1, <2>2, BetweenPawns
    <2>5. ~Edge(b.colors, {}, m, n)
      OBVIOUS
    <2> QED BY <2>1, <2>2, <2>3, <2>4, <2>5 DEF Edge, canPawnStep
  <1>3. PICK r \in 0 .. N - 2 : (j = 0 /\ r = 0) \/ (j = N - 1 /\ r = N - 2)
    BY <1>0, <1>1
  <1>4. PICK c \in 0 .. N - 2 : (i = c \/ i = c + 1) /\ <<<<c, r>>, FALSE>> \in Walls(b)
    <2>1. PICK q \in 0 .. N - 1 : (q = j + 1 \/ j = q + 1) /\ j + q = 2 * r + 1
      BY <1>0, <1>1, <1>3
    <2>2. <<i + i, j + q>> \in Locs /\ b.colors[<<i + i, j + q>>] = C_FENCE
      BY <1>2, <2>1
    <2>3. PICK c \in 0 .. N - 2, s \in 0 .. N - 2, v \in BOOLEAN :
            <<<<c, s>>, v>> \in Walls(b) /\ <<i + i, j + q>> \in WallCells(<<c, s>>, v)
      BY <2>2, FencedIsWalled
    <2>4. v = FALSE /\ (i = c \/ i = c + 1) /\ s = r
      BY <1>0, <2>1, <2>3, WallCellsAre
    <2> QED BY <2>3, <2>4
  <1>5. <<<<c, r>>, TRUE>> \in Walls(b)
    <2>1. PICK p \in 0 .. N - 1 : (p = i + 1 \/ i = p + 1) /\ i + p = 2 * c + 1
      BY <1>0, <1>1, <1>4
    <2>2. <<i + p, j + j>> \in Locs /\ b.colors[<<i + p, j + j>>] = C_FENCE
      BY <1>2, <2>1
    <2>3. PICK d \in 0 .. N - 2, s \in 0 .. N - 2, v \in BOOLEAN :
            <<<<d, s>>, v>> \in Walls(b) /\ <<i + p, j + j>> \in WallCells(<<d, s>>, v)
      BY <2>2, FencedIsWalled
    <2>4. v = TRUE /\ d = c /\ s = r
      BY <1>0, <1>1, <1>3, <2>1, <2>3, WallCellsAre
    <2> QED BY <2>3, <2>4
  <1>6. <<2 * c + 1, 2 * r + 1>> \in WallCells(<<c, r>>, TRUE) \cap WallCells(<<c, r>>, FALSE)
    <2>1. ASSUME NEW v \in BOOLEAN PROVE <<2 * c + 1, 2 * r + 1>> \in WallCells(<<c, r>>, v)
      BY DEF WallCells, WallCenter
    <2> QED BY <2>1
  <1>7. <<<<c, r>>, TRUE>> # <<<<c, r>>, FALSE>>
    OBVIOUS
  <1>8. WallCells(<<c, r>>, TRUE) \cap WallCells(<<c, r>>, FALSE) = {}
    <2> DEFINE w1 == <<<<c, r>>, TRUE>>
               w2 == <<<<c, r>>, FALSE>>
    <2>1. w1[1] = <<c, r>> /\ w1[2] = TRUE /\ w2[1] = <<c, r>> /\ w2[2] = FALSE
      BY Zenon
    <2>2. w1 \in Walls(b) /\ w2 \in Walls(b) /\ w1 # w2
      BY <1>4, <1>5, <1>7
    <2> HIDE DEF w1, w2
    <2>3. WallCells(w1[1], w1[2]) \cap WallCells(w2[1], w2[2]) = {}
      BY <2>2 DEF Consistent
    <2> QED BY <2>1, <2>3, Zenon
  <1> QED BY <1>6, <1>8

(* Nobody is ever out of pawn moves. *)
LEMMA NoStalemate ==
  ASSUME NEW b, BoardTyped(b), Consistent(b), PathsGood(b), NEW pla \in Players
  PROVE  \E d \in 1 .. 4 : \E loc : StepsTo(b, pla, d, loc) \/ JumpsTo(b, pla, d, loc)
  <1> SUFFICES ASSUME \A d \in 1 .. 4 : \A loc : ~StepsTo(b, pla, d, loc) /\ ~JumpsTo(b, pla, d, loc)
               PROVE  FALSE
    OBVIOUS
  <1>1. PICK opl \in Players : opl = getOpp(pla) /\ opl # pla /\ \A p \in Players : p = pla \/ p = opl
    BY PlayersDistinct DEF getOpp
  <1>2. PICK my \in PawnLocs, opp \in PawnLocs : my = b.pawn[pla] /\ opp = b.pawn[opl]
    BY DEF BoardTyped
  <1>3. ASSUME NEW c \in PawnLocs, c # my, c # opp PROVE b.colors[c] = C_EMPTY
    <2>1. c \in Locs /\ b.colors[c] \in Colors
      BY DEF PawnLocs, BoardTyped
    <2>2. b.colors[c] \notin Players
      BY <1>1, <1>2, <1>3, <2>1 DEF Consistent
    <2>3. b.colors[c] # C_FENCE
      <3> SUFFICES ASSUME b.colors[c] = C_FENCE PROVE FALSE
        OBVIOUS
      <3>1. PICK x \in 0 .. N - 2, y \in 0 .. N - 2, v \in BOOLEAN : c \in WallCells(<<x, y>>, v)
        BY <2>1, FencedIsWalled
      <3> QED BY <3>1, WallCellsAre, WallCellsOffPawns
    <2> QED BY <2>1, <2>2, <2>3, PlayersDistinct DEF Colors, Players
  <1>4. ASSUME NEW n, Edge(b.colors, {}, my, n) PROVE n = opp
    <2> SUFFICES ASSUME n # opp PROVE FALSE
      OBVIOUS
    <2>1. PICK k \in 0 .. 3 : n = Plus(my, Dirs[k + 1])
      BY <1>4, EdgeByDir
    <2>2. n \in PawnLocs /\ canPawnStep(b.colors, my, n) /\ k + 1 \in 1 .. 4
      BY <1>4 DEF Edge, canPawnStep
    <2>3. n # my
      <3>1. Dist(my, n) = 2 /\ Dist(my, my) = 0
        <4>1. my[1] \in Int /\ my[2] \in Int
          BY LocParts DEF PawnLocs
        <4> QED BY <2>2, <4>1 DEF canPawnStep, Dist, Abs
      <3> QED BY <3>1
    <2>4. StepsTo(b, pla, k + 1, n)
      BY <1>1, <1>2, <1>3, <2>1, <2>2, <2>3 DEF StepsTo, CanLand
    <2> QED BY <2>2, <2>4
  <1>5. CanReach(b.colors, {}, my, GoalRow(pla)) /\ CanReach(b.colors, {}, opp, GoalRow(opl))
    BY <1>2, PathReaches DEF PathsGood
  <1>6. CASE ~Edge(b.colors, {}, my, opp)
    <2>1. \A n : ~Edge(b.colors, {}, my, n)
      BY <1>4, <1>6
    <2>2. Closed(b.colors, {}, {my}) /\ {my} \in SUBSET PawnLocs
      BY <2>1 DEF Closed
    <2>3. my[2] = GoalRow(pla)
      BY <1>5, <2>2 DEF CanReach
    <2> QED BY <2>1, <2>3, GoalRowOpen DEF GoalRow
  <1>7. CASE Edge(b.colors, {}, my, opp)
    <2>1. PICK k \in 0 .. 3 : opp = Plus(my, Dirs[k + 1])
      BY <1>7, EdgeByDir
    <2>2. PICK d \in 1 .. 4 : d = k + 1
      OBVIOUS
    <2>3. PICK x \in Int, y \in Int : my = <<x, y>>
      BY CellIs
    <2>4. \A e \in 1 .. 4 : Plus(opp, Dirs[e]) \in {my, Straight(my, d), Diagonal(my, d, 1), Diagonal(my, d, 2)}
      BY <2>1, <2>2, <2>3, Around
    <2>5. canPawnStep(b.colors, my, opp) /\ Dist(my, opp) = 2
      BY <1>7 DEF Edge, canPawnStep
    <2>6. \A loc : ~JumpsTo(b, pla, d, loc)
      OBVIOUS
    <2>7. ~CanLand(b, opp, Straight(my, d))
      BY <1>1, <1>2, <2>1, <2>2, <2>5, <2>6 DEF JumpsTo
    <2>8. ~CanLand(b, opp, Diagonal(my, d, 1)) /\ ~CanLand(b, opp, Diagonal(my, d, 2))
      BY <1>1, <1>2, <2>1, <2>2, <2>5, <2>6, <2>7 DEF JumpsTo
    <2>9. ASSUME NEW n, Edge(b.colors, {}, opp, n) PROVE n = my
      <3> SUFFICES ASSUME n # my PROVE FALSE
        OBVIOUS
      <3>1. PICK l \in 0 .. 3 : n = Plus(opp, Dirs[l + 1])
        BY <2>9, EdgeByDir
      <3>2. n \in PawnLocs /\ canPawnStep(b.colors, opp, n) /\ l + 1 \in 1 .. 4
        BY <2>9 DEF Edge, canPawnStep
      <3>3. n # opp
        <4>1. opp[1] \in Int /\ opp[2] \in Int
          BY LocParts DEF PawnLocs
        <4>2. Dist(opp, n) = 2 /\ Dist(opp, opp) = 0
          BY <3>2, <4>1 DEF canPawnStep, Dist, Abs
        <4> QED BY <4>2
      <3>4. CanLand(b, opp, n)
        BY <1>3, <3>2, <3>3 DEF CanLand
      <3>5. n \in {Straight(my, d), Diagonal(my, d, 1), Diagonal(my, d, 2)}
        BY <2>4, <3>1, <3>2
      <3> QED BY <2>7, <2>8, <3>4, <3>5
    <2>10. Closed(b.colors, {}, {my, opp}) /\ {my, opp} \in SUBSET PawnLocs
      BY <1>4, <2>9 DEF Closed
    <2>11. \A p \in Players : my[2] = GoalRow(p) \/ opp[2] = GoalRow(p)
      BY <1>1, <1>5, <2>10 DEF CanReach
    <2>12. /\ my[2] = 0 \/ opp[2] = 0
           /\ my[2] = size - 1 \/ opp[2] = size - 1
      BY <2>11, PlayersDistinct DEF GoalRow
    <2>13. my[1] \in Nat /\ my[2] \in Nat /\ opp[1] \in Nat /\ opp[2] \in Nat
      BY LocParts DEF PawnLocs
    <2>14. size - 1 >= 4 /\ size \in Nat
      BY BoardSizeAssumption DEF size
    <2>15. my[2] - opp[2] <= 2 /\ opp[2] - my[2] <= 2
      BY <2>5, <2>13 DEF Dist, Abs
    <2> QED BY <2>12, <2>13, <2>14, <2>15
  <1> QED BY <1>6, <1>7

(* Board::isLegalPawnMove and Board::getLegalPawnDestinations agree, the   *)
(* generator lists nothing twice and never nothing: as no player is ever   *)
(* walled in there is no stalemate, on which the search relies.            *)
THEOREM GeneratorAgrees == Spec => []PawnMovesAgree
  <1>1. ASSUME BoardTyped(board), Consistent(board), PathsGood(board) PROVE PawnMovesAgree
    <2> SUFFICES ASSUME NEW pla \in Players, NEW moves, moves = getLegalPawnDestinations(board, pla)
                 PROVE  /\ {loc \in Locs : isLegalPawnMove(board, loc, pla)} = ToSet(moves)
                        /\ Cardinality(ToSet(moves)) = Len(moves)
                        /\ moves # <<>>
      BY Zenon DEF PawnMovesAgree
    <2>1. /\ moves \in Seq(PawnLocs) /\ Distinct(moves)
          /\ \A loc : loc \in ToSet(moves) <=> isLegalPawnMove(board, loc, pla)
      BY <1>1, GeneratorLists, PredicateAllows
    <2>2. ToSet(moves) \subseteq Locs
      BY <2>1 DEF ToSet, PawnLocs
    <2>3. Cardinality(ToSet(moves)) = Len(moves)
      BY <2>1, DistinctCounted
    <2>4. \E loc : isLegalPawnMove(board, loc, pla)
      BY <1>1, NoStalemate, PredicateAllows
    <2>5. moves # <<>>
      BY <2>1, <2>4 DEF ToSet
    <2> QED BY <2>1, <2>2, <2>3, <2>5
  <1>2. IInv /\ PathInv => PawnMovesAgree
    BY <1>1 DEF IInv, PathInv
  <1> QED BY <1>2, InvOfSpec, PathsOfSpec, PTL

-----------------------------------------------------------------------------
(* The mirror on locations and directions *)

(* The mirror on locations and on directions. *)
LEMMA MirrorLoc ==
  /\ \A loc \in Locs : /\ getMirrorLoc(loc) \in Locs
                       /\ getMirrorLoc(getMirrorLoc(loc)) = loc
                       /\ getMirrorLoc(loc)[1] % 2 = loc[1] % 2 /\ getMirrorLoc(loc)[2] = loc[2]
  /\ \A loc \in PawnLocs : getMirrorLoc(loc) \in PawnLocs
  /\ \A loc \in Locs : getMirrorLoc(loc) \in PawnLocs => loc \in PawnLocs
  <1>1. N \in Nat /\ size - 1 = 2 * (N - 1) /\ size \in Nat
    BY BoardSizeAssumption DEF size
  <1>2. ASSUME NEW loc \in Locs
        PROVE  /\ getMirrorLoc(loc) \in Locs
               /\ getMirrorLoc(getMirrorLoc(loc)) = loc
               /\ getMirrorLoc(loc)[1] % 2 = loc[1] % 2 /\ getMirrorLoc(loc)[2] = loc[2]
    <2>1. PICK x \in 0 .. size - 1, y \in 0 .. size - 1 : loc = <<x, y>>
      BY DEF Locs
    <2>2. getMirrorLoc(loc) = <<size - 1 - x, y>> /\ size - 1 - x \in 0 .. size - 1
      BY <1>1, <2>1 DEF getMirrorLoc
    <2>3. size - 1 - (size - 1 - x) = x /\ (size - 1 - x) % 2 = x % 2
      <3>1. x \in Nat /\ (2 * (N - 1) - x) % 2 = x % 2
        BY <1>1
      <3> QED BY <1>1, <3>1
    <2>4. getMirrorLoc(getMirrorLoc(loc)) = loc
      BY <2>1, <2>2, <2>3 DEF getMirrorLoc
    <2> QED BY <2>1, <2>2, <2>3, <2>4 DEF Locs
  <1> QED BY <1>2 DEF PawnLocs

(* Left and right change places. *)
MirrorDir(d) == IF d = 2 THEN 3 ELSE IF d = 3 THEN 2 ELSE d

(* The neighbour, the straight jump and the two diagonal jumps, mirrored; *)
(* the two diagonals may change places.                                   *)
LEMMA MirrorStep ==
  ASSUME NEW x \in Int, NEW y \in Int, NEW d \in 1 .. 4
  PROVE  LET a == <<x, y>> IN
         /\ MirrorDir(d) \in 1 .. 4 /\ MirrorDir(MirrorDir(d)) = d
         /\ Plus(getMirrorLoc(a), Dirs[MirrorDir(d)]) = getMirrorLoc(Plus(a, Dirs[d]))
         /\ Straight(getMirrorLoc(a), MirrorDir(d)) = getMirrorLoc(Straight(a, d))
         /\ \/ /\ Diagonal(getMirrorLoc(a), MirrorDir(d), 1) = getMirrorLoc(Diagonal(a, d, 1))
               /\ Diagonal(getMirrorLoc(a), MirrorDir(d), 2) = getMirrorLoc(Diagonal(a, d, 2))
            \/ /\ Diagonal(getMirrorLoc(a), MirrorDir(d), 1) = getMirrorLoc(Diagonal(a, d, 2))
               /\ Diagonal(getMirrorLoc(a), MirrorDir(d), 2) = getMirrorLoc(Diagonal(a, d, 1))
  <1>0. PICK z \in Int : z = size - 1
    BY BoardSizeAssumption DEF size
  <1>1. \A p \in Int, q \in Int : getMirrorLoc(<<p, q>>) = <<z - p, q>>
    BY <1>0 DEF getMirrorLoc
  <1>2. \A p \in Int, q \in Int : /\ Plus(<<p, q>>, Dirs[1]) = <<p, q - 2>>
                                  /\ Plus(<<p, q>>, Dirs[2]) = <<p - 2, q>>
                                  /\ Plus(<<p, q>>, Dirs[3]) = <<p + 2, q>>
                                  /\ Plus(<<p, q>>, Dirs[4]) = <<p, q + 2>>
    BY DirsFour DEF Plus
  <1>3. ASSUME NEW p \in Int, NEW q \in Int, NEW e \in 1 .. 4
        PROVE  Plus(<<z - p, q>>, Dirs[MirrorDir(e)]) = getMirrorLoc(Plus(<<p, q>>, Dirs[e]))
    <2>1. e = 1 \/ e = 2 \/ e = 3 \/ e = 4
      OBVIOUS
    <2>2. MirrorDir(1) = 1 /\ MirrorDir(2) = 3 /\ MirrorDir(3) = 2 /\ MirrorDir(4) = 4
      BY DEF MirrorDir
    <2>3. z - p \in Int /\ p - 2 \in Int /\ p + 2 \in Int /\ z - (p - 2) = (z - p) + 2 /\ z - (p + 2) = (z - p) - 2
      OBVIOUS
    <2>9. /\ getMirrorLoc(<<p, q - 2>>) = <<z - p, q - 2>> /\ getMirrorLoc(<<p, q + 2>>) = <<z - p, q + 2>>
          /\ getMirrorLoc(<<p - 2, q>>) = <<z - (p - 2), q>> /\ getMirrorLoc(<<p + 2, q>>) = <<z - (p + 2), q>>
      <3>1. q - 2 \in Int /\ q + 2 \in Int
        OBVIOUS
      <3> QED BY <1>1, <2>3, <3>1
    <2>4. CASE e = 1
      <3>1. Plus(<<z - p, q>>, Dirs[1]) = <<z - p, q - 2>> /\ Plus(<<p, q>>, Dirs[1]) = <<p, q - 2>>
        BY <1>2, <2>3
      <3>2. getMirrorLoc(<<p, q - 2>>) = <<z - p, q - 2>>
        BY <2>3, <2>9
      <3> QED BY <2>2, <2>4, <3>1, <3>2
    <2>5. CASE e = 2
      <3>1. Plus(<<z - p, q>>, Dirs[3]) = <<(z - p) + 2, q>> /\ Plus(<<p, q>>, Dirs[2]) = <<p - 2, q>>
        BY <1>2, <2>3
      <3>2. getMirrorLoc(<<p - 2, q>>) = <<(z - p) + 2, q>>
        BY <2>3, <2>9
      <3> QED BY <2>2, <2>5, <3>1, <3>2
    <2>6. CASE e = 3
      <3>1. Plus(<<z - p, q>>, Dirs[2]) = <<(z - p) - 2, q>> /\ Plus(<<p, q>>, Dirs[3]) = <<p + 2, q>>
        BY <1>2, <2>3
      <3>2. getMirrorLoc(<<p + 2, q>>) = <<(z - p) - 2, q>>
        BY <2>3, <2>9
      <3> QED BY <2>2, <2>6, <3>1, <3>2
    <2>7. CASE e = 4
      <3>1. Plus(<<z - p, q>>, Dirs[4]) = <<z - p, q + 2>> /\ Plus(<<p, q>>, Dirs[4]) = <<p, q + 2>>
        BY <1>2, <2>3
      <3>2. getMirrorLoc(<<p, q + 2>>) = <<z - p, q + 2>>
        BY <2>3, <2>9
      <3> QED BY <2>2, <2>7, <3>1, <3>2
    <2> QED BY <2>1, <2>4, <2>5, <2>6, <2>7
  <1>4. \A p \in Int, q \in Int, e \in 1 .. 4 : \E u \in Int, w \in Int : Plus(<<p, q>>, Dirs[e]) = <<u, w>>
    <2>1. \A e \in 1 .. 4 : e = 1 \/ e = 2 \/ e = 3 \/ e = 4
      OBVIOUS
    <2> QED BY <1>2, <2>1
  <1>5. PICK u \in Int, w \in Int : Plus(<<x, y>>, Dirs[d]) = <<u, w>>
    BY <1>4
  <1>6. /\ MirrorDir(d) \in 1 .. 4 /\ MirrorDir(MirrorDir(d)) = d
        /\ PerpDirs(d)[1] \in 1 .. 4 /\ PerpDirs(d)[2] \in 1 .. 4
        /\ \/ /\ PerpDirs(MirrorDir(d))[1] = MirrorDir(PerpDirs(d)[1])
              /\ PerpDirs(MirrorDir(d))[2] = MirrorDir(PerpDirs(d)[2])
           \/ /\ PerpDirs(MirrorDir(d))[1] = MirrorDir(PerpDirs(d)[2])
              /\ PerpDirs(MirrorDir(d))[2] = MirrorDir(PerpDirs(d)[1])
    <2>1. d = 1 \/ d = 2 \/ d = 3 \/ d = 4
      OBVIOUS
    <2> QED BY <2>1, Perp DEF MirrorDir
  <1>7. getMirrorLoc(<<x, y>>) = <<z - x, y>> /\ getMirrorLoc(<<u, w>>) = <<z - u, w>>
    BY <1>1
  <1>8. Plus(<<z - x, y>>, Dirs[MirrorDir(d)]) = <<z - u, w>>
    BY <1>3, <1>5, <1>7
  <1>9. \A e \in 1 .. 4 : Plus(<<z - u, w>>, Dirs[MirrorDir(e)]) = getMirrorLoc(Plus(<<u, w>>, Dirs[e]))
    BY <1>3
  <1> QED BY <1>5, <1>6, <1>7, <1>8, <1>9 DEF Straight, Diagonal

-----------------------------------------------------------------------------
(* The mirror on walls and boards *)

(* The mirror on walls. *)
MirrorSet(cells) == {getMirrorLoc(loc) : loc \in cells}

(* The cells and the arms of a mirrored wall are the mirrored ones. *)
LEMMA MirrorWall ==
  ASSUME NEW a \in Anchors, NEW v \in BOOLEAN
  PROVE  /\ MirrorAnchor(a) \in Anchors /\ MirrorAnchor(MirrorAnchor(a)) = a
         /\ WallCells(MirrorAnchor(a), v) = MirrorSet(WallCells(a, v))
         /\ Arms(WallCenter(MirrorAnchor(a)), v) = MirrorSet(Arms(WallCenter(a), v))
         /\ Arms(WallCenter(a), v) \subseteq Locs /\ WallCells(a, v) \subseteq Locs
  <1>1. N \in Nat /\ N >= 3 /\ size = 2 * N - 1
    BY BoardSizeAssumption DEF size
  <1>2. PICK c \in 0 .. N - 2, r \in 0 .. N - 2 : a = <<c, r>>
    BY DEF Anchors
  <1>3. N - 2 - c \in 0 .. N - 2 /\ N - 2 - (N - 2 - c) = c /\ c \in Nat /\ r \in Nat
    BY <1>1
  <1>4. MirrorAnchor(a) = <<N - 2 - c, r>> /\ MirrorAnchor(<<N - 2 - c, r>>) = <<N - 2 - (N - 2 - c), r>>
    BY <1>2 DEF MirrorAnchor
  <1>5. MirrorAnchor(a) \in Anchors /\ MirrorAnchor(MirrorAnchor(a)) = a
    BY <1>2, <1>3, <1>4 DEF Anchors
  <1>6. WallCenter(a) = <<2 * c + 1, 2 * r + 1>> /\ WallCenter(MirrorAnchor(a)) = <<2 * (N - 2 - c) + 1, 2 * r + 1>>
    BY <1>2, <1>4 DEF WallCenter
  <1>7. \A p \in Int, q \in Int : getMirrorLoc(<<p, q>>) = <<2 * N - 2 - p, q>>
    <2>1. size - 1 = 2 * N - 2
      BY <1>1
    <2> QED BY <2>1 DEF getMirrorLoc
  <1>8. getMirrorLoc(WallCenter(a)) = WallCenter(MirrorAnchor(a))
    <2>1. 2 * N - 2 - (2 * c + 1) = 2 * (N - 2 - c) + 1 /\ 2 * c + 1 \in Int /\ 2 * r + 1 \in Int
      BY <1>1, <1>3
    <2> QED BY <1>6, <1>7, <2>1
  <1>9. Arms(WallCenter(MirrorAnchor(a)), v) = MirrorSet(Arms(WallCenter(a), v))
    <2> DEFINE x == 2 * c + 1
               x1 == 2 * (N - 2 - c) + 1
               y == 2 * r + 1
    <2>1. \A p, q : /\ Plus(<<p, q>>, <<0, -1>>) = <<p + 0, q + -1>> /\ Plus(<<p, q>>, <<0, 1>>) = <<p + 0, q + 1>>
                    /\ Plus(<<p, q>>, <<-1, 0>>) = <<p + -1, q + 0>> /\ Plus(<<p, q>>, <<1, 0>>) = <<p + 1, q + 0>>
      BY DEF Plus
    <2>2. /\ x \in Int /\ y \in Int /\ x1 \in Int
          /\ x + 0 \in Int /\ x + 1 \in Int /\ x + -1 \in Int /\ y + 0 \in Int /\ y + 1 \in Int /\ y + -1 \in Int
          /\ 2 * N - 2 - (x + 0) = x1 + 0 /\ 2 * N - 2 - (x + 1) = x1 + -1 /\ 2 * N - 2 - (x + -1) = x1 + 1
      BY <1>1, <1>3
    <2>3. WallCenter(a) = <<x, y>> /\ WallCenter(MirrorAnchor(a)) = <<x1, y>>
      BY <1>6
    <2> HIDE DEF x, x1, y
    <2>4. /\ getMirrorLoc(<<x + 0, y + -1>>) = <<x1 + 0, y + -1>> /\ getMirrorLoc(<<x + 0, y + 1>>) = <<x1 + 0, y + 1>>
          /\ getMirrorLoc(<<x + -1, y + 0>>) = <<x1 + 1, y + 0>> /\ getMirrorLoc(<<x + 1, y + 0>>) = <<x1 + -1, y + 0>>
      BY <1>7, <2>2
    <2>5. CASE v = TRUE
      <3>1. /\ Arms(WallCenter(a), v) = {<<x + 0, y + -1>>, <<x + 0, y + 1>>}
            /\ Arms(WallCenter(MirrorAnchor(a)), v) = {<<x1 + 0, y + -1>>, <<x1 + 0, y + 1>>}
        BY <2>1, <2>3, <2>5 DEF Arms
      <3> QED BY <2>4, <3>1 DEF MirrorSet
    <2>6. CASE v = FALSE
      <3>1. /\ Arms(WallCenter(a), v) = {<<x + -1, y + 0>>, <<x + 1, y + 0>>}
            /\ Arms(WallCenter(MirrorAnchor(a)), v) = {<<x1 + -1, y + 0>>, <<x1 + 1, y + 0>>}
        BY <2>1, <2>3, <2>6 DEF Arms
      <3> QED BY <2>4, <3>1 DEF MirrorSet
    <2> QED BY <2>5, <2>6
  <1>10. WallCells(MirrorAnchor(a), v) = MirrorSet(WallCells(a, v))
    <2> HIDE DEF getMirrorLoc
    <2> QED BY <1>8, <1>9 DEF WallCells, MirrorSet
  <1>11. WallCells(a, v) \subseteq Locs
    BY WallCellsOffPawns
  <1> QED BY <1>5, <1>9, <1>10, <1>11 DEF WallCells

(* The mirror is one-to-one, and the cells of a mirrored set are the mirrored cells. *)
LEMMA MirrorOneToOne ==
  /\ \A a \in Locs, b \in Locs : getMirrorLoc(a) = getMirrorLoc(b) => a = b
  /\ \A cells \in SUBSET Locs : \A loc \in Locs : getMirrorLoc(loc) \in MirrorSet(cells) <=> loc \in cells
  /\ \A cells \in SUBSET Locs : MirrorSet(cells) \subseteq Locs /\ MirrorSet(MirrorSet(cells)) = cells
  /\ \A c1 \in SUBSET Locs, c2 \in SUBSET Locs : c1 \cap c2 = {} => MirrorSet(c1) \cap MirrorSet(c2) = {}
  <1>1. \A a \in Locs, b \in Locs : getMirrorLoc(a) = getMirrorLoc(b) => a = b
    BY MirrorLoc
  <1>2. ASSUME NEW cells \in SUBSET Locs, NEW loc \in Locs
        PROVE  getMirrorLoc(loc) \in MirrorSet(cells) <=> loc \in cells
    BY <1>1 DEF MirrorSet
  <1>3. ASSUME NEW cells \in SUBSET Locs
        PROVE  MirrorSet(cells) \subseteq Locs /\ MirrorSet(MirrorSet(cells)) = cells
    BY MirrorLoc DEF MirrorSet
  <1>4. ASSUME NEW c1 \in SUBSET Locs, NEW c2 \in SUBSET Locs, c1 \cap c2 = {}
        PROVE  MirrorSet(c1) \cap MirrorSet(c2) = {}
    BY <1>1, <1>4 DEF MirrorSet
  <1> QED BY <1>1, <1>2, <1>3, <1>4

(* Two boards that are each other's mirror image as far as the rules look. *)
Twins(b, m) ==
  /\ BoardTyped(b) /\ BoardTyped(m)
  /\ \A loc \in Locs : m.colors[getMirrorLoc(loc)] = b.colors[loc]
  /\ \A pla \in Players : m.pawn[pla] = getMirrorLoc(b.pawn[pla])
  /\ m.fences = b.fences

(* Being twins is symmetric, so what one board allows is shown once. *)
LEMMA TwinsBack ==
  ASSUME NEW b, NEW m, Twins(b, m)
  PROVE  Twins(m, b)
  <1>1. \A loc \in Locs : b.colors[getMirrorLoc(loc)] = m.colors[loc]
    BY MirrorLoc DEF Twins
  <1>2. \A pla \in Players : b.pawn[pla] \in Locs
    BY DEF Twins, BoardTyped, PawnLocs
  <1>3. \A pla \in Players : b.pawn[pla] = getMirrorLoc(m.pawn[pla])
    BY <1>2, MirrorLoc DEF Twins
  <1> QED BY <1>1, <1>3 DEF Twins

(* What getMirroredX makes of a board. *)
LEMMA MirrorEffect ==
  ASSUME NEW b, BoardTyped(b), NEW m, m = getMirroredX(b)
  PROVE  /\ Twins(b, m)
         /\ m.hWalls = {MirrorAnchor(a) : a \in b.hWalls} /\ m.vWalls = {MirrorAnchor(a) : a \in b.vWalls}
         /\ m.path = [pla \in Players |-> shortestPath(m.colors, m.pawn[pla], pla)]
  <1> DEFINE colors == [loc \in Locs |-> b.colors[getMirrorLoc(loc)]]
             pawn == [pla \in Players |-> getMirrorLoc(b.pawn[pla])]
             hW == {MirrorAnchor(a) : a \in b.hWalls}
             vW == {MirrorAnchor(a) : a \in b.vWalls}
             path == [pla \in Players |-> shortestPath(colors, pawn[pla], pla)]
             m1 == [b EXCEPT !.colors = colors, !.pawn = pawn, !.hWalls = hW, !.vWalls = vW, !.path = path]
             hash == HashFromScratch(m1)
             m2 == [m1 EXCEPT !.hash = hash]
  <1>1. colors \in [Locs -> Colors] /\ \A loc \in Locs : colors[getMirrorLoc(loc)] = b.colors[loc]
    <2>1. \A loc \in Locs : getMirrorLoc(loc) \in Locs /\ getMirrorLoc(getMirrorLoc(loc)) = loc
      BY MirrorLoc
    <2> QED BY <2>1 DEF BoardTyped
  <1>2. pawn \in [Players -> PawnLocs]
    BY MirrorLoc DEF BoardTyped
  <1>3. hW \in SUBSET Anchors /\ vW \in SUBSET Anchors
    BY MirrorWall DEF BoardTyped
  <1>4. m = m2
    BY DEF getMirroredX, BoardTyped, IsRecord, Fields
  <1>5. \A pla \in Players : pawn[pla] = getMirrorLoc(b.pawn[pla])
    OBVIOUS
  <1>6. path = [pla \in Players |-> shortestPath(colors, pawn[pla], pla)]
    OBVIOUS
  <1> HIDE DEF colors, pawn, path, hash
  <1>7. IsRecord(m1)
    <2> HIDE DEF hW, vW
    <2> QED BY DEF BoardTyped, IsRecord, Fields
  <1>8. /\ m1.colors = colors /\ m1.pawn = pawn /\ m1.fences = b.fences /\ m1.hWalls = hW /\ m1.vWalls = vW
        /\ m1.movenum = b.movenum /\ m1.path = path
    <2> HIDE DEF hW, vW
    <2> QED BY DEF BoardTyped, IsRecord, Fields
  <1> HIDE DEF m1
  <1>9. IsRecord(m2)
    BY <1>7 DEF IsRecord, Fields
  <1>10. /\ m2.colors = colors /\ m2.pawn = pawn /\ m2.fences = b.fences /\ m2.hWalls = hW /\ m2.vWalls = vW
         /\ m2.movenum = b.movenum /\ m2.path = path
    BY <1>7, <1>8 DEF IsRecord, Fields
  <1> HIDE DEF m2
  <1>11. BoardTyped(m2)
    BY <1>1, <1>2, <1>3, <1>9, <1>10 DEF BoardTyped
  <1>12. Twins(b, m2)
    BY <1>1, <1>5, <1>10, <1>11 DEF Twins
  <1> QED BY <1>4, <1>6, <1>10, <1>12

-----------------------------------------------------------------------------
(* The mirror on steps, ways and pawn moves *)

(* A step between two cells, mirrored. *)
LEMMA MirrorBetween ==
  ASSUME NEW a \in PawnLocs, NEW c \in PawnLocs
  PROVE  /\ Dist(getMirrorLoc(a), getMirrorLoc(c)) = Dist(a, c)
         /\ (getMirrorLoc(a)[1] = getMirrorLoc(c)[1] \/ getMirrorLoc(a)[2] = getMirrorLoc(c)[2])
              <=> (a[1] = c[1] \/ a[2] = c[2])
         /\ Between(getMirrorLoc(a), getMirrorLoc(c)) = getMirrorLoc(Between(a, c))
  <1>0. N \in Nat /\ size \in Nat /\ size - 1 = 2 * (N - 1)
    BY BoardSizeAssumption DEF size
  <1>1. PICK ax \in 0 .. size - 1, ay \in 0 .. size - 1 : a = <<ax, ay>> /\ ax % 2 = 0 /\ ay % 2 = 0
    BY DEF PawnLocs, Locs
  <1>2. PICK cx \in 0 .. size - 1, cy \in 0 .. size - 1 : c = <<cx, cy>> /\ cx % 2 = 0 /\ cy % 2 = 0
    BY DEF PawnLocs, Locs
  <1>3. ax \in Nat /\ ay \in Nat /\ cx \in Nat /\ cy \in Nat
    BY <1>0, <1>1, <1>2
  <1>4. PICK z \in Int : z = 2 * (N - 1)
    BY <1>0
  <1>5. \A p \in Int, q \in Int : getMirrorLoc(<<p, q>>) = <<z - p, q>>
    BY <1>0, <1>4 DEF getMirrorLoc
  <1>6. getMirrorLoc(a) = <<z - ax, ay>> /\ getMirrorLoc(c) = <<z - cx, cy>>
    BY <1>1, <1>2, <1>3, <1>5
  <1>7. Dist(getMirrorLoc(a), getMirrorLoc(c)) = Dist(a, c)
    <2>1. \A p \in Int, q \in Int, r \in Int, s \in Int :
            Dist(<<p, q>>, <<r, s>>)
              = (IF p - r < 0 THEN r - p ELSE p - r) + (IF q - s < 0 THEN s - q ELSE q - s)
      BY DEF Dist, Abs
    <2>2. /\ Dist(<<ax, ay>>, <<cx, cy>>)
              = (IF ax - cx < 0 THEN cx - ax ELSE ax - cx) + (IF ay - cy < 0 THEN cy - ay ELSE ay - cy)
          /\ Dist(<<z - ax, ay>>, <<z - cx, cy>>)
              = (IF (z - ax) - (z - cx) < 0 THEN (z - cx) - (z - ax) ELSE (z - ax) - (z - cx))
                + (IF ay - cy < 0 THEN cy - ay ELSE ay - cy)
      BY <1>3, <2>1
    <2>3. Dist(<<z - ax, ay>>, <<z - cx, cy>>) = Dist(<<ax, ay>>, <<cx, cy>>)
      BY <1>3, <2>2
    <2> QED BY <1>1, <1>2, <1>6, <2>3
  <1>8. ((z - ax) + (z - cx)) \div 2 = z - ((ax + cx) \div 2)
    <2>1. PICK k \in Nat, l \in Nat : ax = 2 * k /\ cx = 2 * l
      <3>1. ax = 2 * (ax \div 2) /\ ax \div 2 \in Nat /\ cx = 2 * (cx \div 2) /\ cx \div 2 \in Nat
        BY <1>1, <1>2, <1>3
      <3> QED BY <3>1
    <2>2. (2 * k + 2 * l) \div 2 = k + l /\ (2 * (z - k - l)) \div 2 = z - k - l
      OBVIOUS
    <2>3. (z - ax) + (z - cx) = 2 * (z - k - l)
      BY <2>1
    <2> QED BY <2>1, <2>2, <2>3
  <1>9. Between(getMirrorLoc(a), getMirrorLoc(c)) = getMirrorLoc(Between(a, c))
    <2>1. Between(a, c) = <<(ax + cx) \div 2, (ay + cy) \div 2>>
      BY <1>1, <1>2 DEF Between
    <2>2. (ax + cx) \div 2 \in Int /\ (ay + cy) \div 2 \in Int
      BY <1>3
    <2>3. getMirrorLoc(Between(a, c)) = <<z - ((ax + cx) \div 2), (ay + cy) \div 2>>
      BY <1>5, <2>1, <2>2
    <2>4. Between(getMirrorLoc(a), getMirrorLoc(c)) = <<((z - ax) + (z - cx)) \div 2, (ay + cy) \div 2>>
      BY <1>6 DEF Between
    <2> QED BY <1>8, <2>3, <2>4
  <1>10. (getMirrorLoc(a)[1] = getMirrorLoc(c)[1] \/ getMirrorLoc(a)[2] = getMirrorLoc(c)[2])
           <=> (a[1] = c[1] \/ a[2] = c[2])
    BY <1>1, <1>2, <1>3, <1>4, <1>6
  <1> QED BY <1>7, <1>9, <1>10

(* An open step is open in the mirror. *)
LEMMA MirrorEdges ==
  ASSUME NEW b, NEW m, Twins(b, m), NEW cells \in SUBSET Locs, NEW a, NEW c, Edge(b.colors, cells, a, c)
  PROVE  Edge(m.colors, MirrorSet(cells), getMirrorLoc(a), getMirrorLoc(c))
  <1>1. /\ a \in PawnLocs /\ c \in PawnLocs
        /\ Dist(a, c) = 2 /\ (a[1] = c[1] \/ a[2] = c[2])
        /\ b.colors[Between(a, c)] # C_FENCE /\ Between(a, c) \notin cells
    BY DEF Edge, canPawnStep
  <1>2. Between(a, c) \in Locs
    BY <1>1, BetweenPawns
  <1>3. getMirrorLoc(a) \in PawnLocs /\ getMirrorLoc(c) \in PawnLocs
    BY <1>1, MirrorLoc
  <1>4. m.colors[getMirrorLoc(Between(a, c))] # C_FENCE /\ getMirrorLoc(Between(a, c)) \notin MirrorSet(cells)
    BY <1>1, <1>2, MirrorOneToOne DEF Twins
  <1> QED BY <1>1, <1>3, <1>4, MirrorBetween DEF Edge, canPawnStep

(* Whoever reaches the row does so in the mirror. *)
LEMMA MirrorReaches ==
  ASSUME NEW b, NEW m, Twins(b, m), NEW cells \in SUBSET Locs, NEW from \in PawnLocs, NEW row,
         CanReach(b.colors, cells, from, row)
  PROVE  CanReach(m.colors, MirrorSet(cells), getMirrorLoc(from), row)
  <1> SUFFICES ASSUME NEW R \in SUBSET PawnLocs, getMirrorLoc(from) \in R,
                      Closed(m.colors, MirrorSet(cells), R)
               PROVE  \E c \in R : c[2] = row
    BY DEF CanReach
  <1> DEFINE Q == {a \in PawnLocs : getMirrorLoc(a) \in R}
  <1>1. from \in Q
    OBVIOUS
  <1>2. ASSUME NEW a \in Q, NEW c, Edge(b.colors, cells, a, c)
        PROVE  c \in Q
    <2>1. Edge(m.colors, MirrorSet(cells), getMirrorLoc(a), getMirrorLoc(c))
      BY <1>2, MirrorEdges
    <2>2. getMirrorLoc(c) \in R
      BY <2>1 DEF Closed
    <2> QED BY <1>2, <2>2, EdgeBack
  <1>3. PICK c \in Q : c[2] = row
    BY <1>1, <1>2 DEF CanReach, Closed
  <1>4. getMirrorLoc(c) \in R /\ getMirrorLoc(c)[2] = row
    BY <1>3, MirrorLoc DEF PawnLocs
  <1> QED BY <1>4

(* The mirrored board, whose paths are all searched anew, has good paths. *)
LEMMA MirrorPaths ==
  ASSUME NEW b, NEW m, Twins(b, m), PathsGood(b),
         m.path = [pla \in Players |-> shortestPath(m.colors, m.pawn[pla], pla)]
  PROVE  PathsGood(m)
  <1>1. ASSUME NEW pla \in Players
        PROVE  PathFor(m.colors, m.pawn[pla], pla, shortestPath(m.colors, m.pawn[pla], pla))
    <2>1. b.pawn[pla] \in PawnLocs /\ m.pawn[pla] \in PawnLocs /\ m.pawn[pla] = getMirrorLoc(b.pawn[pla])
      BY DEF Twins, BoardTyped
    <2>2. CanReach(b.colors, {}, b.pawn[pla], GoalRow(pla))
      BY PathReaches DEF PathsGood
    <2>3. MirrorSet({}) = {}
      BY DEF MirrorSet
    <2>4. CanReach(m.colors, MirrorSet({}), m.pawn[pla], GoalRow(pla))
      BY <2>1, <2>2, MirrorReaches
    <2> QED BY <2>1, <2>3, <2>4, FreshPath
  <1> QED BY <1>1 DEF PathsGood

(* Pawn moves, mirrored. *)
LEMMA MirrorLands ==
  ASSUME NEW b, NEW m, Twins(b, m), NEW from, NEW to, CanLand(b, from, to)
  PROVE  CanLand(m, getMirrorLoc(from), getMirrorLoc(to))
  <1>1. Edge(b.colors, {}, from, to) /\ b.colors[to] = C_EMPTY
    BY DEF CanLand, Edge
  <1>2. Edge(m.colors, MirrorSet({}), getMirrorLoc(from), getMirrorLoc(to))
    BY <1>1, MirrorEdges
  <1>3. to \in Locs
    BY <1>1, EdgeBack DEF PawnLocs
  <1> QED BY <1>1, <1>2, <1>3 DEF CanLand, Edge, Twins

(* The cells around a pawn, mirrored. *)
LEMMA MirrorCells ==
  ASSUME NEW my \in PawnLocs, NEW d \in 1 .. 4
  PROVE  /\ MirrorDir(d) \in 1 .. 4
         /\ Plus(getMirrorLoc(my), Dirs[MirrorDir(d)]) = getMirrorLoc(Plus(my, Dirs[d]))
         /\ Straight(getMirrorLoc(my), MirrorDir(d)) = getMirrorLoc(Straight(my, d))
         /\ \/ /\ Diagonal(getMirrorLoc(my), MirrorDir(d), 1) = getMirrorLoc(Diagonal(my, d, 1))
               /\ Diagonal(getMirrorLoc(my), MirrorDir(d), 2) = getMirrorLoc(Diagonal(my, d, 2))
            \/ /\ Diagonal(getMirrorLoc(my), MirrorDir(d), 1) = getMirrorLoc(Diagonal(my, d, 2))
               /\ Diagonal(getMirrorLoc(my), MirrorDir(d), 2) = getMirrorLoc(Diagonal(my, d, 1))
         /\ getMirrorLoc(getMirrorLoc(Straight(my, d))) = Straight(my, d)
  <1>1. PICK x \in Int, y \in Int : my = <<x, y>>
    BY CellIs
  <1>2. getMirrorLoc(getMirrorLoc(Straight(my, d))) = Straight(my, d)
    <2>1. \E u \in Int, w \in Int : Straight(my, d) = <<u, w>>
      <3>1. \A p \in Int, q \in Int : \E u \in Int, w \in Int : Plus(<<p, q>>, Dirs[d]) = <<u, w>>
        BY DirsFour DEF Plus
      <3> QED BY <1>1, <3>1 DEF Straight
    <2>2. PICK u \in Int, w \in Int : Straight(my, d) = <<u, w>>
      BY <2>1
    <2>3. PICK z \in Int : z = size - 1
      BY BoardSizeAssumption DEF size
    <2>4. getMirrorLoc(<<u, w>>) = <<z - u, w>> /\ getMirrorLoc(<<z - u, w>>) = <<z - (z - u), w>>
      BY <2>3 DEF getMirrorLoc
    <2> QED BY <2>2, <2>4
  <1> QED BY <1>1, <1>2, MirrorStep

(* A move in a direction is a move in the mirrored direction. *)
LEMMA MirrorMoves ==
  ASSUME NEW b, NEW m, Twins(b, m), NEW pla \in Players, NEW loc, NEW d \in 1 .. 4,
         StepsTo(b, pla, d, loc) \/ JumpsTo(b, pla, d, loc)
  PROVE  \/ StepsTo(m, pla, MirrorDir(d), getMirrorLoc(loc))
         \/ JumpsTo(m, pla, MirrorDir(d), getMirrorLoc(loc))
  <1> DEFINE my == b.pawn[pla]
             opp == b.pawn[getOpp(pla)]
             e == MirrorDir(d)
  <1>1. getOpp(pla) \in Players
    BY DEF getOpp, Players
  <1>2. my \in PawnLocs /\ opp \in PawnLocs /\ my \in Locs /\ opp \in Locs
    BY <1>1 DEF Twins, BoardTyped, PawnLocs
  <1>3. m.pawn[pla] = getMirrorLoc(my) /\ m.pawn[getOpp(pla)] = getMirrorLoc(opp)
    BY <1>1 DEF Twins
  <1>4. /\ e \in 1 .. 4
        /\ Plus(getMirrorLoc(my), Dirs[e]) = getMirrorLoc(Plus(my, Dirs[d]))
        /\ Straight(getMirrorLoc(my), e) = getMirrorLoc(Straight(my, d))
        /\ \/ /\ Diagonal(getMirrorLoc(my), e, 1) = getMirrorLoc(Diagonal(my, d, 1))
              /\ Diagonal(getMirrorLoc(my), e, 2) = getMirrorLoc(Diagonal(my, d, 2))
           \/ /\ Diagonal(getMirrorLoc(my), e, 1) = getMirrorLoc(Diagonal(my, d, 2))
              /\ Diagonal(getMirrorLoc(my), e, 2) = getMirrorLoc(Diagonal(my, d, 1))
        /\ getMirrorLoc(getMirrorLoc(Straight(my, d))) = Straight(my, d)
    BY <1>2, MirrorCells
  <1> HIDE DEF my, opp, e
  <1>5. CASE StepsTo(b, pla, d, loc)
    <2>1. Plus(my, Dirs[d]) # opp /\ loc = Plus(my, Dirs[d]) /\ CanLand(b, my, loc)
      BY <1>5 DEF StepsTo, my, opp
    <2>2. loc \in Locs
      BY <2>1 DEF CanLand, canPawnStep, PawnLocs
    <2>3. getMirrorLoc(loc) # getMirrorLoc(opp)
      BY <1>2, <2>1, <2>2, MirrorOneToOne
    <2>4. CanLand(m, getMirrorLoc(my), getMirrorLoc(loc))
      BY <2>1, MirrorLands
    <2>5. StepsTo(m, pla, e, getMirrorLoc(loc))
      BY <1>3, <1>4, <2>1, <2>3, <2>4 DEF StepsTo
    <2> QED BY <2>5 DEF e
  <1>6. CASE JumpsTo(b, pla, d, loc)
    <2>1. /\ Plus(my, Dirs[d]) = opp /\ canPawnStep(b.colors, my, opp)
          /\ IF CanLand(b, opp, Straight(my, d)) THEN loc = Straight(my, d)
             ELSE (loc = Diagonal(my, d, 1) \/ loc = Diagonal(my, d, 2)) /\ CanLand(b, opp, loc)
      BY <1>6 DEF JumpsTo, my, opp
    <2>2. Plus(getMirrorLoc(my), Dirs[e]) = getMirrorLoc(opp)
      BY <1>4, <2>1
    <2>3. canPawnStep(m.colors, getMirrorLoc(my), getMirrorLoc(opp))
      <3>1. Edge(b.colors, {}, my, opp)
        BY <2>1 DEF Edge
      <3>2. Edge(m.colors, MirrorSet({}), getMirrorLoc(my), getMirrorLoc(opp))
        BY <3>1, MirrorEdges
      <3> QED BY <3>2 DEF Edge
    <2>4. CanLand(m, getMirrorLoc(opp), Straight(getMirrorLoc(my), e)) <=> CanLand(b, opp, Straight(my, d))
      <3>1. ASSUME CanLand(b, opp, Straight(my, d))
            PROVE  CanLand(m, getMirrorLoc(opp), Straight(getMirrorLoc(my), e))
        BY <1>4, <3>1, MirrorLands
      <3>2. ASSUME CanLand(m, getMirrorLoc(opp), Straight(getMirrorLoc(my), e))
            PROVE  CanLand(b, opp, Straight(my, d))
        <4>1. Twins(m, b)
          BY TwinsBack
        <4>2. CanLand(b, getMirrorLoc(getMirrorLoc(opp)), getMirrorLoc(getMirrorLoc(Straight(my, d))))
          BY <1>4, <3>2, <4>1, MirrorLands
        <4>3. getMirrorLoc(getMirrorLoc(opp)) = opp
          BY <1>2, MirrorLoc
        <4> QED BY <1>4, <4>2, <4>3
      <3> QED BY <3>1, <3>2
    <2>5. CASE CanLand(b, opp, Straight(my, d))
      <3>1. JumpsTo(m, pla, e, getMirrorLoc(loc))
        BY <1>3, <1>4, <2>1, <2>2, <2>3, <2>4, <2>5 DEF JumpsTo
      <3> QED BY <3>1 DEF e
    <2>6. CASE ~CanLand(b, opp, Straight(my, d))
      <3>1. CanLand(m, getMirrorLoc(opp), getMirrorLoc(loc))
        BY <2>1, <2>6, MirrorLands
      <3>2. \/ getMirrorLoc(loc) = Diagonal(getMirrorLoc(my), e, 1)
            \/ getMirrorLoc(loc) = Diagonal(getMirrorLoc(my), e, 2)
        BY <1>4, <2>1, <2>6
      <3>3. JumpsTo(m, pla, e, getMirrorLoc(loc))
        BY <1>3, <2>2, <2>3, <2>4, <2>6, <3>1, <3>2 DEF JumpsTo
      <3> QED BY <3>3 DEF e
    <2> QED BY <2>5, <2>6
  <1> QED BY <1>5, <1>6

(* So a legal pawn move is legal in the mirror, *)
LEMMA MirrorPawnMove ==
  ASSUME NEW b, NEW m, Twins(b, m), NEW pla \in Players, NEW loc, isLegalPawnMove(b, loc, pla)
  PROVE  isLegalPawnMove(m, getMirrorLoc(loc), pla)
  <1>1. BoardTyped(b) /\ BoardTyped(m)
    BY DEF Twins
  <1>2. PICK d \in 1 .. 4 : StepsTo(b, pla, d, loc) \/ JumpsTo(b, pla, d, loc)
    BY <1>1, PredicateAllows
  <1>3. \/ StepsTo(m, pla, MirrorDir(d), getMirrorLoc(loc))
        \/ JumpsTo(m, pla, MirrorDir(d), getMirrorLoc(loc))
    BY <1>2, MirrorMoves
  <1>4. MirrorDir(d) \in 1 .. 4
    BY DEF MirrorDir
  <1> QED BY <1>1, <1>3, <1>4, PredicateAllows

-----------------------------------------------------------------------------
(* The mirror on the rules *)

(* Wall moves, mirrored. *)
LEMMA MirrorPlacement ==
  ASSUME NEW b, NEW m, Twins(b, m), PathsGood(b), PathsGood(m), NEW a, NEW v \in BOOLEAN, NEW pla \in Players,
         isLegalWallPlacement(b, a, v, pla)
  PROVE  isLegalWallPlacement(m, MirrorAnchor(a), v, pla)
  <1>1. /\ b.fences[pla] > 0 /\ a \in Anchors /\ NoOverlap(b, a, v)
        /\ checkNoFullBlockLazy(b, Arms(WallCenter(a), v))
    BY DEF isLegalWallPlacement, isGeometricallyLegalWallPlacement
  <1>2. /\ MirrorAnchor(a) \in Anchors
        /\ WallCells(MirrorAnchor(a), v) = MirrorSet(WallCells(a, v))
        /\ Arms(WallCenter(MirrorAnchor(a)), v) = MirrorSet(Arms(WallCenter(a), v))
        /\ Arms(WallCenter(a), v) \subseteq Locs /\ WallCells(a, v) \subseteq Locs
    BY <1>1, MirrorWall
  <1>3. NoOverlap(m, MirrorAnchor(a), v)
    <2>1. ASSUME NEW cell \in MirrorSet(WallCells(a, v))
          PROVE  m.colors[cell] = C_EMPTY
      <3>1. PICK loc \in WallCells(a, v) : cell = getMirrorLoc(loc)
        BY DEF MirrorSet
      <3>2. loc \in Locs /\ b.colors[loc] = C_EMPTY
        BY <1>1, <1>2, <3>1 DEF NoOverlap
      <3> QED BY <3>1, <3>2 DEF Twins
    <2> QED BY <1>2, <2>1 DEF NoOverlap
  <1>4. BoardTyped(b) /\ BoardTyped(m)
    BY DEF Twins
  <1>5. \A p \in Players : CanReach(b.colors, Arms(WallCenter(a), v), b.pawn[p], GoalRow(p))
    BY <1>1, <1>4, LazyCheckIsRule
  <1>6. ASSUME NEW p \in Players
        PROVE  CanReach(m.colors, MirrorSet(Arms(WallCenter(a), v)), m.pawn[p], GoalRow(p))
    <2>1. b.pawn[p] \in PawnLocs /\ m.pawn[p] = getMirrorLoc(b.pawn[p])
      BY DEF Twins, BoardTyped
    <2> QED BY <1>2, <1>5, <2>1, MirrorReaches
  <1>7. checkNoFullBlockLazy(m, Arms(WallCenter(MirrorAnchor(a)), v))
    BY <1>2, <1>4, <1>6, LazyCheckIsRule
  <1>8. m.fences[pla] > 0
    BY <1>1 DEF Twins
  <1> QED BY <1>2, <1>3, <1>7, <1>8 DEF isLegalWallPlacement, isGeometricallyLegalWallPlacement

(* The anchor that is read off a mirrored wall location is the mirrored *)
(* anchor.                                                              *)
LEMMA MirrorAnchorOf ==
  ASSUME NEW loc \in Locs, loc[1] % 2 = 1
  PROVE  AnchorOf(getMirrorLoc(loc)) = MirrorAnchor(AnchorOf(loc))
  <1>1. N \in Nat /\ size - 1 = 2 * (N - 1) /\ size \in Nat
    BY BoardSizeAssumption DEF size
  <1>2. PICK x \in 0 .. size - 1, y \in 0 .. size - 1 : loc = <<x, y>>
    BY DEF Locs
  <1>3. x \in Nat /\ x % 2 = 1 /\ y \in Nat
    BY <1>1, <1>2
  <1>4. PICK k \in Nat : k = x \div 2 /\ x = 2 * k + 1
    <2>1. x \div 2 \in Nat /\ x = 2 * (x \div 2) + 1
      BY <1>3
    <2> QED BY <2>1
  <1>5. getMirrorLoc(loc) = <<2 * (N - 1) - x, y>> /\ AnchorOf(loc) = <<k, y \div 2>>
    BY <1>1, <1>2, <1>4 DEF getMirrorLoc, AnchorOf
  <1>6. (2 * (N - 1) - x) \div 2 = N - 2 - k
    <2>1. 2 * (N - 1) - x = 2 * (N - 2 - k) + 1
      BY <1>1, <1>4
    <2>2. (2 * (N - 2 - k) + 1) \div 2 = N - 2 - k
      BY <1>1
    <2> QED BY <2>1, <2>2
  <1> QED BY <1>5, <1>6 DEF AnchorOf, MirrorAnchor

(* A legal move is legal in the mirror... *)
LEMMA MirrorLegal ==
  ASSUME NEW b, NEW m, Twins(b, m), PathsGood(b), PathsGood(m), NEW pla \in Players, NEW loc,
         isLegal(b, loc, pla)
  PROVE  isLegal(m, getMirrorLoc(loc), pla)
  <1> DEFINE mu == getMirrorLoc(loc)
  <1>1. loc \in Locs /\ b.colors[loc] = C_EMPTY
    BY DEF isLegal
  <1>2. /\ mu \in Locs /\ m.colors[mu] = C_EMPTY
        /\ mu[1] % 2 = loc[1] % 2 /\ mu[2] = loc[2] /\ (loc \in PawnLocs => mu \in PawnLocs)
    BY <1>1, MirrorLoc DEF Twins
  <1>3. loc[1] % 2 = 1 => AnchorOf(mu) = MirrorAnchor(AnchorOf(loc))
    BY <1>1, MirrorAnchorOf
  <1> HIDE DEF mu
  <1>4. CASE loc \in PawnLocs /\ isLegalPawnMove(b, loc, pla)
    <2>1. isLegalPawnMove(m, mu, pla)
      BY <1>4, MirrorPawnMove DEF mu
    <2>2. isLegal(m, mu, pla)
      BY <1>2, <1>4, <2>1 DEF isLegal
    <2> QED BY <2>2 DEF mu
  <1>5. CASE loc \in HWallLocs /\ isLegalWallPlacement(b, AnchorOf(loc), FALSE, pla)
    <2>1. mu \in HWallLocs /\ loc[1] % 2 = 1
      BY <1>2, <1>5 DEF HWallLocs
    <2>2. isLegalWallPlacement(m, MirrorAnchor(AnchorOf(loc)), FALSE, pla)
      BY <1>5, MirrorPlacement
    <2>3. isLegal(m, mu, pla)
      BY <1>2, <1>3, <2>1, <2>2 DEF isLegal
    <2> QED BY <2>3 DEF mu
  <1>6. CASE IsVWallLoc(loc) /\ isLegalWallPlacement(b, AnchorOf(loc), TRUE, pla)
    <2>1. IsVWallLoc(mu) /\ loc[1] % 2 = 1
      BY <1>2, <1>6 DEF IsVWallLoc
    <2>2. isLegalWallPlacement(m, MirrorAnchor(AnchorOf(loc)), TRUE, pla)
      BY <1>6, MirrorPlacement
    <2>3. isLegal(m, mu, pla)
      BY <1>2, <1>3, <2>1, <2>2 DEF isLegal
    <2> QED BY <2>3 DEF mu
  <1> QED BY <1>4, <1>5, <1>6 DEF isLegal

(* ...and, by symmetry, nothing else is. *)
LEMMA MirrorLegalMoves ==
  ASSUME NEW b, NEW m, Twins(b, m), PathsGood(b), PathsGood(m), NEW pla \in Players
  PROVE  LegalMoves(m, pla) = {getMirrorLoc(loc) : loc \in LegalMoves(b, pla)}
  <1>1. ASSUME NEW loc \in LegalMoves(b, pla)
        PROVE  getMirrorLoc(loc) \in LegalMoves(m, pla)
    BY MirrorLegal, MirrorLoc DEF LegalMoves
  <1>2. ASSUME NEW loc \in LegalMoves(m, pla)
        PROVE  getMirrorLoc(loc) \in LegalMoves(b, pla) /\ loc = getMirrorLoc(getMirrorLoc(loc))
    BY TwinsBack, MirrorLegal, MirrorLoc DEF LegalMoves
  <1> QED BY <1>1, <1>2

(* The walls of the mirrored board. *)
MirrorWallOf(w) == <<MirrorAnchor(w[1]), w[2]>>

(* Each wall of the mirrored board is the mirror image of a wall. *)
LEMMA MirrorWalls ==
  ASSUME NEW b, BoardTyped(b), NEW m,
         m.hWalls = {MirrorAnchor(a) : a \in b.hWalls}, m.vWalls = {MirrorAnchor(a) : a \in b.vWalls}
  PROVE  /\ Walls(m) = {MirrorWallOf(w) : w \in Walls(b)}
         /\ \A w \in Walls(b) : /\ w = <<w[1], w[2]>> /\ w[1] \in Anchors /\ w[2] \in BOOLEAN
                                /\ MirrorWallOf(w) = <<MirrorAnchor(w[1]), w[2]>>
                                /\ WallCells(w[1], w[2]) \subseteq Locs
                                /\ WallCells(MirrorWallOf(w)[1], MirrorWallOf(w)[2]) = MirrorSet(WallCells(w[1], w[2]))
  <1>1. Walls(b) = {<<a, FALSE>> : a \in b.hWalls} \cup {<<a, TRUE>> : a \in b.vWalls}
    BY DEF Walls
  <1>2. Walls(m) = {<<a, FALSE>> : a \in {MirrorAnchor(x) : x \in b.hWalls}}
                     \cup {<<a, TRUE>> : a \in {MirrorAnchor(x) : x \in b.vWalls}}
    BY DEF Walls
  <1>3. ASSUME NEW w \in Walls(b)
        PROVE  w = <<w[1], w[2]>> /\ w[1] \in Anchors /\ w[2] \in BOOLEAN
    <2>1. \/ \E a \in b.hWalls : w = <<a, FALSE>>
          \/ \E a \in b.vWalls : w = <<a, TRUE>>
      BY <1>1
    <2>2. PICK a, v : w = <<a, v>> /\ a \in Anchors /\ v \in BOOLEAN
      BY <2>1 DEF BoardTyped
    <2>3. w[1] = a /\ w[2] = v
      BY <2>2
    <2> QED BY <2>2, <2>3
  <1>4. Walls(m) = {MirrorWallOf(w) : w \in Walls(b)}
    <2>1. \A a \in b.hWalls : MirrorWallOf(<<a, FALSE>>) = <<MirrorAnchor(a), FALSE>> /\ <<a, FALSE>> \in Walls(b)
      BY <1>1 DEF MirrorWallOf
    <2>2. \A a \in b.vWalls : MirrorWallOf(<<a, TRUE>>) = <<MirrorAnchor(a), TRUE>> /\ <<a, TRUE>> \in Walls(b)
      BY <1>1 DEF MirrorWallOf
    <2>3. ASSUME NEW u \in Walls(m) PROVE \E w \in Walls(b) : u = MirrorWallOf(w)
      BY <1>2, <2>1, <2>2
    <2>4. ASSUME NEW w \in Walls(b) PROVE MirrorWallOf(w) \in Walls(m)
      <3>1. \/ \E a \in b.hWalls : w = <<a, FALSE>>
            \/ \E a \in b.vWalls : w = <<a, TRUE>>
        BY <1>1
      <3>2. CASE \E a \in b.hWalls : w = <<a, FALSE>>
        BY <1>2, <2>1, <3>2
      <3>3. CASE \E a \in b.vWalls : w = <<a, TRUE>>
        BY <1>2, <2>2, <3>3
      <3> QED BY <3>1, <3>2, <3>3
    <2> QED BY <2>3, <2>4
  <1>5. ASSUME NEW w \in Walls(b)
        PROVE  /\ MirrorWallOf(w) = <<MirrorAnchor(w[1]), w[2]>>
               /\ WallCells(w[1], w[2]) \subseteq Locs
               /\ WallCells(MirrorWallOf(w)[1], MirrorWallOf(w)[2]) = MirrorSet(WallCells(w[1], w[2]))
    <2>1. MirrorWallOf(w) = <<MirrorAnchor(w[1]), w[2]>>
      BY DEF MirrorWallOf
    <2>2. WallCells(w[1], w[2]) \subseteq Locs /\ WallCells(MirrorAnchor(w[1]), w[2]) = MirrorSet(WallCells(w[1], w[2]))
      BY <1>3, MirrorWall
    <2>3. MirrorWallOf(w)[1] = MirrorAnchor(w[1]) /\ MirrorWallOf(w)[2] = w[2]
      BY <2>1
    <2> QED BY <2>1, <2>2, <2>3
  <1> QED BY <1>3, <1>4, <1>5

(* The mirrored board is consistent, and has no more walls. *)
LEMMA MirrorConsistent ==
  ASSUME NEW b, NEW m, Twins(b, m), Consistent(b),
         m.hWalls = {MirrorAnchor(a) : a \in b.hWalls}, m.vWalls = {MirrorAnchor(a) : a \in b.vWalls}
  PROVE  Consistent(m)
  <1>0. BoardTyped(b)
    BY DEF Twins
  <1>1. /\ Walls(m) = {MirrorWallOf(w) : w \in Walls(b)}
        /\ \A w \in Walls(b) : /\ w = <<w[1], w[2]>> /\ w[1] \in Anchors /\ w[2] \in BOOLEAN
                               /\ MirrorWallOf(w) = <<MirrorAnchor(w[1]), w[2]>>
                               /\ WallCells(w[1], w[2]) \subseteq Locs
                               /\ WallCells(MirrorWallOf(w)[1], MirrorWallOf(w)[2]) = MirrorSet(WallCells(w[1], w[2]))
    BY <1>0, MirrorWalls
  <1>2. ASSUME NEW loc \in Locs
        PROVE  m.colors[loc] = C_FENCE <=> loc \in FencedBy(m)
    <2>1. PICK o \in Locs : loc = getMirrorLoc(o)
      BY MirrorLoc
    <2>2. m.colors[loc] = b.colors[o]
      BY <2>1 DEF Twins
    <2>3. b.colors[o] = C_FENCE <=> \E w \in Walls(b) : o \in WallCells(w[1], w[2])
      BY DEF Consistent, FencedBy
    <2>4. \A w \in Walls(b) : o \in WallCells(w[1], w[2]) <=> loc \in MirrorSet(WallCells(w[1], w[2]))
      BY <1>1, <2>1, MirrorOneToOne
    <2>5. loc \in FencedBy(m) <=> \E u \in Walls(m) : loc \in WallCells(u[1], u[2])
      BY DEF FencedBy
    <2>6. (\E u \in Walls(m) : loc \in WallCells(u[1], u[2]))
            <=> \E w \in Walls(b) : loc \in WallCells(MirrorWallOf(w)[1], MirrorWallOf(w)[2])
      BY <1>1
    <2> QED BY <1>1, <2>2, <2>3, <2>4, <2>5, <2>6
  <1>3. ASSUME NEW u1 \in Walls(m), NEW u2 \in Walls(m), u1 # u2
        PROVE  WallCells(u1[1], u1[2]) \cap WallCells(u2[1], u2[2]) = {}
    <2>1. PICK w1 \in Walls(b), w2 \in Walls(b) : u1 = MirrorWallOf(w1) /\ u2 = MirrorWallOf(w2)
      BY <1>1
    <2>2. w1 # w2
      BY <1>3, <2>1
    <2>3. WallCells(w1[1], w1[2]) \cap WallCells(w2[1], w2[2]) = {}
      BY <2>2 DEF Consistent
    <2>4. MirrorSet(WallCells(w1[1], w1[2])) \cap MirrorSet(WallCells(w2[1], w2[2])) = {}
      BY <1>1, <2>3, MirrorOneToOne
    <2> QED BY <1>1, <2>1, <2>4
  <1>4. ASSUME NEW loc \in Locs, NEW pla \in Players
        PROVE  m.colors[loc] = pla <=> m.pawn[pla] = loc
    <2>1. PICK o \in Locs : loc = getMirrorLoc(o)
      BY MirrorLoc
    <2>2. m.colors[loc] = b.colors[o] /\ m.pawn[pla] = getMirrorLoc(b.pawn[pla]) /\ b.pawn[pla] \in Locs
      BY <2>1 DEF Twins, BoardTyped, PawnLocs
    <2>3. b.colors[o] = pla <=> b.pawn[pla] = o
      BY DEF Consistent
    <2> QED BY <2>1, <2>2, <2>3, MirrorOneToOne
  <1>5. Cardinality(Walls(m)) <= 2 * MAX_FENCE_NUM - m.fences[P_BLACK] - m.fences[P_WHITE]
    <2>1. IsFiniteSet(Walls(b))
      BY <1>0, WallsFinite
    <2> DEFINE f == [w \in Walls(b) |-> MirrorWallOf(w)]
    <2>2. f \in Surjection(Walls(b), Walls(m))
      BY <1>1 DEF Surjection
    <2> HIDE DEF f
    <2>3. Cardinality(Walls(m)) <= Cardinality(Walls(b)) /\ IsFiniteSet(Walls(m))
      BY <2>1, <2>2, FS_Surjection
    <2>4. Cardinality(Walls(m)) \in Nat /\ Cardinality(Walls(b)) \in Nat
      BY <2>1, <2>3, FS_CardinalityType
    <2>5. Cardinality(Walls(b)) <= 2 * MAX_FENCE_NUM - b.fences[P_BLACK] - b.fences[P_WHITE]
      BY DEF Consistent
    <2>6. /\ m.fences = b.fences /\ MAX_FENCE_NUM \in Nat
          /\ b.fences[P_BLACK] \in Nat /\ b.fences[P_WHITE] \in Nat
      BY <1>0, PlayersDistinct, FenceNumAssumption DEF Twins, BoardTyped
    <2> QED BY <2>3, <2>4, <2>5, <2>6
  <1> QED BY <1>2, <1>3, <1>4, <1>5 DEF Consistent

(* Mirroring a board, as the training data and the evaluation symmetry do, *)
(* gives a consistent board whose legal moves are the mirrored ones, on a  *)
(* board of any size, whatever walls stand on it.                          *)
THEOREM MirrorKeepsRules == Spec => []MirrorIsSymmetry
  <1>1. IInv /\ PathInv => MirrorIsSymmetry
    <2> SUFFICES ASSUME IInv, PathInv, NEW m, m = getMirroredX(board)
                 PROVE  /\ Consistent(m)
                        /\ \A pla \in Players :
                             LegalMoves(m, pla) = {getMirrorLoc(loc) : loc \in LegalMoves(board, pla)}
      BY DEF MirrorIsSymmetry
    <2>1. BoardTyped(board) /\ Consistent(board) /\ PathsGood(board)
      BY DEF IInv, PathInv
    <2>2. /\ Twins(board, m)
          /\ m.hWalls = {MirrorAnchor(a) : a \in board.hWalls} /\ m.vWalls = {MirrorAnchor(a) : a \in board.vWalls}
          /\ m.path = [pla \in Players |-> shortestPath(m.colors, m.pawn[pla], pla)]
      BY <2>1, MirrorEffect
    <2>3. Consistent(m)
      BY <2>1, <2>2, MirrorConsistent
    <2>4. PathsGood(m)
      BY <2>1, <2>2, MirrorPaths
    <2> QED BY <2>1, <2>2, <2>3, <2>4, MirrorLegalMoves
  <1> QED BY <1>1, InvOfSpec, PathsOfSpec, PTL

-----------------------------------------------------------------------------
(* Hashes as sets of keys *)

(* Hashes are sets of keys and XOR their symmetric difference. *)
LEMMA SymDiffIs ==
  ASSUME NEW A, NEW B, NEW x
  PROVE  x \in SymDiff(A, B) <=> (x \in A <=> x \notin B)
  BY DEF SymDiff

(* The keys of a position. *)
IsKeyOf(x, b) ==
  \/ \E p \in Players : x = <<"board", b.pawn[p], p>>
  \/ \E p \in Players : x = <<"fences", b.fences[p], p>>
  \/ \E l \in Locs : b.colors[l] = C_FENCE /\ x = <<"board", l, C_FENCE>>
(* The keys in the hash of a position. *)
LEMMA HashMembers ==
  ASSUME NEW b, NEW x
  PROVE  x \in HashFromScratch(b) <=> IsKeyOf(x, b)
  <1>1. \A l : \A p \in Players : BoardKey(l, p) = {<<"board", l, p>>}
    BY PlayersDistinct DEF BoardKey
  <1>2. \A l : BoardKey(l, C_FENCE) = {<<"board", l, C_FENCE>>}
    BY PlayersDistinct DEF BoardKey
  <1>3. x \in UNION {BoardKey(b.pawn[p], p) : p \in Players} <=> \E p \in Players : x = <<"board", b.pawn[p], p>>
    BY <1>1
  <1>4. x \in UNION {FenceNumKey(b.fences[p], p) : p \in Players}
          <=> \E p \in Players : x = <<"fences", b.fences[p], p>>
    BY DEF FenceNumKey
  <1>5. x \in UNION {BoardKey(l, C_FENCE) : l \in {k \in Locs : b.colors[k] = C_FENCE}}
          <=> \E l \in Locs : b.colors[l] = C_FENCE /\ x = <<"board", l, C_FENCE>>
    BY <1>2
  <1> QED BY <1>3, <1>4, <1>5 DEF HashFromScratch, IsKeyOf

(* Keys of different things are different. *)
LEMMA KeysApart ==
  /\ \A a, p, c, q : <<"board", a, p>> = <<"board", c, q>> => a = c /\ p = q
  /\ \A a, p, c, q : <<"fences", a, p>> = <<"fences", c, q>> => a = c /\ p = q
  /\ \A a, p, c, q : <<"board", a, p>> # <<"fences", c, q>>
  OBVIOUS

(* The hash is of the position alone. *)
LEMMA HashOfCore ==
  ASSUME NEW b, NEW c, Core(b) = Core(c)
  PROVE  HashFromScratch(b) = HashFromScratch(c)
  BY DEF Core, HashFromScratch

(* A pawn's move exchanges its key. *)
LEMMA MovedHashIs ==
  ASSUME NEW b, BoardTyped(b), Consistent(b), b.hash = HashFromScratch(b),
         NEW loc \in PawnLocs, NEW pla \in Players, b.colors[loc] = C_EMPTY, NEW x
  PROVE  x \in MovedHash(b, loc, pla)
           <=> x = <<"board", loc, pla>> \/ (x \in b.hash /\ x # <<"board", b.pawn[pla], pla>>)
  <1> DEFINE from == b.pawn[pla]
             k1 == <<"board", from, pla>>
             k2 == <<"board", loc, pla>>
  <1>1. from \in PawnLocs /\ from \in Locs /\ loc \in Locs /\ b.colors \in [Locs -> Colors]
    BY DEF BoardTyped, PawnLocs
  <1>2. b.colors[from] = pla /\ from # loc
    BY <1>1, PlayersDistinct DEF Consistent
  <1>3. [b.colors EXCEPT ![from] = C_EMPTY][loc] = C_EMPTY
    BY <1>1, <1>2
  <1>4. BoardKey(from, pla) = {k1} /\ BoardKey(loc, pla) = {k2} /\ \A l : BoardKey(l, C_EMPTY) = {}
    BY PlayersDistinct DEF BoardKey
  <1>5. MovedHash(b, loc, pla) = SymDiff(SymDiff(SymDiff(SymDiff(b.hash, {k1}), {}), {}), {k2})
    BY <1>2, <1>3, <1>4 DEF MovedHash, StoneHash
  <1>6. k1 # k2
    BY <1>2, KeysApart
  <1>7. k1 \in b.hash
    BY HashMembers DEF IsKeyOf
  <1>8. k2 \notin b.hash
    <2>1. \A p \in Players : b.pawn[p] = loc => p # pla
      BY <1>2
    <2> QED BY <2>1, HashMembers, KeysApart, PlayersDistinct DEF IsKeyOf
  <1> HIDE DEF from, k1, k2
  <1>9. x \in MovedHash(b, loc, pla) <=> x = k2 \/ (x \in b.hash /\ x # k1)
    BY <1>5, <1>6, <1>7, <1>8, SymDiffIs
  <1> QED BY <1>9 DEF from, k1, k2

(* A pawn's move makes the hash that of the new position. *)
LEMMA MovedHashFresh ==
  ASSUME NEW b, BoardTyped(b), Consistent(b), b.hash = HashFromScratch(b),
         NEW loc \in PawnLocs, NEW pla \in Players, b.colors[loc] = C_EMPTY,
         NEW c, c.colors = MovedColors(b, loc, pla), c.pawn = [b.pawn EXCEPT ![pla] = loc],
         c.fences = b.fences, c.hash = MovedHash(b, loc, pla)
  PROVE  c.hash = HashFromScratch(c)
  <1>1. b.pawn \in [Players -> PawnLocs] /\ b.colors \in [Locs -> Colors] /\ b.pawn[pla] \in Locs /\ loc \in Locs
    BY DEF BoardTyped, PawnLocs
  <1>2. b.colors[b.pawn[pla]] = pla /\ b.pawn[pla] # loc
    BY <1>1, PlayersDistinct DEF Consistent
  <1>3. \A l \in Locs : c.colors[l] = C_FENCE <=> b.colors[l] = C_FENCE
    BY <1>1, <1>2, PlayersDistinct DEF MovedColors
  <1>4. \A p \in Players : c.pawn[p] = IF p = pla THEN loc ELSE b.pawn[p]
    BY <1>1
  <1>5. ASSUME NEW x
        PROVE  x \in HashFromScratch(c)
                 <=> x = <<"board", loc, pla>> \/ (x \in HashFromScratch(b) /\ x # <<"board", b.pawn[pla], pla>>)
    <2>1. \A l \in Locs : <<"board", l, C_FENCE>> # <<"board", b.pawn[pla], pla>>
      BY KeysApart, PlayersDistinct
    <2>2. \A n, p : <<"fences", n, p>> # <<"board", b.pawn[pla], pla>>
      OBVIOUS
    <2>3. \A p \in Players : p # pla => <<"board", b.pawn[p], p>> # <<"board", b.pawn[pla], pla>>
      BY KeysApart
    <2>4. (\E p \in Players : x = <<"board", c.pawn[p], p>>)
            <=> x = <<"board", loc, pla>>
                \/ \E p \in Players : x = <<"board", b.pawn[p], p>> /\ x # <<"board", b.pawn[pla], pla>>
      BY <1>4, <2>3
    <2>5. (\E l \in Locs : c.colors[l] = C_FENCE /\ x = <<"board", l, C_FENCE>>)
            <=> \E l \in Locs : b.colors[l] = C_FENCE /\ x = <<"board", l, C_FENCE>>
      BY <1>3
    <2>6. x \in HashFromScratch(c)
            <=> \/ \E p \in Players : x = <<"board", c.pawn[p], p>>
                \/ \E p \in Players : x = <<"fences", c.fences[p], p>>
                \/ \E l \in Locs : c.colors[l] = C_FENCE /\ x = <<"board", l, C_FENCE>>
      <3>1. x \in HashFromScratch(c) <=> IsKeyOf(x, c)
        BY HashMembers
      <3> QED BY <3>1 DEF IsKeyOf
    <2>7. x \in HashFromScratch(b)
            <=> \/ \E p \in Players : x = <<"board", b.pawn[p], p>>
                \/ \E p \in Players : x = <<"fences", b.fences[p], p>>
                \/ \E l \in Locs : b.colors[l] = C_FENCE /\ x = <<"board", l, C_FENCE>>
      BY HashMembers DEF IsKeyOf
    <2>8. (\E p \in Players : x = <<"fences", c.fences[p], p>>) <=> \E p \in Players : x = <<"fences", b.fences[p], p>>
      OBVIOUS
    <2>9. /\ \A p \in Players : x = <<"fences", b.fences[p], p>> => x # <<"board", b.pawn[pla], pla>>
          /\ \A l \in Locs : x = <<"board", l, C_FENCE>> => x # <<"board", b.pawn[pla], pla>>
      BY <2>1, <2>2
    <2> DEFINE W == \E l \in Locs : b.colors[l] = C_FENCE /\ x = <<"board", l, C_FENCE>>
               F == \E p \in Players : x = <<"fences", b.fences[p], p>>
               k1 == <<"board", b.pawn[pla], pla>>
               k2 == <<"board", loc, pla>>
    <2>10. x \in HashFromScratch(c) <=> (x = k2 \/ \E p \in Players : x = <<"board", b.pawn[p], p>> /\ x # k1) \/ F \/ W
      BY <2>4, <2>5, <2>6, <2>8
    <2>11. x \in HashFromScratch(b) <=> (\E p \in Players : x = <<"board", b.pawn[p], p>>) \/ F \/ W
      BY <2>7
    <2>12. (F => x # k1) /\ (W => x # k1)
      BY <2>9
    <2> HIDE DEF W, F, k1, k2
    <2>13. x \in HashFromScratch(c) <=> x = k2 \/ (x \in HashFromScratch(b) /\ x # k1)
      BY <2>10, <2>11, <2>12
    <2> QED BY <2>13 DEF k1, k2
  <1>6. \A x : x \in c.hash <=> x \in HashFromScratch(c)
    BY <1>5, MovedHashIs
  <1> QED BY <1>6 DEF HashFromScratch, MovedHash, StoneHash, SymDiff

(* A wall adds its cells and exchanges the mover's count. *)
LEMMA WalledHashFresh ==
  ASSUME NEW b, BoardTyped(b), b.hash = HashFromScratch(b),
         NEW a \in Anchors, NEW v \in BOOLEAN, NEW pla \in Players, b.fences[pla] > 0, NoOverlap(b, a, v),
         NEW c, c.colors = WalledColors(b, a, v), c.pawn = b.pawn,
         c.fences = [b.fences EXCEPT ![pla] = b.fences[pla] - 1], c.hash = WalledHash(b, a, v, pla)
  PROVE  c.hash = HashFromScratch(c)
  <1> DEFINE cells == WallCells(a, v)
             K == {<<"board", l, C_FENCE>> : l \in cells}
             n == b.fences[pla]
             f1 == <<"fences", n, pla>>
             f2 == <<"fences", n - 1, pla>>
  <1>1. cells \subseteq Locs /\ \A l \in cells : b.colors[l] = C_EMPTY
    BY WallCellsOffPawns DEF NoOverlap
  <1>2. n \in Nat /\ n - 1 # n /\ b.fences \in [Players -> 0 .. MAX_FENCE_NUM]
    BY FenceNumAssumption DEF BoardTyped
  <1>3. c.hash = SymDiff(SymDiff(SymDiff(b.hash, K), {f1}), {f2})
    <2>1. UNION {BoardKey(l, C_FENCE) : l \in cells} = K
      BY PlayersDistinct DEF BoardKey
    <2> QED BY <2>1 DEF WalledHash, FenceNumKey
  <1>4. \A l \in Locs : c.colors[l] = C_FENCE <=> l \in cells \/ b.colors[l] = C_FENCE
    BY DEF WalledColors
  <1>5. \A p \in Players : c.fences[p] = IF p = pla THEN n - 1 ELSE b.fences[p]
    BY <1>2
  <1>6. f1 \in b.hash /\ f2 \notin b.hash /\ f1 # f2 /\ f1 \notin K /\ f2 \notin K
    <2>1. f1 \in b.hash
      BY HashMembers DEF IsKeyOf
    <2>2. f2 \notin b.hash
      BY <1>2, HashMembers, KeysApart DEF IsKeyOf
    <2> QED BY <1>2, <2>1, <2>2, KeysApart
  <1>7. \A k \in K : k \notin b.hash
    <2>1. \A l \in cells : b.colors[l] # C_FENCE
      BY <1>1, PlayersDistinct
    <2> QED BY <2>1, HashMembers, KeysApart, PlayersDistinct DEF IsKeyOf
  <1>8. ASSUME NEW x
        PROVE  x \in HashFromScratch(c) <=> x \in K \/ x = f2 \/ (x \in b.hash /\ x # f1)
    <2>1. (\E p \in Players : x = <<"fences", c.fences[p], p>>)
            <=> x = f2 \/ \E p \in Players : x = <<"fences", b.fences[p], p>> /\ x # f1
      BY <1>5, KeysApart
    <2>2. (\E l \in Locs : c.colors[l] = C_FENCE /\ x = <<"board", l, C_FENCE>>)
            <=> x \in K \/ \E l \in Locs : b.colors[l] = C_FENCE /\ x = <<"board", l, C_FENCE>>
      BY <1>1, <1>4
    <2>3. \A l, p : <<"board", l, p>> # f1
      OBVIOUS
    <2>4. x \in HashFromScratch(c)
            <=> \/ \E p \in Players : x = <<"board", b.pawn[p], p>>
                \/ \E p \in Players : x = <<"fences", c.fences[p], p>>
                \/ \E l \in Locs : c.colors[l] = C_FENCE /\ x = <<"board", l, C_FENCE>>
      <3>1. x \in HashFromScratch(c)
              <=> \/ \E p \in Players : x = <<"board", c.pawn[p], p>>
                  \/ \E p \in Players : x = <<"fences", c.fences[p], p>>
                  \/ \E l \in Locs : c.colors[l] = C_FENCE /\ x = <<"board", l, C_FENCE>>
        <4>1. x \in HashFromScratch(c) <=> IsKeyOf(x, c)
          BY HashMembers
        <4> QED BY <4>1 DEF IsKeyOf
      <3>2. (\E p \in Players : x = <<"board", c.pawn[p], p>>) <=> \E p \in Players : x = <<"board", b.pawn[p], p>>
        OBVIOUS
      <3> QED BY <3>1, <3>2
    <2>5. x \in b.hash
            <=> \/ \E p \in Players : x = <<"board", b.pawn[p], p>>
                \/ \E p \in Players : x = <<"fences", b.fences[p], p>>
                \/ \E l \in Locs : b.colors[l] = C_FENCE /\ x = <<"board", l, C_FENCE>>
      BY HashMembers DEF IsKeyOf
    <2> HIDE DEF K, f1, f2
    <2> QED BY <2>1, <2>2, <2>3, <2>4, <2>5
  <1> HIDE DEF K, f1, f2, n, cells
  <1>9. \A x : x \in c.hash <=> x \in K \/ x = f2 \/ (x \in b.hash /\ x # f1)
    BY <1>3, <1>6, <1>7, SymDiffIs
  <1>10. \A x : x \in c.hash <=> x \in HashFromScratch(c)
    BY <1>8, <1>9
  <1> QED BY <1>3, <1>10 DEF HashFromScratch, SymDiff

-----------------------------------------------------------------------------
(* The hash of a position, and of the position after a pawn's move *)

(* A new board has the hash of its position, whatever the handicap. *)
LEMMA NewBoardHash ==
  ASSUME NEW fences \in [Players -> 0 .. MAX_FENCE_NUM],
         NEW b, b = setFencesLeft(initialBoard, fences)
  PROVE  b.hash = HashFromScratch(b)
  <1> DEFINE pawn == [pla \in Players |-> InitialPawn(pla)]
             colors == [loc \in Locs |-> IF \E pla \in Players : pawn[pla] = loc
                                         THEN CHOOSE pla \in Players : pawn[pla] = loc
                                         ELSE C_EMPTY]
             path == [pla \in Players |-> shortestPath(colors, pawn[pla], pla)]
             full == [pla \in Players |-> MAX_FENCE_NUM]
             plain == [colors |-> colors, pawn |-> pawn, fences |-> full,
                       hWalls |-> {}, vWalls |-> {}, movenum |-> 0, hash |-> {}, path |-> path]
             hash0 == HashFromScratch(plain)
             start == [plain EXCEPT !.hash = hash0]
             Keys(f) == {<<"fences", f[p], p>> : p \in Players}
  <1>1. initialBoard = start
    BY Zenon DEF initialBoard
  <1> HIDE DEF colors, pawn, path, full, hash0
  <1>2. IsRecord(start) /\ start.colors = colors /\ start.pawn = pawn /\ start.fences = full /\ start.hash = hash0
    BY DEF IsRecord, Fields
  <1>3. plain.colors = colors /\ plain.pawn = pawn /\ plain.fences = full
    OBVIOUS
  <1> HIDE DEF start, plain
  <1>4. /\ b.colors = colors /\ b.pawn = pawn /\ b.fences = fences
        /\ b.hash = SymDiff(SymDiff(hash0, Keys(full)), Keys(fences))
    <2> DEFINE hash == SymDiff(SymDiff(start.hash,
                                  UNION {FenceNumKey(start.fences[pla], pla) : pla \in Players}),
                         UNION {FenceNumKey(fences[pla], pla) : pla \in Players})
               r == [start EXCEPT !.fences = fences, !.hash = hash]
    <2>1. b = r
      BY <1>1, <1>2 DEF setFencesLeft, IsRecord, Fields
    <2>2. /\ UNION {FenceNumKey(start.fences[pla], pla) : pla \in Players} = Keys(full)
          /\ UNION {FenceNumKey(fences[pla], pla) : pla \in Players} = Keys(fences)
      BY <1>2 DEF FenceNumKey
    <2>3. hash = SymDiff(SymDiff(hash0, Keys(full)), Keys(fences))
      BY <1>2, <2>2
    <2> HIDE DEF hash, Keys
    <2>4. r.colors = colors /\ r.pawn = pawn /\ r.fences = fences /\ r.hash = hash
      BY <1>2 DEF IsRecord, Fields
    <2> QED BY <2>1, <2>3, <2>4
  <1>5. ASSUME NEW x
        PROVE  x \in HashFromScratch(b) <=> x \in b.hash
    <2> DEFINE P == \/ \E p \in Players : x = <<"board", pawn[p], p>>
                    \/ \E l \in Locs : colors[l] = C_FENCE /\ x = <<"board", l, C_FENCE>>
    <2>1. x \in HashFromScratch(b) <=> IsKeyOf(x, b)
      BY HashMembers
    <2>2. x \in hash0 <=> IsKeyOf(x, plain)
      BY HashMembers DEF hash0
    <2>3. IsKeyOf(x, b) <=> P \/ x \in Keys(fences)
      BY <1>4 DEF IsKeyOf
    <2>4. IsKeyOf(x, plain) <=> P \/ x \in Keys(full)
      BY <1>3 DEF IsKeyOf
    <2>5. P => x \notin Keys(full) /\ x \notin Keys(fences)
      BY KeysApart
    <2>6. x \in b.hash <=> (x \in SymDiff(hash0, Keys(full)) <=> x \notin Keys(fences))
      BY <1>4, SymDiffIs
    <2>7. x \in SymDiff(hash0, Keys(full)) <=> (x \in hash0 <=> x \notin Keys(full))
      BY SymDiffIs
    <2> HIDE DEF P, Keys
    <2> QED BY <2>1, <2>2, <2>3, <2>4, <2>5, <2>6, <2>7
  <1> QED BY <1>4, <1>5 DEF HashFromScratch, SymDiff

(* A legal move keeps the hash that of the position. *)
LEMMA PlayKeepsHash ==
  ASSUME NEW b, BoardTyped(b), Consistent(b), b.hash = HashFromScratch(b),
         NEW loc \in Locs, NEW pla \in Players, isLegal(b, loc, pla),
         NEW c, c = playMoveAssumeLegal(b, loc, pla)
  PROVE  c.hash = HashFromScratch(c)
  <1>1. CASE loc \in PawnLocs
    <2>1. b.colors[loc] = C_EMPTY
      BY DEF isLegal
    <2>2. /\ c.colors = MovedColors(b, loc, pla) /\ c.pawn = [b.pawn EXCEPT ![pla] = loc]
          /\ c.fences = b.fences /\ c.hash = MovedHash(b, loc, pla)
      BY <1>1, PlayedPawn
    <2> QED BY <1>1, <2>1, <2>2, MovedHashFresh
  <1>2. CASE loc \notin PawnLocs
    <2>1. PICK v \in BOOLEAN : /\ IsVWallLoc(loc) = v
                               /\ AnchorOf(loc) \in Anchors /\ b.fences[pla] > 0
                               /\ NoOverlap(b, AnchorOf(loc), v)
      BY <1>2, WallMoveLegal
    <2>2. /\ c.colors = WalledColors(b, AnchorOf(loc), v) /\ c.pawn = b.pawn
          /\ c.fences = [b.fences EXCEPT ![pla] = b.fences[pla] - 1]
          /\ c.hash = WalledHash(b, AnchorOf(loc), v, pla)
      BY <1>2, <2>1, PlayedWall
    <2> QED BY <2>1, <2>2, WalledHashFresh
  <1> QED BY <1>1, <1>2

(* The third invariant: the hash is that of the position, on the board and *)
(* on the boards that undo will return to.                                 *)
HashInv ==
  /\ board.hash = HashFromScratch(board)
  /\ \A i \in 1 .. Len(records) : records[i].before.hash = HashFromScratch(records[i].before)

(* HashInv is inductive relative to IInv. *)
LEMMA InitHash == Init => HashInv
  <1> SUFFICES ASSUME Init PROVE HashInv
    OBVIOUS
  <1>1. board.hash = HashFromScratch(board)
    BY NewBoardHash, HandicapsAssumption DEF Init
  <1>2. Len(records) = 0 /\ 1 .. 0 = {}
    BY DEF Init
  <1> QED BY <1>1, <1>2 DEF HashInv

(* Every move and every undo keeps it. *)
LEMMA NextHash == IInv /\ HashInv /\ [Next]_vars => HashInv'
  <1> SUFFICES ASSUME IInv, HashInv, [Next]_vars PROVE HashInv'
    OBVIOUS
  <1> DEFINE n == Len(records)
             S == {records[i] : i \in DOMAIN records}
  <1>0. records \in Seq(S) /\ n \in Nat /\ BoardTyped(board) /\ Consistent(board)
    BY DEF IInv
  <1>1. ASSUME NEW loc \in Locs, NEW pla \in Players, playMove(loc, pla)
        PROVE  HashInv'
    <2>1. board'.hash = HashFromScratch(board')
      BY <1>0, <1>1, PlayKeepsHash DEF HashInv, playMove
    <2>2. Len(records') = 0 /\ 1 .. 0 = {}
      BY <1>1 DEF playMove
    <2> QED BY <2>1, <2>2 DEF HashInv
  <1>2. ASSUME NEW loc \in Locs, NEW pla \in Players, playMoveRecorded(loc, pla)
        PROVE  HashInv'
    <2> DEFINE e == [record |-> MoveRecord(board, loc, pla), before |-> board]
    <2>1. board'.hash = HashFromScratch(board')
      BY <1>0, <1>2, PlayKeepsHash DEF HashInv, playMoveRecorded
    <2>2. records' = Append(records, e) /\ e.before = board
      BY <1>2 DEF playMoveRecorded
    <2> HIDE DEF e
    <2>3. /\ Len(records') = n + 1 /\ records'[n + 1] = e
          /\ \A i \in 1 .. n : records'[i] = records[i]
      BY <1>0, <2>2
    <2>4. ASSUME NEW i \in 1 .. n + 1 PROVE records'[i].before.hash = HashFromScratch(records'[i].before)
      BY <1>0, <2>2, <2>3 DEF HashInv
    <2> QED BY <2>1, <2>3, <2>4 DEF HashInv
  <1>3. ASSUME undoLast PROVE HashInv'
    <2>1. n # 0 /\ Last(records) = records[n] /\ n \in 1 .. n
      BY <1>0, <1>3 DEF undoLast, Last
    <2>2. Core(board') = Core(records[n].before) /\ board'.hash = records[n].before.hash
      BY <1>3, <2>1, UndoStep
    <2>3. board'.hash = HashFromScratch(board')
      BY <2>1, <2>2, HashOfCore DEF HashInv
    <2>4. records' = [i \in 1 .. n - 1 |-> records[i]]
      BY <1>3 DEF undoLast, Front
    <2>5. n - 1 \in Nat
      BY <1>0, <2>1
    <2>6. Len(records') = n - 1
      BY <2>4, <2>5
    <2>7. ASSUME NEW i \in 1 .. n - 1 PROVE records'[i].before.hash = HashFromScratch(records'[i].before)
      BY <1>0, <2>4, <2>5 DEF HashInv
    <2> QED BY <2>3, <2>6, <2>7 DEF HashInv
  <1>4. CASE UNCHANGED vars
    BY <1>4 DEF vars, HashInv
  <1> QED BY <1>1, <1>2, <1>3, <1>4 DEF Next

(* So it always holds. *)
LEMMA HashOfSpec == Spec => []HashInv
  <1>1. IInv /\ HashInv /\ [Next]_vars => HashInv'
    BY NextHash
  <1> QED BY <1>1, InitHash, InvOfSpec, PTL DEF Spec

(* The hash of the board after a pawn's move, whatever the move number. *)
IsStoned(b, loc, color, s) ==
  /\ IsRecord(s) /\ s.pawn = b.pawn
  /\ s.colors = [b.colors EXCEPT ![loc] = color]
  /\ s.hash = StoneHash(b.hash, loc, b.colors[loc], color)
(* Recoloring a cell changes colors and hash of a board. *)
LEMMA StoneOnRecord ==
  ASSUME NEW b, IsRecord(b), NEW loc, NEW color
  PROVE  IsStoned(b, loc, color, setStone(b, loc, color))
  <1> DEFINE hash == SymDiff(SymDiff(b.hash, BoardKey(loc, b.colors[loc])), BoardKey(loc, color))
             colors == [b.colors EXCEPT ![loc] = color]
             s == [b EXCEPT !.colors = colors, !.hash = hash]
  <1>1. setStone(b, loc, color) = s
    BY DEF setStone, IsRecord, Fields
  <1> HIDE DEF colors, hash
  <1>2. IsRecord(s) /\ s.colors = colors /\ s.pawn = b.pawn /\ s.hash = hash
    BY DEF IsRecord, Fields
  <1> QED BY <1>1, <1>2 DEF colors, hash, StoneHash, IsStoned

(* The hash after a pawn's move. *)
LEMMA HashAfterMove ==
  ASSUME NEW b, IsRecord(b), NEW loc \in PawnLocs, NEW pla \in Players
  PROVE  playMoveAssumeLegal(b, loc, pla).hash = MovedHash(b, loc, pla)
  <1> DEFINE d == [b EXCEPT !.movenum = @ + 1]
             lifted == setStone(d, d.pawn[pla], C_EMPTY)
             moved == setStone(lifted, loc, pla)
             path == shortestPath(moved.colors, loc, pla)
  <1>1. IsRecord(d) /\ d.colors = b.colors /\ d.pawn = b.pawn /\ d.hash = b.hash
    <2> DEFINE m == b.movenum + 1
    <2>1. d = [b EXCEPT !.movenum = m]
      BY DEF IsRecord, Fields
    <2> HIDE DEF m
    <2> QED BY <2>1 DEF IsRecord, Fields
  <1>2. playMoveAssumeLegal(b, loc, pla) = [moved EXCEPT !.pawn[pla] = loc, !.path[pla] = path]
    BY DEF playMoveAssumeLegal, MovePawn
  <1> HIDE DEF d
  <1>3. /\ IsRecord(lifted) /\ lifted.pawn = d.pawn /\ lifted.colors = [d.colors EXCEPT ![d.pawn[pla]] = C_EMPTY]
        /\ lifted.hash = StoneHash(d.hash, d.pawn[pla], d.colors[d.pawn[pla]], C_EMPTY)
    <2>1. IsStoned(d, d.pawn[pla], C_EMPTY, lifted)
      BY <1>1, StoneOnRecord
    <2> QED BY <2>1 DEF IsStoned
  <1> HIDE DEF lifted
  <1>4. IsRecord(moved) /\ moved.hash = StoneHash(lifted.hash, loc, lifted.colors[loc], pla)
    <2>1. IsStoned(lifted, loc, pla, moved)
      BY <1>3, StoneOnRecord
    <2> QED BY <2>1 DEF IsStoned
  <1> HIDE DEF moved, path
  <1>5. [moved EXCEPT !.pawn[pla] = loc, !.path[pla] = path].hash = moved.hash
    BY <1>4 DEF IsRecord, Fields
  <1> QED BY <1>1, <1>2, <1>3, <1>4, <1>5 DEF MovedHash

-----------------------------------------------------------------------------
(* The hash is never stale *)

(* XOR-ing five keys into a hash, one after another. *)
IsXors(g, base, keys) ==
  g = [s \in SUBSET DOMAIN keys |->
         IF s = {} THEN base ELSE SymDiff(g[s \ {Max(s)}], keys[Max(s)])]

(* The fold of XOR is a recursive function on sets of positions. *)
LEMMA XorsChosen ==
  ASSUME NEW base, NEW keys
  PROVE  FoldLeft(SymDiff, base, keys) = (CHOOSE g : IsXors(g, base, keys))[DOMAIN keys]
  BY DEF FoldLeft, MapThenFoldSet, IsXors

(* Five keys are XOR-ed in one after another. *)
LEMMA FiveXors ==
  ASSUME NEW U, NEW base \in SUBSET U, NEW keys \in Seq(SUBSET U), Len(keys) = 5
  PROVE  FoldLeft(SymDiff, base, keys)
           = SymDiff(SymDiff(SymDiff(SymDiff(SymDiff(base, keys[1]), keys[2]), keys[3]), keys[4]), keys[5])
  <1> DEFINE D == SUBSET U
             op == [x \in D \X (1 .. 5) |-> SymDiff(x[1], keys[x[2]])]
             h == CHOOSE g : IsXors(g, base, keys)
  <1>0. DOMAIN keys = 1 .. 5 /\ \A k \in 1 .. 5 : keys[k] \in D
    <2>1. DOMAIN keys = 1 .. 5
      OBVIOUS
    <2>2. ASSUME NEW k \in 1 .. 5 PROVE keys[k] \in SUBSET U
      BY <2>1, <2>2
    <2> QED BY <2>1, <2>2
  <1>1. op \in [D \X (1 .. 5) -> D]
    BY <1>0 DEF SymDiff
  <1>2. PICK g : IsFold(g, op, base, 5) /\ \A s \in SUBSET (1 .. 5) : g[s] \in D
    <2> HIDE DEF op
    <2>1. base \in D /\ 5 \in Nat
      OBVIOUS
    <2> HIDE DEF D
    <2> QED BY <1>1, <2>1, FoldExists
  <1>3. IsXors(g, base, keys)
    <2>1. ASSUME NEW s \in SUBSET (1 .. 5)
          PROVE  (IF s = {} THEN base ELSE op[<<g[s \ {Max(s)}], Max(s)>>])
                   = (IF s = {} THEN base ELSE SymDiff(g[s \ {Max(s)}], keys[Max(s)]))
      <3>1. CASE s # {}
        <4>1. Max(s) \in 1 .. 5 /\ s \ {Max(s)} \in SUBSET (1 .. 5)
          BY <3>1, MaxIn
        <4>2. g[s \ {Max(s)}] \in D
          BY <1>2, <4>1
        <4> HIDE DEF D
        <4>3. <<g[s \ {Max(s)}], Max(s)>> \in D \X (1 .. 5)
          BY <4>1, <4>2
        <4> QED BY <4>3
      <3> QED BY <3>1
    <2> HIDE DEF op, D
    <2> QED BY <1>0, <1>2, <2>1 DEF IsFold, IsXors
  <1>4. IsXors(h, base, keys)
    BY <1>3
  <1> HIDE DEF h
  <1>5. h[{}] = base
    BY <1>0, <1>4 DEF IsXors
  <1>6. ASSUME NEW k \in 0 .. 4 PROVE h[1 .. k + 1] = SymDiff(h[1 .. k], keys[k + 1])
    <2>1. 1 .. k + 1 \in SUBSET (1 .. 5) /\ 1 .. k + 1 # {} /\ k + 1 \in 1 .. k + 1 /\ k \in Nat
      <3>1. k \in Nat /\ k + 1 <= 5
        OBVIOUS
      <3>2. 1 .. k + 1 \in SUBSET (1 .. 5)
        BY <3>1
      <3>3. k + 1 \in 1 .. k + 1
        BY <3>1
      <3> QED BY <3>1, <3>2, <3>3
    <2>2. Max(1 .. k + 1) = k + 1
      BY <2>1, MaxOfNext
    <2>3. (1 .. k + 1) \ {k + 1} = 1 .. k
      OBVIOUS
    <2>4. h[1 .. k + 1] = SymDiff(h[(1 .. k + 1) \ {Max(1 .. k + 1)}], keys[Max(1 .. k + 1)])
      BY <1>0, <1>4, <2>1, Zenon DEF IsXors
    <2> QED BY <2>2, <2>3, <2>4
  <1>7. /\ h[1 .. 0] = base /\ h[1 .. 1] = SymDiff(h[1 .. 0], keys[1]) /\ h[1 .. 2] = SymDiff(h[1 .. 1], keys[2])
        /\ h[1 .. 3] = SymDiff(h[1 .. 2], keys[3]) /\ h[1 .. 4] = SymDiff(h[1 .. 3], keys[4])
        /\ h[1 .. 5] = SymDiff(h[1 .. 4], keys[5])
    <2>1. 1 .. 0 = {}
      OBVIOUS
    <2>2. 0 \in 0 .. 4 /\ 1 \in 0 .. 4 /\ 2 \in 0 .. 4 /\ 3 \in 0 .. 4 /\ 4 \in 0 .. 4
      OBVIOUS
    <2>3. 0 + 1 = 1 /\ 1 + 1 = 2 /\ 2 + 1 = 3 /\ 3 + 1 = 4 /\ 4 + 1 = 5
      OBVIOUS
    <2>4. /\ h[1 .. 0 + 1] = SymDiff(h[1 .. 0], keys[0 + 1]) /\ h[1 .. 1 + 1] = SymDiff(h[1 .. 1], keys[1 + 1])
          /\ h[1 .. 2 + 1] = SymDiff(h[1 .. 2], keys[2 + 1]) /\ h[1 .. 3 + 1] = SymDiff(h[1 .. 3], keys[3 + 1])
          /\ h[1 .. 4 + 1] = SymDiff(h[1 .. 4], keys[4 + 1])
      BY <1>6, <2>2, Zenon
    <2> QED BY <1>5, <2>1, <2>3, <2>4
  <1>8. FoldLeft(SymDiff, base, keys) = h[1 .. 5]
    BY <1>0, XorsChosen DEF h
  <1> QED BY <1>7, <1>8, Zenon

(* The hash that is foreseen before a pawn's move is that of the board after it. *)
LEMMA ForeseenHash ==
  ASSUME NEW b, BoardTyped(b), Consistent(b), NEW pla \in Players, NEW to \in PawnLocs, b.colors[to] = C_EMPTY
  PROVE  getSitHashAfterPawnMove(b, to, pla) = getSitHash(playMoveAssumeLegal(b, to, pla), getOpp(pla))
  <1> DEFINE from == b.pawn[pla]
             k1 == BoardKey(from, pla)
             k2 == BoardKey(from, C_EMPTY)
             k3 == BoardKey(to, C_EMPTY)
             k4 == BoardKey(to, pla)
             k5 == PlayerKey(getOpp(pla))
             keys == <<k1, k2, k3, k4, k5>>
             U == b.hash \cup k1 \cup k2 \cup k3 \cup k4 \cup k5
  <1>1. from \in Locs /\ to \in Locs /\ b.colors \in [Locs -> Colors]
    BY DEF BoardTyped, PawnLocs
  <1>2. b.colors[from] = pla /\ from # to
    BY <1>1, PlayersDistinct DEF Consistent
  <1>3. MovedHash(b, to, pla) = SymDiff(SymDiff(SymDiff(SymDiff(b.hash, k1), k2), k3), k4)
    <2>1. [b.colors EXCEPT ![from] = C_EMPTY][to] = C_EMPTY
      BY <1>1, <1>2
    <2> QED BY <1>2, <2>1 DEF MovedHash, StoneHash
  <1>4. getSitHashAfterPawnMove(b, to, pla) = FoldLeft(SymDiff, b.hash, keys)
    BY DEF getSitHashAfterPawnMove
  <1>5. playMoveAssumeLegal(b, to, pla).hash = MovedHash(b, to, pla)
    BY HashAfterMove DEF BoardTyped
  <1>6. /\ getSitHash(playMoveAssumeLegal(b, to, pla), getOpp(pla)) = SymDiff(MovedHash(b, to, pla), k5)
    BY <1>5 DEF getSitHash
  <1> HIDE DEF from, k1, k2, k3, k4, k5
  <1>7. keys \in Seq(SUBSET U) /\ Len(keys) = 5 /\ b.hash \in SUBSET U
        /\ keys[1] = k1 /\ keys[2] = k2 /\ keys[3] = k3 /\ keys[4] = k4 /\ keys[5] = k5
    OBVIOUS
  <1> HIDE DEF keys, U
  <1>8. FoldLeft(SymDiff, b.hash, keys)
          = SymDiff(SymDiff(SymDiff(SymDiff(SymDiff(b.hash, keys[1]), keys[2]), keys[3]), keys[4]), keys[5])
    BY <1>7, FiveXors
  <1> QED BY <1>3, <1>4, <1>6, <1>7, <1>8, Zenon

(* The incrementally kept hash is that which is computed from the position *)
(* alone, whatever moves and undos led to it, and the one with which       *)
(* repetitions are foreseen is right (board.cpp, the pos_hash updates).    *)
THEOREM HashNeverStale == Spec => []HashIsOfPosition
  <1>1. IInv /\ HashInv => HashIsOfPosition
    <2> SUFFICES ASSUME IInv, HashInv, NEW pla \in Players, NEW to \in ToSet(getLegalPawnDestinations(board, pla))
                 PROVE  getSitHashAfterPawnMove(board, to, pla)
                          = getSitHash(playMoveAssumeLegal(board, to, pla), getOpp(pla))
      BY DEF HashIsOfPosition, HashInv
    <2>1. BoardTyped(board) /\ Consistent(board)
      BY DEF IInv
    <2>2. \E d \in 1 .. 4 : StepsTo(board, pla, d, to) \/ JumpsTo(board, pla, d, to)
      BY <2>1, GeneratorLists
    <2>3. to \in PawnLocs /\ board.colors[to] = C_EMPTY
      BY <2>1, <2>2, PredicateAllows DEF isLegalPawnMove
    <2> QED BY <2>1, <2>3, ForeseenHash
  <1> QED BY <1>1, InvOfSpec, HashOfSpec, PTL

-----------------------------------------------------------------------------
(* The order in which a search finds paths *)

(* The order in which the search finds walks: the shorter first, then by   *)
(* the start, then by the first direction in which they differ.            *)
StepLess(a, x, y) ==
  \E d, e \in 1 .. 4 : d < e /\ x = Plus(a, Dirs[d]) /\ y = Plus(a, Dirs[e])
StartsLess(starts, w, v) ==
  \E i, j \in DOMAIN starts : i < j /\ w[1] = starts[i] /\ v[1] = starts[j]
TurnsLess(w, v, k) == (\A i \in 1 .. k : w[i] = v[i]) /\ StepLess(w[k], w[k + 1], v[k + 1])
LexLess(starts, w, v) == StartsLess(starts, w, v) \/ \E k \in 1 .. Len(w) - 1 : TurnsLess(w, v, k)
Before(starts, w, v) == Len(w) < Len(v) \/ (Len(w) = Len(v) /\ LexLess(starts, w, v))
NotAfter(starts, w, v) == w = v \/ Before(starts, w, v)

(* A path: a sequence of pawn cells that is not empty. *)
IsPath(w) == w \in Seq(PawnLocs) /\ Len(w) \in Nat \ {0}

(* The directions order the steps from a cell. *)
LEMMA StepOrder ==
  ASSUME NEW a \in PawnLocs
  PROVE  /\ \A x, y, z : StepLess(a, x, y) /\ StepLess(a, y, z) => StepLess(a, x, z)
         /\ \A x, y : StepLess(a, x, y) => ~StepLess(a, y, x)
         /\ \A x : ~StepLess(a, x, x)
  <1>1. \A d, e \in 1 .. 4 : Plus(a, Dirs[d]) = Plus(a, Dirs[e]) => d = e
    BY CellIs, Around
  <1>2. ASSUME NEW x, NEW y, NEW z, StepLess(a, x, y), StepLess(a, y, z)
        PROVE  StepLess(a, x, z)
    <2>1. PICK d \in 1 .. 4, e \in 1 .. 4 : d < e /\ x = Plus(a, Dirs[d]) /\ y = Plus(a, Dirs[e])
      BY <1>2 DEF StepLess
    <2>2. PICK f \in 1 .. 4, g \in 1 .. 4 : f < g /\ y = Plus(a, Dirs[f]) /\ z = Plus(a, Dirs[g])
      BY <1>2 DEF StepLess
    <2>3. e = f
      BY <1>1, <2>1, <2>2
    <2>4. d < g
      BY <2>1, <2>2, <2>3
    <2> QED BY <2>1, <2>2, <2>4 DEF StepLess
  <1>3. ASSUME NEW x, NEW y, StepLess(a, x, y), StepLess(a, y, x)
        PROVE  FALSE
    <2>1. PICK d \in 1 .. 4, e \in 1 .. 4 : d < e /\ x = Plus(a, Dirs[d]) /\ y = Plus(a, Dirs[e])
      BY <1>3 DEF StepLess
    <2>2. PICK f \in 1 .. 4, g \in 1 .. 4 : f < g /\ y = Plus(a, Dirs[f]) /\ x = Plus(a, Dirs[g])
      BY <1>3 DEF StepLess
    <2>3. e = f /\ d = g
      BY <1>1, <2>1, <2>2
    <2> QED BY <2>1, <2>2, <2>3
  <1> QED BY <1>2, <1>3

(* Paths of the same length are ordered by the first difference: this is *)
(* transitive...                                                         *)
LEMMA LexTransitive ==
  ASSUME NEW starts, IsStart(starts), NEW w, NEW v, NEW u, IsPath(w), IsPath(v), IsPath(u),
         Len(w) = Len(v), Len(v) = Len(u), LexLess(starts, w, v), LexLess(starts, v, u)
  PROVE  LexLess(starts, w, u)
  <1>0. \A i \in 1 .. Len(w) : w[i] \in PawnLocs
    BY DEF IsPath
  <1>00. DOMAIN starts \subseteq Nat
    BY DEF IsStart
  <1>1. CASE StartsLess(starts, w, v) /\ StartsLess(starts, v, u)
    <2>1. PICK i \in DOMAIN starts, j \in DOMAIN starts : i < j /\ w[1] = starts[i] /\ v[1] = starts[j]
      BY <1>1 DEF StartsLess
    <2>2. PICK k \in DOMAIN starts, l \in DOMAIN starts : k < l /\ v[1] = starts[k] /\ u[1] = starts[l]
      BY <1>1 DEF StartsLess
    <2>3. j = k
      BY <2>1, <2>2 DEF IsStart
    <2>4. i < l
      BY <1>00, <2>1, <2>2, <2>3
    <2> QED BY <2>1, <2>2, <2>4 DEF LexLess, StartsLess
  <1>2. CASE StartsLess(starts, w, v) /\ \E l \in 1 .. Len(v) - 1 : TurnsLess(v, u, l)
    <2>1. v[1] = u[1]
      BY <1>2 DEF TurnsLess, IsPath
    <2> QED BY <1>2, <2>1 DEF LexLess, StartsLess
  <1>3. CASE (\E k \in 1 .. Len(w) - 1 : TurnsLess(w, v, k)) /\ StartsLess(starts, v, u)
    <2>1. w[1] = v[1]
      BY <1>3 DEF TurnsLess, IsPath
    <2> QED BY <1>3, <2>1 DEF LexLess, StartsLess
  <1>4. ASSUME NEW k \in 1 .. Len(w) - 1, TurnsLess(w, v, k), NEW l \in 1 .. Len(v) - 1, TurnsLess(v, u, l)
        PROVE  LexLess(starts, w, u)
    <2>1. k \in Nat /\ l \in Nat /\ k \in 1 .. Len(w) /\ l \in 1 .. Len(w)
      BY DEF IsPath
    <2>2. CASE k < l
      <3>1. k + 1 \in 1 .. l /\ \A i \in 1 .. k : i \in 1 .. l
        BY <2>1, <2>2
      <3>2. TurnsLess(w, u, k)
        BY <1>4, <3>1 DEF TurnsLess
      <3> QED BY <3>2 DEF LexLess
    <2>3. CASE l < k
      <3>1. l + 1 \in 1 .. k /\ l \in 1 .. k /\ \A i \in 1 .. l : i \in 1 .. k
        BY <2>1, <2>3
      <3>2. TurnsLess(w, u, l)
        BY <1>4, <3>1 DEF TurnsLess
      <3> QED BY <3>2 DEF LexLess
    <2>4. CASE k = l
      <3>1. k \in 1 .. k /\ w[k] \in PawnLocs
        BY <1>0, <2>1
      <3>2. w[k] = v[k] /\ StepLess(w[k], w[k + 1], v[k + 1]) /\ StepLess(v[k], v[k + 1], u[k + 1])
        BY <1>4, <2>4, <3>1 DEF TurnsLess
      <3>3. StepLess(w[k], w[k + 1], u[k + 1])
        BY <3>1, <3>2, StepOrder
      <3>4. TurnsLess(w, u, k)
        BY <1>4, <2>4, <3>3 DEF TurnsLess
      <3> QED BY <3>4 DEF LexLess
    <2> QED BY <2>1, <2>2, <2>3, <2>4
  <1> QED BY <1>1, <1>2, <1>3, <1>4 DEF LexLess

(* ...and asymmetric. *)
LEMMA LexAsymmetric ==
  ASSUME NEW starts, IsStart(starts), NEW w, NEW v, IsPath(w), IsPath(v), Len(w) = Len(v),
         LexLess(starts, w, v), LexLess(starts, v, w)
  PROVE  FALSE
  <1>0. \A i \in 1 .. Len(w) : w[i] \in PawnLocs
    BY DEF IsPath
  <1>00. DOMAIN starts \subseteq Nat
    BY DEF IsStart
  <1>1. StartsLess(starts, w, v) => w[1] # v[1]
    BY <1>00 DEF StartsLess, IsStart
  <1>2. StartsLess(starts, v, w) => w[1] # v[1]
    BY <1>00 DEF StartsLess, IsStart
  <1>3. ~(StartsLess(starts, w, v) /\ StartsLess(starts, v, w))
    <2> SUFFICES ASSUME StartsLess(starts, w, v), StartsLess(starts, v, w) PROVE FALSE
      OBVIOUS
    <2>1. PICK i \in DOMAIN starts, j \in DOMAIN starts : i < j /\ w[1] = starts[i] /\ v[1] = starts[j]
      BY DEF StartsLess
    <2>2. PICK k \in DOMAIN starts, l \in DOMAIN starts : k < l /\ v[1] = starts[k] /\ w[1] = starts[l]
      BY DEF StartsLess
    <2>3. j = k /\ i = l
      BY <2>1, <2>2 DEF IsStart
    <2> QED BY <1>00, <2>1, <2>2, <2>3
  <1>4. (\E k \in 1 .. Len(w) - 1 : TurnsLess(w, v, k)) => w[1] = v[1]
    BY DEF TurnsLess, IsPath
  <1>5. (\E k \in 1 .. Len(v) - 1 : TurnsLess(v, w, k)) => w[1] = v[1]
    BY DEF TurnsLess, IsPath
  <1>6. ASSUME NEW k \in 1 .. Len(w) - 1, TurnsLess(w, v, k), NEW l \in 1 .. Len(v) - 1, TurnsLess(v, w, l)
        PROVE  FALSE
    <2>1. /\ k \in Nat /\ l \in Nat /\ k \in 1 .. Len(w) /\ l \in 1 .. Len(w)
          /\ w[k] \in PawnLocs /\ w[l] \in PawnLocs /\ k \in 1 .. k /\ l \in 1 .. l
      BY <1>0 DEF IsPath
    <2>2. w[k] = v[k] /\ w[l] = v[l]
      BY <1>6, <2>1 DEF TurnsLess
    <2>3. CASE k < l
      <3>1. k + 1 \in 1 .. l
        BY <2>1, <2>3
      <3>2. w[k + 1] = v[k + 1] /\ StepLess(w[k], w[k + 1], v[k + 1])
        BY <1>6, <3>1 DEF TurnsLess
      <3> QED BY <2>1, <3>2, StepOrder
    <2>4. CASE l < k
      <3>1. l + 1 \in 1 .. k
        BY <2>1, <2>4
      <3>2. w[l + 1] = v[l + 1] /\ StepLess(v[l], v[l + 1], w[l + 1])
        BY <1>6, <3>1 DEF TurnsLess
      <3> QED BY <2>1, <2>2, <3>2, StepOrder
    <2>5. CASE k = l
      <3>1. StepLess(w[k], w[k + 1], v[k + 1]) /\ StepLess(w[k], v[k + 1], w[k + 1])
        BY <1>6, <2>2, <2>5 DEF TurnsLess
      <3> QED BY <2>1, <3>1, StepOrder
    <2> QED BY <2>1, <2>3, <2>4, <2>5
  <1> QED BY <1>1, <1>2, <1>3, <1>4, <1>5, <1>6 DEF LexLess

(* So NotAfter is a partial order of paths. *)
LEMMA BeforeIsOrder ==
  ASSUME NEW starts, IsStart(starts), NEW w, NEW v, IsPath(w), IsPath(v)
  PROVE  /\ ~(Before(starts, w, v) /\ Before(starts, v, w))
         /\ NotAfter(starts, w, v) /\ NotAfter(starts, v, w) => w = v
         /\ \A u : IsPath(u) /\ NotAfter(starts, w, v) /\ NotAfter(starts, v, u) => NotAfter(starts, w, u)
  <1>0. Len(w) \in Nat /\ Len(v) \in Nat
    BY DEF IsPath
  <1>1. ~(Before(starts, w, v) /\ Before(starts, v, w))
    BY <1>0, LexAsymmetric DEF Before
  <1>2. ASSUME NEW u, IsPath(u), Before(starts, w, v), Before(starts, v, u)
        PROVE  Before(starts, w, u)
    <2>1. Len(u) \in Nat
      BY <1>2 DEF IsPath
    <2>2. CASE Len(w) = Len(v) /\ Len(v) = Len(u)
      <3>1. LexLess(starts, w, v) /\ LexLess(starts, v, u)
        BY <1>0, <1>2, <2>1, <2>2 DEF Before
      <3>2. LexLess(starts, w, u)
        BY <1>2, <2>2, <3>1, LexTransitive
      <3> QED BY <2>2, <3>2 DEF Before
    <2>3. CASE ~(Len(w) = Len(v) /\ Len(v) = Len(u))
      BY <1>0, <1>2, <2>1, <2>3 DEF Before
    <2> QED BY <2>2, <2>3
  <1> QED BY <1>1, <1>2 DEF NotAfter

(* The order of two paths is that of their continuations, and the order of *)
(* two steps from the same path that of their directions.                  *)
LEMMA BeforeFurther ==
  ASSUME NEW starts, NEW w, NEW v, IsPath(w), IsPath(v), NEW x \in PawnLocs, NEW y
  PROVE  /\ Before(starts, w, v) => Before(starts, Append(w, x), Append(v, y))
         /\ StepLess(End(w), x, y) => Before(starts, Append(w, x), Append(w, y))
         /\ IsPath(Append(w, x))
  <1> DEFINE w1 == Append(w, x)
             v1 == Append(v, y)
             z1 == Append(w, y)
             n == Len(w)
  <1>1. n \in Nat \ {0} /\ Len(v) \in Nat /\ w \in Seq(PawnLocs) /\ v \in Seq(PawnLocs)
    BY DEF IsPath
  <1>2. /\ Len(w1) = n + 1 /\ w1[n + 1] = x /\ \A i \in 1 .. n : w1[i] = w[i]
        /\ Len(z1) = n + 1 /\ z1[n + 1] = y /\ \A i \in 1 .. n : z1[i] = w[i]
        /\ Len(v1) = Len(v) + 1 /\ \A i \in 1 .. Len(v) : v1[i] = v[i]
        /\ w1 \in Seq(PawnLocs)
    BY <1>1
  <1> HIDE DEF w1, v1, z1, n
  <1>3. ASSUME Before(starts, w, v) PROVE Before(starts, w1, v1)
    <2>1. CASE Len(w) < Len(v)
      BY <1>1, <1>2, <2>1 DEF Before, n
    <2>2. CASE Len(w) = Len(v) /\ StartsLess(starts, w, v)
      <3>1. 1 \in 1 .. n /\ Len(v) = n
        BY <1>1, <2>2 DEF n
      <3>2. w1[1] = w[1] /\ v1[1] = v[1]
        BY <1>2, <3>1
      <3>3. StartsLess(starts, w1, v1)
        BY <2>2, <3>2 DEF StartsLess
      <3> QED BY <1>2, <3>1, <3>3 DEF Before, LexLess
    <2>3. ASSUME Len(w) = Len(v), NEW k \in 1 .. Len(w) - 1, TurnsLess(w, v, k)
          PROVE  Before(starts, w1, v1)
      <3>1. /\ k \in 1 .. Len(w1) - 1 /\ k \in 1 .. n /\ k + 1 \in 1 .. n /\ Len(v) = n
            /\ \A i \in 1 .. k : i \in 1 .. n
        BY <1>1, <1>2, <2>3 DEF n
      <3>2. /\ w1[k] = w[k] /\ w1[k + 1] = w[k + 1] /\ v1[k] = v[k] /\ v1[k + 1] = v[k + 1]
            /\ \A i \in 1 .. k : w1[i] = w[i] /\ v1[i] = v[i]
        BY <1>2, <3>1
      <3>3. TurnsLess(w1, v1, k)
        BY <2>3, <3>2 DEF TurnsLess
      <3> QED BY <1>2, <3>1, <3>3 DEF Before, LexLess
    <2> QED BY <1>3, <2>1, <2>2, <2>3 DEF Before, LexLess
  <1>4. ASSUME StepLess(End(w), x, y) PROVE Before(starts, w1, z1)
    <2>1. n \in 1 .. Len(w1) - 1 /\ n \in 1 .. n
      BY <1>1, <1>2
    <2>2. w1[n] = End(w)
      BY <1>2, <2>1 DEF End, n
    <2>3. TurnsLess(w1, z1, n)
      BY <1>2, <1>4, <2>2 DEF TurnsLess
    <2> QED BY <1>2, <2>1, <2>3 DEF Before, LexLess
  <1>5. IsPath(w1)
    BY <1>1, <1>2 DEF IsPath
  <1> QED BY <1>3, <1>4, <1>5 DEF w1, v1, z1

-----------------------------------------------------------------------------
(* One visit of a search keeps this order *)

(* The entries of a queue come in this order, each is a start or one step  *)
(* from one of the n entries expanded so far, and all that is one step     *)
(* from those has been found at least as early.                            *)
Ordered(starts, q) == \A i, j \in 1 .. Len(q) : i < j => Before(starts, q[i], q[j])
FoundBy(starts, q, path) == \E j \in 1 .. Len(q) : End(q[j]) = End(path) /\ NotAfter(starts, q[j], path)
Near(starts, colors, blocked, q, n) ==
  \A m \in 1 .. Len(q) : m <= n =>
    \A x : Edge(colors, blocked, End(q[m]), x) => FoundBy(starts, q, Append(q[m], x))
Bred(q, n) ==
  \A j \in 1 .. Len(q) :
    Len(q[j]) = 1 \/ \E m \in 1 .. Len(q), x \in PawnLocs : m <= n /\ q[j] = Append(q[m], x)
Sorted(starts, colors, blocked, q, n) ==
  Ordered(starts, q) /\ Near(starts, colors, blocked, q, n) /\ Bred(q, n)

(* ...and halfway through an expansion, after k of the four directions.    *)
Ahead(starts, g, path, k) ==
  \A j \in 1 .. Len(g), d \in 1 .. 4 :
    d > k => Before(starts, g[j], Append(path, Plus(End(path), Dirs[d])))
Done(starts, colors, blocked, g, path, k) ==
  \A d \in 1 .. 4 :
    d <= k /\ Edge(colors, blocked, End(path), Plus(End(path), Dirs[d]))
      => FoundBy(starts, g, Append(path, Plus(End(path), Dirs[d])))
FromQueue(q, g, path) ==
  \A j \in 1 .. Len(g) : j <= Len(q) \/ \E x \in PawnLocs : g[j] = Append(path, x)
HalfSorted(starts, colors, blocked, q, g, path, k) ==
  /\ Ordered(starts, g) /\ Ahead(starts, g, path, k) /\ Done(starts, colors, blocked, g, path, k)
  /\ FromQueue(q, g, path) /\ Grows(q, g)

(* A walk is a path. *)
LEMMA WalkIsPath ==
  ASSUME NEW colors, NEW blocked, NEW w, IsWalk(colors, blocked, w)
  PROVE  IsPath(w)
  BY WalkEnds DEF IsWalk, IsPath

(* What a queue has found, a longer one has found. *)
LEMMA FoundOn ==
  ASSUME NEW S, NEW q \in Seq(S), NEW g \in Seq(S), Grows(q, g), NEW starts, NEW path,
         FoundBy(starts, q, path)
  PROVE  FoundBy(starts, g, path)
  <1>1. PICK j \in 1 .. Len(q) : End(q[j]) = End(path) /\ NotAfter(starts, q[j], path)
    BY DEF FoundBy
  <1>2. j \in 1 .. Len(g) /\ g[j] = q[j]
    BY DEF Grows
  <1> QED BY <1>1, <1>2 DEF FoundBy

(* A visit keeps the queue halfway sorted: what it appends comes after all *)
(* that is there and before all that the later directions can append.      *)
LEMMA VisitSorted ==
  ASSUME NEW starts, NEW colors, NEW blocked, NEW from, NEW q \in Queues(colors, blocked, from),
         NEW path, IsWalk(colors, blocked, path), path[1] \in from,
         NEW k \in 0 .. 3, NEW g \in Queues(colors, blocked, from),
         HalfSorted(starts, colors, blocked, q, g, path, k),
         NEW h, h = BfsVisit(colors, blocked, g, path, Dirs[k + 1])
  PROVE  HalfSorted(starts, colors, blocked, q, h, path, k + 1)
  <1> DEFINE x == Plus(End(path), Dirs[k + 1])
             px == Append(path, x)
  <1>0. IsPath(path) /\ path \in Seq(PawnLocs) /\ g \in Seq(Seq(PawnLocs)) /\ q \in Seq(Seq(PawnLocs))
    BY WalkIsPath DEF Queues, IsWalk
  <1>01. k + 1 \in 1 .. 4 /\ k \in Nat
    OBVIOUS
  <1>00. End(path) \in PawnLocs
    BY WalkEnds
  <1>1. CASE Edge(colors, blocked, End(path), x) /\ x \notin Seen(g)
    <2>1. h = Append(g, px)
      BY <1>1 DEF BfsVisit, Edge
    <2>2. x \in PawnLocs
      BY <1>1 DEF Edge, canPawnStep
    <2>3. End(px) = x
      BY <1>0, <2>2 DEF End
    <2>4. px \in Seq(PawnLocs)
      BY <1>0, <2>2
    <2> DEFINE n == Len(g)
    <2>5. /\ n \in Nat /\ Len(h) = n + 1 /\ h[n + 1] = px /\ \A j \in 1 .. n : h[j] = g[j]
          /\ h \in Seq(Seq(PawnLocs))
      BY <1>0, <2>1, <2>4
    <2> HIDE DEF x, px, n
    <2>6. \A j \in 1 .. n : Before(starts, g[j], px)
      BY <1>0, <1>01 DEF HalfSorted, Ahead, n, x, px
    <2>7. Ordered(starts, h)
      <3> SUFFICES ASSUME NEW i \in 1 .. n + 1, NEW j \in 1 .. n + 1, i < j
                   PROVE  Before(starts, h[i], h[j])
        BY <2>5 DEF Ordered
      <3>1. i \in 1 .. n
        BY <2>5
      <3>2. CASE j \in 1 .. n
        <4>1. Before(starts, g[i], g[j])
          BY <3>1, <3>2 DEF HalfSorted, Ordered, n
        <4> QED BY <2>5, <3>1, <3>2, <4>1
      <3>3. CASE j = n + 1
        BY <2>5, <2>6, <3>1, <3>3
      <3> QED BY <2>5, <3>2, <3>3
    <2>8. Ahead(starts, h, path, k + 1)
      <3> SUFFICES ASSUME NEW j \in 1 .. n + 1, NEW d \in 1 .. 4, d > k + 1
                   PROVE  Before(starts, h[j], Append(path, Plus(End(path), Dirs[d])))
        BY <2>5 DEF Ahead
      <3>1. CASE j \in 1 .. n
        <4>1. d > k
          BY <1>0, <1>01
        <4>2. Before(starts, g[j], Append(path, Plus(End(path), Dirs[d])))
          BY <3>1, <4>1 DEF HalfSorted, Ahead, n
        <4> QED BY <2>5, <3>1, <4>2
      <3>2. CASE j = n + 1
        <4>1. k + 1 < d
          BY <1>0, <1>01
        <4>2. StepLess(End(path), x, Plus(End(path), Dirs[d]))
          BY <1>0, <1>01, <4>1 DEF StepLess, x
        <4>3. Before(starts, px, Append(path, Plus(End(path), Dirs[d])))
          BY <1>0, <2>2, <4>2, BeforeFurther DEF px
        <4> QED BY <2>5, <3>2, <4>3
      <3> QED BY <2>5, <3>1, <3>2
    <2>9. Grows(g, h)
      BY <2>5 DEF Grows, n
    <2>10. Done(starts, colors, blocked, h, path, k + 1)
      <3> SUFFICES ASSUME NEW d \in 1 .. 4, d <= k + 1,
                          Edge(colors, blocked, End(path), Plus(End(path), Dirs[d]))
                   PROVE  FoundBy(starts, h, Append(path, Plus(End(path), Dirs[d])))
        BY DEF Done
      <3>1. CASE d <= k
        <4>1. FoundBy(starts, g, Append(path, Plus(End(path), Dirs[d])))
          BY <3>1 DEF HalfSorted, Done
        <4> QED BY <1>0, <2>5, <2>9, <4>1, FoundOn
      <3>2. CASE d = k + 1
        <4>1. n + 1 \in 1 .. Len(h) /\ h[n + 1] = px
          BY <2>5
        <4>2. FoundBy(starts, h, px)
          BY <4>1 DEF FoundBy, NotAfter
        <4> QED BY <3>2, <4>2 DEF px, x
      <3> QED BY <1>0, <1>01, <3>1, <3>2
    <2>11. FromQueue(q, h, path)
      <3> SUFFICES ASSUME NEW j \in 1 .. n + 1, ~(j <= Len(q))
                   PROVE  \E y \in PawnLocs : h[j] = Append(path, y)
        BY <2>5 DEF FromQueue
      <3>1. CASE j \in 1 .. n
        <4>1. \E y \in PawnLocs : g[j] = Append(path, y)
          BY <3>1 DEF HalfSorted, FromQueue, n
        <4> QED BY <2>5, <3>1, <4>1
      <3>2. CASE j = n + 1
        BY <2>2, <2>5, <3>2 DEF px
      <3> QED BY <2>5, <3>1, <3>2
    <2>12. Grows(q, h)
      BY <1>0, <2>5, <2>9, GrowsOn DEF HalfSorted
    <2> QED BY <2>7, <2>8, <2>10, <2>11, <2>12 DEF HalfSorted
  <1>2. CASE ~(Edge(colors, blocked, End(path), x) /\ x \notin Seen(g))
    <2>1. h = g
      BY <1>2 DEF BfsVisit, Edge
    <2>2. Ahead(starts, g, path, k + 1)
      BY <1>0, <1>01, SMTT(40) DEF HalfSorted, Ahead
    <2>3. Done(starts, colors, blocked, g, path, k + 1)
      <3> SUFFICES ASSUME NEW d \in 1 .. 4, d <= k + 1,
                          Edge(colors, blocked, End(path), Plus(End(path), Dirs[d]))
                   PROVE  FoundBy(starts, g, Append(path, Plus(End(path), Dirs[d])))
        BY DEF Done
      <3>1. CASE d <= k
        BY <3>1 DEF HalfSorted, Done
      <3>2. CASE d = k + 1
        <4>1. x \in Seen(g) /\ x \in PawnLocs
          BY <1>2, <3>2 DEF Edge, canPawnStep
        <4>2. PICK j \in 1 .. Len(g) : End(g[j]) = x
          <5> HIDE DEF x
          <5>1. DOMAIN g = 1 .. Len(g)
            BY <1>0
          <5> QED BY <4>1, <5>1 DEF Seen
        <4>3. End(px) = x
          BY <1>0, <4>1 DEF End
        <4>4. k + 1 > k
          BY <1>0, <1>01
        <4>5. Before(starts, g[j], px)
          BY <1>0, <1>01, <4>4 DEF HalfSorted, Ahead
        <4>6. FoundBy(starts, g, px)
          BY <4>2, <4>3, <4>5 DEF FoundBy, NotAfter
        <4> QED BY <3>2, <4>6
      <3> QED BY <1>0, <1>01, <3>1, <3>2
    <2> QED BY <2>1, <2>2, <2>3 DEF HalfSorted
  <1> QED BY <1>1, <1>2

-----------------------------------------------------------------------------
(* A search finds the first walk to each cell *)

(* An expansion begins halfway, with no direction tried: every entry is a *)
(* start or comes from an earlier entry...                                *)
LEMMA HalfStart ==
  ASSUME NEW starts, IsStart(starts), NEW colors, NEW blocked,
         NEW q \in Queues(colors, blocked, ToSet(starts)), NEW n \in Nat, n + 1 \in 1 .. Len(q),
         Sorted(starts, colors, blocked, q, n), NEW path, path = q[n + 1]
  PROVE  HalfSorted(starts, colors, blocked, q, q, path, 0)
  <1>1. q \in Seq(Seq(PawnLocs)) /\ IsPath(path) /\ \A j \in 1 .. Len(q) : IsPath(q[j])
    BY WalkIsPath DEF Queues
  <1>2. Ahead(starts, q, path, 0)
    <2> SUFFICES ASSUME NEW j \in 1 .. Len(q), NEW y
                 PROVE  Before(starts, q[j], Append(path, y))
      BY DEF Ahead
    <2>0. Len(Append(path, y)) = Len(path) + 1 /\ Len(path) \in Nat \ {0}
      BY <1>1 DEF IsPath
    <2>1. CASE Len(q[j]) = 1
      BY <2>0, <2>1 DEF Before
    <2>2. ASSUME NEW m \in 1 .. Len(q), NEW x \in PawnLocs, m <= n, q[j] = Append(q[m], x)
          PROVE  Before(starts, q[j], Append(path, y))
      <3>1. m < n + 1
        BY <2>2
      <3>2. Before(starts, q[m], path)
        BY <3>1 DEF Sorted, Ordered
      <3> QED BY <1>1, <2>2, <3>2, BeforeFurther
    <2> QED BY <2>1, <2>2 DEF Sorted, Bred
  <1>3. Done(starts, colors, blocked, q, path, 0)
    BY DEF Done
  <1>4. FromQueue(q, q, path) /\ Grows(q, q)
    BY <1>1 DEF FromQueue, Grows
  <1> QED BY <1>2, <1>3, <1>4 DEF HalfSorted, Sorted

(* ...and ends with one more entry expanded. *)
LEMMA HalfEnd ==
  ASSUME NEW starts, IsStart(starts), NEW colors, NEW blocked,
         NEW q \in Queues(colors, blocked, ToSet(starts)), NEW n \in Nat, n + 1 \in 1 .. Len(q),
         Sorted(starts, colors, blocked, q, n), NEW path, path = q[n + 1],
         NEW g \in Queues(colors, blocked, ToSet(starts)),
         HalfSorted(starts, colors, blocked, q, g, path, 4)
  PROVE  Sorted(starts, colors, blocked, g, n + 1)
  <1>1. q \in Seq(Seq(PawnLocs)) /\ g \in Seq(Seq(PawnLocs)) /\ Grows(q, g)
        /\ Len(q) \in Nat /\ Len(g) \in Nat
    BY DEF Queues, HalfSorted
  <1>2. Near(starts, colors, blocked, g, n + 1)
    <2> SUFFICES ASSUME NEW m \in 1 .. Len(g), m <= n + 1, NEW x, Edge(colors, blocked, End(g[m]), x)
                 PROVE  FoundBy(starts, g, Append(g[m], x))
      BY DEF Near
    <2>1. m \in 1 .. Len(q) /\ g[m] = q[m]
      <3>1. m \in 1 .. Len(q)
        BY <1>1
      <3> QED BY <1>1, <3>1, Zenon DEF Grows
    <2>2. CASE m <= n
      <3>1. FoundBy(starts, q, Append(q[m], x))
        BY <2>1, <2>2 DEF Sorted, Near
      <3> QED BY <1>1, <2>1, <3>1, FoundOn
    <2>3. CASE m = n + 1
      <3>1. Edge(colors, blocked, End(path), x) /\ g[m] = path
        BY <2>1, <2>3
      <3>2. PICK k \in 0 .. 3 : x = Plus(End(path), Dirs[k + 1])
        BY <3>1, EdgeByDir
      <3>3. k + 1 \in 1 .. 4 /\ k + 1 <= 4
        OBVIOUS
      <3>4. FoundBy(starts, g, Append(path, x))
        BY <3>1, <3>2, <3>3 DEF HalfSorted, Done
      <3> QED BY <3>1, <3>4
    <2> QED BY <2>2, <2>3
  <1>3. Bred(g, n + 1)
    <2> SUFFICES ASSUME NEW j \in 1 .. Len(g), Len(g[j]) # 1
                 PROVE  \E m \in 1 .. Len(g), x \in PawnLocs : m <= n + 1 /\ g[j] = Append(g[m], x)
      BY DEF Bred
    <2>0. n + 1 \in 1 .. Len(g) /\ g[n + 1] = path
      BY <1>1 DEF Grows
    <2>1. CASE j <= Len(q)
      <3>1. j \in 1 .. Len(q) /\ g[j] = q[j]
        BY <1>1, <2>1 DEF Grows
      <3>2. PICK m \in 1 .. Len(q), x \in PawnLocs : m <= n /\ q[j] = Append(q[m], x)
        BY <3>1 DEF Sorted, Bred
      <3>3. m \in 1 .. Len(g) /\ g[m] = q[m] /\ m <= n + 1
        BY <1>1, <3>2 DEF Grows
      <3> QED BY <3>1, <3>2, <3>3
    <2>2. CASE ~(j <= Len(q))
      <3>1. PICK x \in PawnLocs : g[j] = Append(path, x)
        BY <2>2 DEF HalfSorted, FromQueue
      <3>2. g[j] = Append(g[n + 1], x) /\ n + 1 <= n + 1
        BY <2>0, <3>1
      <3> QED BY <2>0, <3>2, Zenon
    <2> QED BY <2>1, <2>2
  <1> QED BY <1>2, <1>3 DEF Sorted, HalfSorted

(* An expansion keeps the queue sorted. *)
LEMMA ExpandSorted ==
  ASSUME NEW starts, IsStart(starts), NEW colors, NEW blocked,
         NEW q \in Queues(colors, blocked, ToSet(starts)), NEW n \in Nat,
         Sorted(starts, colors, blocked, q, n), NEW r, r = BfsExpand(colors, blocked, q, n + 1)
  PROVE  Sorted(starts, colors, blocked, r, n + 1)
  <1> DEFINE from == ToSet(starts)
  <1>1. q \in Seq(Seq(PawnLocs)) /\ Len(q) \in Nat
    BY DEF Queues
  <1>2. CASE n + 1 > Len(q)
    <2>1. r = q
      BY <1>2 DEF BfsExpand
    <2>2. \A m \in 1 .. Len(q) : m <= n + 1 => m <= n
      BY <1>1, <1>2
    <2>3. Near(starts, colors, blocked, q, n + 1)
      BY <2>2 DEF Sorted, Near
    <2>4. \A m \in 1 .. Len(q) : m <= n => m <= n + 1
      OBVIOUS
    <2>5. Bred(q, n + 1)
      BY <2>4 DEF Sorted, Bred
    <2> QED BY <2>1, <2>3, <2>5 DEF Sorted
  <1>3. CASE ~(n + 1 > Len(q))
    <2>1. n + 1 \in 1 .. Len(q)
      BY <1>1, <1>3
    <2>2. PICK path : path = q[n + 1] /\ IsWalk(colors, blocked, path) /\ path[1] \in from
      BY <2>1 DEF Queues
    <2>3. PICK h : /\ h[{}] = q
                   /\ \A k \in 0 .. 3 : h[1 .. k + 1] = BfsVisit(colors, blocked, h[1 .. k], path, Dirs[k + 1])
                   /\ h[1 .. 4] = (CHOOSE g : IsVisits(g, colors, blocked, q, path))[DOMAIN Dirs]
      BY <2>2, VisitsChain
    <2>4. r = h[1 .. 4]
      BY <1>3, <2>2, <2>3, ExpandChosen
    <2> HIDE DEF from
    <2> DEFINE Half(g, k) == /\ g \in Queues(colors, blocked, ToSet(starts))
                             /\ HalfSorted(starts, colors, blocked, q, g, path, k)
    <2>5. ASSUME NEW k \in 0 .. 3, Half(h[1 .. k], k) PROVE Half(h[1 .. k + 1], k + 1)
      <3>1. h[1 .. k + 1] = BfsVisit(colors, blocked, h[1 .. k], path, Dirs[k + 1])
        BY <2>3
      <3>2. path[1] \in ToSet(starts)
        BY <2>2 DEF from
      <3>3. h[1 .. k + 1] \in Queues(colors, blocked, ToSet(starts))
        BY <2>2, <2>5, <3>1, <3>2, VisitGrows
      <3>4. HalfSorted(starts, colors, blocked, q, h[1 .. k + 1], path, k + 1)
        BY <2>2, <2>5, <3>1, <3>2, VisitSorted
      <3> QED BY <3>3, <3>4
    <2>6. Half(h[1 .. 0], 0)
      <3>1. 1 .. 0 = {}
        OBVIOUS
      <3>2. HalfSorted(starts, colors, blocked, q, q, path, 0)
        BY <2>1, <2>2, HalfStart
      <3> QED BY <2>3, <3>1, <3>2
    <2> HIDE DEF Half
    <2>7. Half(h[1 .. 4], 4)
      <3>1. Half(h[1 .. 1], 1)
        BY <2>5, <2>6
      <3>2. Half(h[1 .. 2], 2)
        BY <2>5, <3>1
      <3>3. Half(h[1 .. 3], 3)
        BY <2>5, <3>2
      <3> QED BY <2>5, <3>3
    <2>8. r \in Queues(colors, blocked, ToSet(starts)) /\ HalfSorted(starts, colors, blocked, q, r, path, 4)
      BY <2>4, <2>7 DEF Half
    <2> QED BY <2>1, <2>2, <2>8, HalfEnd
  <1> QED BY <1>2, <1>3

(* The start cells are sorted. *)
LEMMA FirstSorted ==
  ASSUME NEW starts, IsStart(starts), NEW colors, NEW blocked,
         NEW q, q = [i \in DOMAIN starts |-> <<starts[i]>>]
  PROVE  Sorted(starts, colors, blocked, q, 0) /\ Len(q) = Len(starts)
  <1>1. DOMAIN starts = 1 .. Len(starts) /\ Len(starts) \in Nat
    BY DEF IsStart
  <1>2. Len(q) = Len(starts)
    BY <1>1
  <1>3. \A i \in 1 .. Len(q) : q[i] = <<starts[i]>> /\ Len(q[i]) = 1 /\ q[i][1] = starts[i] /\ i \in DOMAIN starts
    BY <1>1, <1>2
  <1>4. Ordered(starts, q)
    BY <1>3 DEF Ordered, Before, LexLess, StartsLess
  <1>5. Near(starts, colors, blocked, q, 0)
    BY DEF Near
  <1>6. Bred(q, 0)
    BY <1>3 DEF Bred
  <1> QED BY <1>2, <1>4, <1>5, <1>6 DEF Sorted

(* The queue of a whole search: sorted, with all of its entries expanded.  *)
LEMMA BfsSorted ==
  ASSUME NEW starts, IsStart(starts), NEW colors, NEW blocked,
         NEW Q, Q = BfsQueue(starts, colors, blocked)
  PROVE  /\ Q \in Queues(colors, blocked, ToSet(starts))
         /\ Sorted(starts, colors, blocked, Q, Len(Q))
         /\ Len(starts) <= Len(Q) /\ \A i \in 1 .. Len(starts) : Q[i] = <<starts[i]>>
  <1> DEFINE D == Queues(colors, blocked, ToSet(starts))
             q == [i \in DOMAIN starts |-> <<starts[i]>>]
  <1>1. q \in D
    BY FirstQueue
  <1>2. N * N \in Nat /\ D \subseteq Seq(Seq(PawnLocs))
    BY BoardSizeAssumption DEF Queues
  <1>3. PICK h : /\ h[{}] = q
                 /\ \A k \in Nat : k < N * N => h[1 .. k + 1] = BfsExpand(colors, blocked, h[1 .. k], k + 1)
                 /\ h[1 .. N * N] = (CHOOSE g : IsExpands(g, colors, blocked, q, N * N))[DOMAIN Passed(N * N)]
    <2> HIDE DEF q
    <2>1. q \in Queues(colors, blocked, ToSet(starts))
      BY <1>1
    <2> HIDE DEF D
    <2>2. PICK n \in Nat : n = N * N
      BY <1>2
    <2>3. \E h : /\ h[{}] = q
                 /\ \A k \in Nat : k < n => h[1 .. k + 1] = BfsExpand(colors, blocked, h[1 .. k], k + 1)
                 /\ h[1 .. n] = (CHOOSE g : IsExpands(g, colors, blocked, q, n))[DOMAIN Passed(n)]
      BY ONLY <2>1, n \in Nat, ExpandsChain
    <2> QED BY <2>2, <2>3
  <1>4. Q = h[1 .. N * N]
    BY <1>3, QueueChosen
  <1>5. Sorted(starts, colors, blocked, q, 0) /\ Len(q) = Len(starts) /\ \A i \in DOMAIN starts : q[i] = <<starts[i]>>
    BY FirstSorted
  <1> HIDE DEF q, D
  <1> DEFINE Good(r, k) == r \in D /\ Grows(q, r) /\ Sorted(starts, colors, blocked, r, k)
             S == {k \in Nat : k <= N * N => Good(h[1 .. k], k)}
  <1>6. 0 \in S
    <2>1. 1 .. 0 = {}
      OBVIOUS
    <2>2. h[1 .. 0] = q
      BY <1>3, <2>1
    <2>3. Grows(q, q)
      BY <1>1, <1>2 DEF Grows
    <2> QED BY <1>1, <1>5, <2>2, <2>3
  <1>7. ASSUME NEW k \in Nat, k \in S PROVE k + 1 \in S
    <2> SUFFICES ASSUME k + 1 <= N * N PROVE Good(h[1 .. k + 1], k + 1)
      OBVIOUS
    <2>1. k <= N * N /\ k < N * N
      BY <1>2
    <2>2. Good(h[1 .. k], k)
      BY <1>7, <2>1
    <2> HIDE DEF S
    <2>3. PICK r : r = h[1 .. k]
      OBVIOUS
    <2>4. PICK u : u = h[1 .. k + 1]
      OBVIOUS
    <2>5. u = BfsExpand(colors, blocked, r, k + 1)
      BY <1>3, <2>1, <2>3, <2>4
    <2>6. r \in D /\ Grows(q, r) /\ Sorted(starts, colors, blocked, r, k)
      BY <2>2, <2>3
    <2>7. u \in D /\ Grows(r, u)
      <3>1. k + 1 \in Nat \ {0}
        OBVIOUS
      <3> QED BY <2>5, <2>6, <3>1, ExpandGrows DEF D
    <2>8. Sorted(starts, colors, blocked, u, k + 1)
      BY <2>5, <2>6, ExpandSorted DEF D
    <2>9. Grows(q, u)
      BY <1>1, <1>2, <2>6, <2>7, GrowsOn
    <2> QED BY <2>4, <2>7, <2>8, <2>9
  <1>8. N * N \in S
    <2> HIDE DEF S
    <2> QED BY <1>2, <1>6, <1>7, NatSet
  <1>9. Good(Q, N * N)
    BY <1>2, <1>4, <1>8
  <1>10. Len(Q) \in Nat /\ Len(Q) <= N * N
    BY <1>9, QueueShort DEF D
  <1>11. Sorted(starts, colors, blocked, Q, Len(Q))
    <2>1. Near(starts, colors, blocked, Q, Len(Q))
      <3>1. PICK n \in Nat : n = N * N
        BY <1>2
      <3>2. \A m \in 1 .. Len(Q) : m <= n
        BY <1>10, <3>1
      <3>3. Near(starts, colors, blocked, Q, n)
        BY <1>9, <3>1 DEF Sorted
      <3> QED BY <3>2, <3>3 DEF Near
    <2>2. \A j \in 1 .. Len(Q), m \in 1 .. Len(Q) : m <= Len(Q)
      BY <1>10
    <2>3. Bred(Q, Len(Q))
      BY <1>9, <2>2 DEF Sorted, Bred
    <2> QED BY <1>9, <2>1, <2>3 DEF Sorted
  <1>12. DOMAIN starts = 1 .. Len(starts)
    BY DEF IsStart
  <1> QED BY <1>5, <1>9, <1>11, <1>12 DEF Grows, D

(* Of all walks from its start cells to a cell the search finds the first. *)
LEMMA BfsLeast ==
  ASSUME NEW starts, IsStart(starts), NEW colors, NEW blocked,
         NEW Q, Q = BfsQueue(starts, colors, blocked),
         NEW w, IsWalk(colors, blocked, w), w[1] \in ToSet(starts)
  PROVE  FoundBy(starts, Q, w)
  <1> DEFINE pre(k) == SubSeq(w, 1, k)
             S == {k \in Nat : k + 1 <= Len(w) => FoundBy(starts, Q, pre(k + 1))}
  <1>0. Len(w) \in Nat \ {0} /\ w \in Seq(PawnLocs) /\ \A i \in 1 .. Len(w) : w[i] \in PawnLocs
    BY WalkEnds DEF IsWalk
  <1>1. /\ Q \in Queues(colors, blocked, ToSet(starts)) /\ Q \in Seq(Seq(PawnLocs))
        /\ Near(starts, colors, blocked, Q, Len(Q))
        /\ Len(starts) <= Len(Q) /\ \A i \in 1 .. Len(starts) : Q[i] = <<starts[i]>>
        /\ \A i \in 1 .. Len(Q) : IsPath(Q[i])
    <2>1. /\ Q \in Queues(colors, blocked, ToSet(starts))
          /\ Sorted(starts, colors, blocked, Q, Len(Q))
          /\ Len(starts) <= Len(Q) /\ \A i \in 1 .. Len(starts) : Q[i] = <<starts[i]>>
      BY BfsSorted
    <2> QED BY <2>1, WalkIsPath DEF Queues, Sorted
  <1>2. ASSUME NEW k \in 1 .. Len(w)
        PROVE  IsPath(pre(k)) /\ End(pre(k)) = w[k] /\ Len(pre(k)) = k /\ \A i \in 1 .. k : pre(k)[i] = w[i]
    <2>1. pre(k) \in Seq(PawnLocs) /\ Len(pre(k)) = k /\ \A i \in 1 .. k : pre(k)[i] = w[i]
      BY <1>0
    <2>2. k \in 1 .. k /\ k \in Nat \ {0}
      BY <1>0
    <2> QED BY <2>1, <2>2 DEF IsPath, End
  <1>3. ASSUME NEW k \in 1 .. Len(w) - 1 PROVE pre(k + 1) = Append(pre(k), w[k + 1])
    BY <1>0
  <1> HIDE DEF pre
  <1>4. 0 \in S
    <2>1. PICK i \in 1 .. Len(starts) : w[1] = starts[i]
      <3>1. DOMAIN starts = 1 .. Len(starts)
        BY DEF IsStart
      <3> QED BY <3>1 DEF ToSet
    <2>2. 1 \in 1 .. Len(w) /\ i \in 1 .. Len(Q)
      <3>1. Len(starts) \in Nat /\ Len(Q) \in Nat
        BY <1>1 DEF IsStart
      <3>2. 1 \in 1 .. Len(w)
        BY <1>0
      <3> QED BY <1>1, <2>1, <3>1, <3>2
    <2>3. Len(pre(1)) = 1 /\ pre(1)[1] = w[1] /\ pre(1) \in Seq(PawnLocs)
      <3>1. 1 \in 1 .. 1
        OBVIOUS
      <3> QED BY <1>2, <2>2, <3>1 DEF IsPath
    <2>4. pre(1) = <<w[1]>>
      BY <2>3
    <2>5. Q[i] = pre(1)
      BY <1>1, <2>1, <2>4
    <2>6. FoundBy(starts, Q, pre(1))
      BY <2>2, <2>5 DEF FoundBy, NotAfter
    <2> QED BY <2>6
  <1>5. ASSUME NEW k \in Nat, k \in S PROVE k + 1 \in S
    <2> SUFFICES ASSUME (k + 1) + 1 <= Len(w) PROVE FoundBy(starts, Q, pre((k + 1) + 1))
      OBVIOUS
    <2>1. PICK n \in Nat : n = k + 1
      OBVIOUS
    <2>2. n \in 1 .. Len(w) - 1 /\ n \in 1 .. Len(w) /\ n + 1 \in 1 .. Len(w) /\ k + 1 <= Len(w)
      BY <1>0, <2>1
    <2>3. FoundBy(starts, Q, pre(n))
      BY <1>5, <2>1, <2>2
    <2> HIDE DEF S
    <2>4. PICK j \in 1 .. Len(Q) : End(Q[j]) = End(pre(n)) /\ NotAfter(starts, Q[j], pre(n))
      BY <2>3 DEF FoundBy
    <2>5. PICK x \in PawnLocs : x = w[n + 1] /\ Edge(colors, blocked, w[n], x)
      BY <1>0, <2>2 DEF IsWalk
    <2>6. PICK p : p = pre(n) /\ IsPath(p) /\ End(p) = w[n]
      BY <1>2, <2>2
    <2>7. pre(n + 1) = Append(p, x) /\ End(pre(n + 1)) = x
      BY <1>2, <1>3, <2>2, <2>5, <2>6
    <2>8. Edge(colors, blocked, End(Q[j]), x) /\ j <= Len(Q) /\ IsPath(Q[j])
      BY <1>1, <2>4, <2>5, <2>6
    <2>9. FoundBy(starts, Q, Append(Q[j], x))
      BY <1>1, <2>4, <2>8 DEF Near
    <2>10. PICK i \in 1 .. Len(Q) : End(Q[i]) = End(Append(Q[j], x)) /\ NotAfter(starts, Q[i], Append(Q[j], x))
      BY <2>9 DEF FoundBy
    <2>11. NotAfter(starts, Append(Q[j], x), Append(p, x)) /\ IsPath(Append(Q[j], x)) /\ IsPath(Append(p, x))
      BY <2>4, <2>6, <2>8, BeforeFurther DEF NotAfter
    <2>12. NotAfter(starts, Q[i], Append(p, x))
      BY <1>1, <2>10, <2>11, BeforeIsOrder
    <2>13. End(Append(Q[j], x)) = x
      <3>1. Q[j] \in Seq(PawnLocs)
        BY <2>8 DEF IsPath
      <3> QED BY <3>1 DEF End
    <2>14. FoundBy(starts, Q, pre(n + 1))
      BY <2>7, <2>10, <2>12, <2>13 DEF FoundBy
    <2> QED BY <2>1, <2>14
  <1>6. \A k \in Nat : k \in S
    <2> HIDE DEF S
    <2> QED BY <1>4, <1>5, NatSet
  <1>7. Len(w) - 1 \in Nat /\ (Len(w) - 1) + 1 = Len(w) /\ Len(w) \in 1 .. Len(w)
    BY <1>0
  <1>8. FoundBy(starts, Q, pre(Len(w)))
    BY <1>0, <1>6, <1>7
  <1>9. pre(Len(w)) = w
    BY <1>0, <1>7 DEF pre
  <1> QED BY <1>8, <1>9

-----------------------------------------------------------------------------
(* A cached path is the first walk to the goal row *)

(* A walk to the row that comes before all others. *)
IsWalkTo(colors, blocked, from, row, w) ==
  IsWalk(colors, blocked, w) /\ w[1] = from /\ End(w)[2] = row
IsFirst(colors, blocked, from, row, path) ==
  /\ IsWalkTo(colors, blocked, from, row, path)
  /\ \A w : IsWalkTo(colors, blocked, from, row, w) => NotAfter(<<from>>, path, w)

(* It is what Board::bfsReachable returns. *)
LEMMA BfsIsFirst ==
  ASSUME NEW colors, NEW blocked, NEW from \in PawnLocs, NEW row,
         NEW path, path = bfsReachable(colors, from, row, blocked), path # <<>>
  PROVE  IsFirst(colors, blocked, from, row, path)
  <1> DEFINE Q == BfsQueue(<<from>>, colors, blocked)
             arrived == {i \in DOMAIN Q : End(Q[i])[2] = row}
  <1>1. IsWalkTo(colors, blocked, from, row, path)
    BY BfsReaches DEF IsWalkTo
  <1>2. path = IF arrived = {} THEN <<>> ELSE Q[Min(arrived)]
    BY DEF bfsReachable
  <1>3. ToSet(<<from>>) = {from} /\ IsStart(<<from>>)
    BY OneStart
  <1>4. Q \in Queues(colors, blocked, ToSet(<<from>>)) /\ Sorted(<<from>>, colors, blocked, Q, Len(Q))
    BY <1>3, BfsSorted
  <1>5. \A w : IsWalk(colors, blocked, w) /\ w[1] = from => FoundBy(<<from>>, Q, w)
    BY <1>3, BfsLeast
  <1> HIDE DEF Q
  <1>6. DOMAIN Q = 1 .. Len(Q) /\ Len(Q) \in Nat /\ \A i \in 1 .. Len(Q) : IsPath(Q[i])
    BY <1>4, WalkIsPath DEF Queues
  <1>7. PICK n \in 1 .. Len(Q) : path = Q[n] /\ \A i \in 1 .. Len(Q) : End(Q[i])[2] = row => n <= i
    <2>1. arrived # {} /\ arrived \in SUBSET Nat
      BY <1>2, <1>6
    <2>2. Min(arrived) \in arrived /\ \A i \in arrived : Min(arrived) <= i
      <3> HIDE DEF arrived
      <3> QED BY <2>1, MinIn
    <2> QED BY <1>2, <1>6, <2>1, <2>2
  <1>8. ASSUME NEW w, IsWalkTo(colors, blocked, from, row, w) PROVE NotAfter(<<from>>, path, w)
    <2>1. FoundBy(<<from>>, Q, w) /\ IsPath(w)
      BY <1>5, <1>8, WalkIsPath DEF IsWalkTo
    <2>2. PICK i \in 1 .. Len(Q) : End(Q[i]) = End(w) /\ NotAfter(<<from>>, Q[i], w)
      BY <2>1 DEF FoundBy
    <2>3. n <= i
      BY <1>7, <1>8, <2>2 DEF IsWalkTo
    <2>4. NotAfter(<<from>>, path, Q[i])
      <3>1. CASE n = i
        BY <1>7, <3>1 DEF NotAfter
      <3>2. CASE n < i
        BY <1>4, <1>7, <3>2 DEF Sorted, Ordered, NotAfter
      <3> QED BY <1>6, <2>3, <3>1, <3>2
    <2> QED BY <1>3, <1>6, <1>7, <2>1, <2>2, <2>4, BeforeIsOrder
  <1> QED BY <1>1, <1>8 DEF IsFirst

(* There is one first walk, *)
LEMMA FirstIsOne ==
  ASSUME NEW colors, NEW blocked, NEW from \in PawnLocs, NEW row, NEW p, NEW r,
         IsFirst(colors, blocked, from, row, p), IsFirst(colors, blocked, from, row, r)
  PROVE  p = r
  <1>1. IsPath(p) /\ IsPath(r) /\ NotAfter(<<from>>, p, r) /\ NotAfter(<<from>>, r, p)
    BY WalkIsPath DEF IsFirst, IsWalkTo
  <1> QED BY <1>1, OneStart, BeforeIsOrder

(* so that whatever is first is what a search returns. *)
LEMMA FirstIsBfs ==
  ASSUME NEW colors, NEW blocked, NEW from \in PawnLocs, NEW row,
         NEW path, IsFirst(colors, blocked, from, row, path)
  PROVE  path = bfsReachable(colors, from, row, blocked)
  <1>1. CanReach(colors, blocked, from, row)
    BY WalkReaches DEF IsFirst, IsWalkTo
  <1>2. PICK r : r = bfsReachable(colors, from, row, blocked)
    OBVIOUS
  <1>3. r # <<>>
    BY <1>1, <1>2, BfsReaches
  <1>4. IsFirst(colors, blocked, from, row, r)
    BY <1>2, <1>3, BfsIsFirst
  <1> QED BY <1>2, <1>4, FirstIsOne

(* If walks are lost but not the first one, it remains the first.          *)
LEMMA FirstStays ==
  ASSUME NEW c, NEW d, NEW blocked, NEW from \in PawnLocs, NEW row,
         NEW path, path = bfsReachable(c, from, row, {}), IsWalk(d, {}, path),
         \A w : IsWalk(d, {}, w) => IsWalk(c, {}, w)
  PROVE  path = bfsReachable(d, from, row, {})
  <1>1. path # <<>>
    BY DEF IsWalk
  <1>2. IsFirst(c, {}, from, row, path)
    BY <1>1, BfsIsFirst
  <1>3. IsFirst(d, {}, from, row, path)
    BY <1>2 DEF IsFirst, IsWalkTo
  <1> QED BY <1>3, FirstIsBfs

-----------------------------------------------------------------------------
(* The cached paths are those of a new search. *)
PathsNew(b) == b.path = [pla \in Players |-> shortestPath(b.colors, b.pawn[pla], pla)]

(* The paths of a new board have just been searched. *)
LEMMA NewBoardPathsNew ==
  ASSUME NEW fences, NEW b, b = setFencesLeft(initialBoard, fences)
  PROVE  PathsNew(b)
  <1> DEFINE pawn == [pla \in Players |-> InitialPawn(pla)]
             colors == [loc \in Locs |-> IF \E pla \in Players : pawn[pla] = loc
                                         THEN CHOOSE pla \in Players : pawn[pla] = loc
                                         ELSE C_EMPTY]
             path == [pla \in Players |-> shortestPath(colors, pawn[pla], pla)]
             full == [pla \in Players |-> MAX_FENCE_NUM]
             plain == [colors |-> colors, pawn |-> pawn, fences |-> full,
                       hWalls |-> {}, vWalls |-> {}, movenum |-> 0, hash |-> {}, path |-> path]
             start == [plain EXCEPT !.hash = HashFromScratch(plain)]
  <1>1. initialBoard = start
    BY Zenon DEF initialBoard
  <1>2. start.colors = colors /\ start.pawn = pawn /\ start.path = path
    <2> HIDE DEF colors, pawn, path, full
    <2> QED OBVIOUS
  <1> HIDE DEF start, colors, pawn
  <1>4. b.colors = colors /\ b.pawn = pawn /\ b.path = path
    BY <1>1, <1>2 DEF setFencesLeft
  <1> QED BY <1>4 DEF PathsNew

(* A pawn's move does not change who can walk where. *)
LEMMA MovedWalks ==
  ASSUME NEW b, BoardTyped(b), NEW loc \in PawnLocs, NEW pla \in Players
  PROVE  \A path : IsWalk(b.colors, {}, path) <=> IsWalk(MovedColors(b, loc, pla), {}, path)
  <1> DEFINE colors == MovedColors(b, loc, pla)
  <1>1. \A l \in Locs \ PawnLocs : b.colors[l] = C_FENCE <=> colors[l] = C_FENCE
    BY MovedEdges
  <1> HIDE DEF colors
  <1>2. <<0, 0>> \in Anchors
    BY BoardSizeAssumption DEF Anchors
  <1>3. \A x, y \in PawnLocs : Edge(b.colors, {}, x, y) <=> Edge(colors, {}, x, y)
    BY <1>1, <1>2, EdgesOnBoard
  <1>4. \A path : IsWalk(b.colors, {}, path) <=> IsWalk(colors, {}, path)
    BY <1>3, EdgesOfFences
  <1> QED BY <1>4 DEF colors

(* The other player's path is as good as new after a pawn's move. *)
LEMMA MovePawnNew ==
  ASSUME NEW b, BoardTyped(b), PathsGood(b), PathsNew(b), NEW loc \in PawnLocs, NEW pla \in Players
  PROVE  PathsNew(MovePawn(b, loc, pla))
  <1> DEFINE c == MovePawn(b, loc, pla)
             colors == MovedColors(b, loc, pla)
  <1>1. c.colors = colors /\ c.pawn = [b.pawn EXCEPT ![pla] = loc] /\ c.path = MovedPath(b, loc, pla)
    BY MovePawnEffect DEF MovedColors
  <1>2. \A path : IsWalk(b.colors, {}, path) <=> IsWalk(colors, {}, path)
    BY MovedWalks
  <1> HIDE DEF c
  <1>3. b.pawn \in [Players -> PawnLocs]
    BY DEF BoardTyped
  <1>4. \A p \in Players : c.path[p] = IF p = pla THEN shortestPath(colors, loc, pla) ELSE b.path[p]
    BY <1>1 DEF PathsGood, MovedPath
  <1> HIDE DEF colors
  <1>5. ASSUME NEW p \in Players PROVE c.path[p] = shortestPath(colors, c.pawn[p], p)
    <2>1. CASE p = pla
      <3>1. c.pawn[p] = loc /\ c.path[p] = shortestPath(colors, loc, pla)
        BY <1>1, <1>3, <1>4, <2>1
      <3> QED BY <2>1, <3>1
    <2>2. CASE p # pla
      <3>1. c.pawn[p] = b.pawn[p] /\ c.path[p] = b.path[p] /\ b.pawn[p] \in PawnLocs
        BY <1>1, <1>3, <1>4, <2>2
      <3>2. b.path[p] = bfsReachable(b.colors, b.pawn[p], GoalRow(p), {}) /\ IsWalk(b.colors, {}, b.path[p])
        BY DEF PathsNew, PathsGood, PathFor, shortestPath
      <3>3. b.path[p] = bfsReachable(colors, b.pawn[p], GoalRow(p), {})
        BY <1>2, <3>1, <3>2, FirstStays
      <3> QED BY <3>1, <3>3 DEF shortestPath
    <2> QED BY <2>1, <2>2
  <1>6. c.path = [p \in Players |-> c.path[p]]
    BY <1>1 DEF MovedPath, PathsNew
  <1> QED BY <1>1, <1>5, <1>6 DEF PathsNew, c

(* A wall only takes ways away, so a path that it does not cut stays the   *)
(* first, and one that it cuts is searched again.                          *)
LEMMA PlaceWallNew ==
  ASSUME NEW b, BoardTyped(b), PathsGood(b), PathsNew(b),
         NEW anchor \in Anchors, NEW isVertical \in BOOLEAN,
         NEW pla \in Players, b.fences[pla] > 0,
         NEW c, c = PlaceWall(b, anchor, isVertical, pla)
  PROVE  PathsNew(c)
  <1> DEFINE arms == Arms(WallCenter(anchor), isVertical)
             colors == WalledColors(b, anchor, isVertical)
  <1>1. c.colors = colors /\ c.pawn = b.pawn /\ c.path = WalledPath(b, anchor, isVertical)
    <2>1. IsWalled(b, anchor, isVertical, pla, c)
      BY PlaceWallEffect
    <2> QED BY <2>1 DEF IsWalled, WalledColors
  <1>2. \A path : IsWalk(b.colors, arms, path) <=> IsWalk(colors, {}, path)
    BY WalledEdges
  <1>3. \A p \in Players :
          c.path[p] = IF pathCrossesWall(b.path[p], arms) THEN shortestPath(colors, b.pawn[p], p) ELSE b.path[p]
    BY <1>1 DEF WalledPath
  <1> HIDE DEF arms, colors
  <1>4. \A path : IsWalk(b.colors, arms, path) => IsWalk(b.colors, {}, path)
    BY DEF IsWalk, Edge
  <1>5. ASSUME NEW p \in Players PROVE c.path[p] = shortestPath(colors, b.pawn[p], p)
    <2>1. b.pawn[p] \in PawnLocs /\ IsWalk(b.colors, {}, b.path[p])
      BY DEF BoardTyped, PathsGood, PathFor
    <2>2. CASE pathCrossesWall(b.path[p], arms)
      BY <1>3, <2>2
    <2>3. CASE ~pathCrossesWall(b.path[p], arms)
      <3>1. IsWalk(colors, {}, b.path[p])
        BY <1>2, <2>1, <2>3, NotCrossed
      <3>2. b.path[p] = bfsReachable(b.colors, b.pawn[p], GoalRow(p), {})
        BY DEF PathsNew, shortestPath
      <3>3. \A w : IsWalk(colors, {}, w) => IsWalk(b.colors, {}, w)
        BY <1>2, <1>4
      <3>4. b.path[p] = bfsReachable(colors, b.pawn[p], GoalRow(p), {})
        BY <2>1, <3>1, <3>2, <3>3, FirstStays
      <3> QED BY <1>3, <2>3, <3>4 DEF shortestPath
    <2> QED BY <2>2, <2>3
  <1>6. c.path = [p \in Players |-> c.path[p]]
    BY <1>1 DEF WalledPath
  <1> QED BY <1>1, <1>5, <1>6 DEF PathsNew

-----------------------------------------------------------------------------
(* Undo is the inverse of a recorded move *)

(* A legal move leaves two paths that a new search would return. *)
LEMMA PlayKeepsNew ==
  ASSUME NEW b, BoardTyped(b), PathsGood(b), PathsNew(b),
         NEW loc \in Locs, NEW pla \in Players, isLegal(b, loc, pla),
         NEW c, c = playMoveAssumeLegal(b, loc, pla)
  PROVE  PathsNew(c)
  <1> DEFINE d == [b EXCEPT !.movenum = @ + 1]
  <1>1. BoardTyped(d) /\ Core(d) = Core(b) /\ d.path = b.path
    BY CountEffect
  <1>2. /\ loc \in PawnLocs => c = MovePawn(d, loc, pla)
        /\ loc \notin PawnLocs => c = PlaceWall(d, AnchorOf(loc), IsVWallLoc(loc), pla)
    BY DEF playMoveAssumeLegal
  <1> HIDE DEF d
  <1>3. d.colors = b.colors /\ d.pawn = b.pawn /\ d.fences = b.fences
    BY <1>1 DEF Core
  <1>4. PathsGood(d) /\ PathsNew(d)
    BY <1>1, <1>3 DEF PathsGood, PathsNew
  <1>5. CASE loc \in PawnLocs
    BY <1>1, <1>2, <1>4, <1>5, MovePawnNew
  <1>6. CASE loc \notin PawnLocs
    <2>1. PICK v \in BOOLEAN : /\ IsVWallLoc(loc) = v
                               /\ AnchorOf(loc) \in Anchors /\ b.fences[pla] > 0
                               /\ NoOverlap(b, AnchorOf(loc), v)
      BY <1>6, WallMoveLegal
    <2>2. c = PlaceWall(d, AnchorOf(loc), v, pla)
      BY <1>2, <1>6, <2>1
    <2> QED BY <1>1, <1>3, <1>4, <2>1, <2>2, PlaceWallNew
  <1> QED BY <1>5, <1>6

(* Undo searches again the paths that the move may have changed. *)
LEMMA UndoNew ==
  ASSUME NEW b, BoardTyped(b), Consistent(b), PathsGood(b),
         NEW loc \in Locs, NEW pla \in Players, isLegal(b, loc, pla),
         NEW d, BoardTyped(d), PathsGood(d), PathsNew(d), Core(d) = Core(playMoveAssumeLegal(b, loc, pla)),
         NEW c, c = undo(d, MoveRecord(b, loc, pla))
  PROVE  PathsNew(c)
  <1> DEFINE record == MoveRecord(b, loc, pla)
  <1>1. c.colors = b.colors /\ c.pawn = b.pawn
    <2>1. Core(c) = Core(b)
      BY UndoReturns
    <2> QED BY <2>1 DEF Core
  <1>2. /\ c.path = [p \in Players |-> c.path[p]]
        /\ \A p \in Players : c.path[p] = IF p \in PathsToRedo(record)
                                         THEN shortestPath(c.colors, c.pawn[p], p) ELSE d.path[p]
    <2> HIDE DEF record
    <2>1. c = undo(d, record)
      BY DEF record
    <2>2. c.path = [p \in Players |-> IF p \in PathsToRedo(record)
                                      THEN shortestPath(c.colors, c.pawn[p], p) ELSE d.path[p]]
      BY <2>1, UndoPathField
    <2> QED BY <2>2
  <1>3. record.loc = loc /\ record.pla = pla
    BY DEF MoveRecord
  <1> HIDE DEF record
  <1>4. ASSUME NEW p \in Players, p \notin PathsToRedo(record)
        PROVE  c.path[p] = shortestPath(c.colors, c.pawn[p], p)
    <2>1. loc \in PawnLocs /\ p # pla
      BY <1>3, <1>4 DEF PathsToRedo
    <2>2. PICK m : m = playMoveAssumeLegal(b, loc, pla)
      OBVIOUS
    <2>3. m.colors = MovedColors(b, loc, pla) /\ m.pawn = [b.pawn EXCEPT ![pla] = loc]
      BY <2>1, <2>2, PlayedPawn
    <2>4. d.colors = MovedColors(b, loc, pla) /\ d.pawn[p] = b.pawn[p] /\ b.pawn[p] \in PawnLocs
      BY <2>1, <2>2, <2>3 DEF Core, BoardTyped
    <2>5. \A path : IsWalk(b.colors, {}, path) <=> IsWalk(d.colors, {}, path)
      BY <2>1, <2>4, MovedWalks
    <2>6. d.path[p] = bfsReachable(d.colors, b.pawn[p], GoalRow(p), {}) /\ IsWalk(d.colors, {}, d.path[p])
      BY <2>4 DEF PathsNew, PathsGood, PathFor, shortestPath
    <2>7. d.path[p] = bfsReachable(b.colors, b.pawn[p], GoalRow(p), {})
      BY <2>4, <2>5, <2>6, FirstStays
    <2> QED BY <1>1, <1>2, <1>4, <2>7 DEF shortestPath
  <1>5. ASSUME NEW p \in Players PROVE c.path[p] = shortestPath(c.colors, c.pawn[p], p)
    BY <1>2, <1>4
  <1> QED BY <1>2, <1>5 DEF PathsNew

-----------------------------------------------------------------------------
(* The last invariant: no cached path differs from a new search's. *)
PathNewInv == PathsNew(board) /\ \A i \in 1 .. Len(records) : PathsNew(records[i].before)

(* PathNewInv is inductive relative to IInv and PathInv. *)
LEMMA InitPathsNew == Init => PathNewInv
  <1> SUFFICES ASSUME Init PROVE PathNewInv
    OBVIOUS
  <1>1. PathsNew(board)
    BY NewBoardPathsNew DEF Init
  <1>2. Len(records) = 0 /\ 1 .. 0 = {}
    BY DEF Init
  <1> QED BY <1>1, <1>2 DEF PathNewInv

(* What taking a move back leads to. *)
LEMMA UndoneIs ==
  ASSUME IInv, PathInv, PathNewInv, undoLast
  PROVE  PathsNew(board') /\ board' = Last(records).before
  <1> DEFINE n == Len(records)
             S == {records[i] : i \in DOMAIN records}
  <1>0. records \in Seq(S) /\ n \in Nat /\ BoardTyped(board) /\ PathsGood(board) /\ PathsNew(board)
    BY DEF IInv, PathInv, PathNewInv
  <1>1. n # 0 /\ Last(records) = records[n] /\ n \in 1 .. n
    BY <1>0 DEF undoLast, Last
  <1>2. PICK e : e = records[n]
    OBVIOUS
  <1>3. IsEntry(e, board) /\ PathsGood(e.before) /\ PathsNew(e.before)
    BY <1>0, <1>1, <1>2 DEF IInv, After, PathInv, PathNewInv
  <1>4. PICK c : c = board'
    OBVIOUS
  <1>5. PICK b : b = e.before
    OBVIOUS
  <1>6. c = undo(board, MoveRecord(b, e.record.loc, e.record.pla))
    BY <1>1, <1>2, <1>3, <1>4, <1>5 DEF undoLast, IsEntry
  <1>7. /\ BoardTyped(b) /\ Consistent(b) /\ b.movenum < MaxMoves /\ PathsGood(b) /\ PathsNew(b)
        /\ e.record.loc \in Locs /\ e.record.pla \in Players
        /\ isLegal(b, e.record.loc, e.record.pla)
        /\ Core(board) = Core(playMoveAssumeLegal(b, e.record.loc, e.record.pla))
    BY <1>3, <1>5 DEF IsEntry
  <1>8. PathsNew(c)
    BY <1>0, <1>6, <1>7, UndoNew
  <1>9. Core(c) = Core(b) /\ c.movenum = b.movenum /\ c.hash = b.hash /\ BoardTyped(c)
    BY <1>0, <1>6, <1>7, UndoReturns
  <1>10. /\ c.colors = b.colors /\ c.pawn = b.pawn /\ c.fences = b.fences
         /\ c.hWalls = b.hWalls /\ c.vWalls = b.vWalls
    BY <1>9 DEF Core
  <1>11. c.path = b.path
    BY <1>7, <1>8, <1>10 DEF PathsNew
  <1>12. c = b
    BY <1>7, <1>9, <1>10, <1>11 DEF BoardTyped, IsRecord, Fields
  <1> QED BY <1>1, <1>2, <1>4, <1>5, <1>8, <1>12

(* Every move and every undo keeps it. *)
LEMMA NextPathsNew == IInv /\ PathInv /\ PathNewInv /\ [Next]_vars => PathNewInv'
  <1> SUFFICES ASSUME IInv, PathInv, PathNewInv, [Next]_vars PROVE PathNewInv'
    OBVIOUS
  <1> DEFINE n == Len(records)
             S == {records[i] : i \in DOMAIN records}
  <1>0. records \in Seq(S) /\ n \in Nat /\ BoardTyped(board)
    BY DEF IInv
  <1>1. ASSUME NEW loc \in Locs, NEW pla \in Players, playMove(loc, pla)
        PROVE  PathNewInv'
    <2>1. PathsNew(board')
      BY <1>0, <1>1, PlayKeepsNew DEF PathInv, PathNewInv, playMove
    <2>2. Len(records') = 0 /\ 1 .. 0 = {}
      BY <1>1 DEF playMove
    <2> QED BY <2>1, <2>2 DEF PathNewInv
  <1>2. ASSUME NEW loc \in Locs, NEW pla \in Players, playMoveRecorded(loc, pla)
        PROVE  PathNewInv'
    <2> DEFINE e == [record |-> MoveRecord(board, loc, pla), before |-> board]
    <2>1. PathsNew(board')
      BY <1>0, <1>2, PlayKeepsNew DEF PathInv, PathNewInv, playMoveRecorded
    <2>2. records' = Append(records, e) /\ e.before = board
      BY <1>2 DEF playMoveRecorded
    <2> HIDE DEF e
    <2>3. /\ Len(records') = n + 1 /\ records'[n + 1] = e
          /\ \A i \in 1 .. n : records'[i] = records[i]
      BY <1>0, <2>2
    <2>4. ASSUME NEW i \in 1 .. n + 1 PROVE PathsNew(records'[i].before)
      BY <1>0, <2>2, <2>3 DEF PathNewInv
    <2> QED BY <2>1, <2>3, <2>4 DEF PathNewInv
  <1>3. ASSUME undoLast PROVE PathNewInv'
    <2>1. PathsNew(board')
      BY <1>3, UndoneIs
    <2>2. records' = [i \in 1 .. n - 1 |-> records[i]]
      BY <1>3 DEF undoLast, Front
    <2>3. n - 1 \in Nat
      BY <1>0, <1>3 DEF undoLast
    <2>4. Len(records') = n - 1
      BY <2>2, <2>3
    <2>5. ASSUME NEW i \in 1 .. n - 1 PROVE PathsNew(records'[i].before)
      BY <1>0, <2>2, <2>3 DEF PathNewInv
    <2> QED BY <2>1, <2>4, <2>5 DEF PathNewInv
  <1>4. CASE UNCHANGED vars
    BY <1>4 DEF vars, PathNewInv
  <1> QED BY <1>1, <1>2, <1>3, <1>4 DEF Next

(* So it always holds. *)
LEMMA PathsNewOfSpec == Spec => []PathNewInv
  BY InitPathsNew, NextPathsNew, InvOfSpec, PathsOfSpec, PTL DEF Spec

(* Board::undo gives back the board as it was before the recorded move,    *)
(* the hash and the cached paths included, although it takes only some of  *)
(* it from the record, searches some paths again and leaves others alone.  *)
THEOREM UndoIsInverse == Spec => UndoRestores
  <1>1. IInv /\ PathInv /\ PathNewInv /\ [Next]_vars => [undoLast => board' = Last(records).before]_vars
    BY UndoneIs
  <1> QED BY <1>1, InvOfSpec, PathsOfSpec, PathsNewOfSpec, PTL DEF Spec, UndoRestores

-----------------------------------------------------------------------------
(* A path is as long as the distance map says *)

Backwards(w) == [i \in 1 .. Len(w) |-> w[Len(w) + 1 - i]]

(* A walk can be walked back. *)
LEMMA WalkBack ==
  ASSUME NEW colors, NEW blocked, NEW w, IsWalk(colors, blocked, w)
  PROVE  /\ IsWalk(colors, blocked, Backwards(w)) /\ Len(Backwards(w)) = Len(w)
         /\ Backwards(w)[1] = End(w) /\ End(Backwards(w)) = w[1]
  <1> DEFINE n == Len(w)
             r == Backwards(w)
  <1>1. n \in Nat \ {0} /\ \A i \in 1 .. n : w[i] \in PawnLocs
    BY WalkEnds
  <1>2. \A i \in 1 .. n : r[i] = w[n + 1 - i] /\ n + 1 - i \in 1 .. n
    BY <1>1 DEF Backwards
  <1>3. r \in Seq(PawnLocs) /\ Len(r) = n
    BY <1>1 DEF Backwards
  <1> HIDE DEF r
  <1>4. r[1] = End(w) /\ End(r) = w[1] /\ r # <<>>
    <2>1. 1 \in 1 .. n /\ n \in 1 .. n /\ n + 1 - 1 = n /\ n + 1 - n = 1
      BY <1>1
    <2> QED BY <1>1, <1>2, <1>3, <2>1 DEF End
  <1>5. ASSUME NEW i \in 1 .. Len(r) - 1 PROVE Edge(colors, blocked, r[i], r[i + 1])
    <2>1. PICK k \in 1 .. n - 1 : k = n - i
      BY <1>1, <1>3
    <2>2. i \in 1 .. n /\ i + 1 \in 1 .. n /\ n + 1 - i = k + 1 /\ n + 1 - (i + 1) = k
      BY <1>1, <1>3, <2>1
    <2>3. r[i] = w[k + 1] /\ r[i + 1] = w[k]
      BY <1>2, <2>2
    <2>4. Edge(colors, blocked, w[k], w[k + 1])
      BY DEF IsWalk
    <2> QED BY <2>3, <2>4, EdgeBack
  <1> QED BY <1>3, <1>4, <1>5 DEF IsWalk, r

(* What is not after a path is not longer. *)
LEMMA NotAfterIsShort ==
  ASSUME NEW starts, NEW w, NEW v, IsPath(w), IsPath(v), NotAfter(starts, w, v)
  PROVE  Len(w) <= Len(v)
  BY DEF NotAfter, Before, IsPath

(* The search from the pawn and the search from the goal row find ways of  *)
(* the same length.                                                        *)
LEMMA DistMapIsLength ==
  ASSUME NEW colors, NEW pla \in Players, NEW loc \in PawnLocs,
         CanReach(colors, {}, loc, GoalRow(pla))
  PROVE  calDistMap(colors, pla)[loc] = Len(shortestPath(colors, loc, pla)) - 1
  <1> DEFINE goals == [c \in 1 .. N |-> <<2 * (c - 1), GoalRow(pla)>>]
             Q == BfsQueue(goals, colors, {})
             DistTo(c) == Len(Q[CHOOSE i \in DOMAIN Q : End(Q[i]) = c]) - 1
  <1>1. IsStart(goals) /\ ToSet(goals) = {c \in PawnLocs : c[2] = GoalRow(pla)}
    BY GoalCells
  <1>2. calDistMap(colors, pla)[loc] = IF loc \in Seen(Q) THEN DistTo(loc) ELSE -1
    BY DEF calDistMap
  <1>3. PICK p : p = shortestPath(colors, loc, pla)
    OBVIOUS
  <1>4. p # <<>> /\ IsFirst(colors, {}, loc, GoalRow(pla), p)
    BY <1>3, BfsReaches, BfsIsFirst DEF shortestPath
  <1>5. IsWalk(colors, {}, p) /\ p[1] = loc /\ End(p)[2] = GoalRow(pla) /\ End(p) \in PawnLocs /\ IsPath(p)
    BY <1>4, WalkEnds, WalkIsPath DEF IsFirst, IsWalkTo
  <1> HIDE DEF goals
  <1>6. Q \in Queues(colors, {}, ToSet(goals))
    BY <1>1, BfsSorted
  <1>7. PICK r : /\ IsWalk(colors, {}, r) /\ r[1] = End(p) /\ End(r) = loc /\ Len(r) = Len(p)
    BY <1>5, WalkBack
  <1>8. FoundBy(goals, Q, r)
    BY <1>1, <1>5, <1>7, BfsLeast
  <1> HIDE DEF Q
  <1>9. DOMAIN Q = 1 .. Len(Q) /\ \A i, j \in 1 .. Len(Q) : End(Q[i]) = End(Q[j]) => i = j
    <2>1. Q \in Seq(Seq(PawnLocs)) /\ \A i, j \in 1 .. Len(Q) : End(Q[i]) = End(Q[j]) => i = j
      BY <1>6, Zenon DEF Queues
    <2>2. DOMAIN Q = 1 .. Len(Q)
      BY <2>1
    <2> QED BY <2>1, <2>2
  <1>10. PICK k \in 1 .. Len(Q) : End(Q[k]) = loc /\ NotAfter(goals, Q[k], r)
    BY <1>7, <1>8 DEF FoundBy
  <1>11. loc \in Seen(Q) /\ (CHOOSE i \in DOMAIN Q : End(Q[i]) = loc) = k
    BY <1>9, <1>10 DEF Seen
  <1>12. calDistMap(colors, pla)[loc] = Len(Q[k]) - 1
    BY <1>2, <1>11
  <1>13. IsWalk(colors, {}, Q[k]) /\ Q[k][1] \in ToSet(goals)
    BY <1>6, <1>10 DEF Queues
  <1>14. Len(Q[k]) <= Len(p)
    BY <1>7, <1>10, <1>13, NotAfterIsShort, WalkIsPath
  <1>15. PICK s : /\ IsWalk(colors, {}, s) /\ s[1] = loc /\ End(s) = Q[k][1] /\ Len(s) = Len(Q[k])
    BY <1>10, <1>13, WalkBack
  <1>16. IsWalkTo(colors, {}, loc, GoalRow(pla), s)
    BY <1>1, <1>13, <1>15 DEF IsWalkTo
  <1>17. Len(p) <= Len(Q[k])
    BY <1>4, <1>5, <1>15, <1>16, NotAfterIsShort, WalkIsPath DEF IsFirst
  <1>18. Len(p) \in Nat /\ Len(Q[k]) \in Nat
    BY <1>5, <1>13, WalkEnds
  <1> QED BY <1>3, <1>12, <1>14, <1>17, <1>18

(* The paths of a board in play. *)
LEMMA FreshOfInv ==
  ASSUME NEW b, BoardTyped(b), PathsGood(b), PathsNew(b), NEW pla \in Players
  PROVE  /\ b.path[pla] = shortestPath(b.colors, b.pawn[pla], pla)
         /\ Len(b.path[pla]) - 1 = calDistMap(b.colors, pla)[b.pawn[pla]]
  <1>1. b.path[pla] = shortestPath(b.colors, b.pawn[pla], pla)
    BY DEF PathsNew
  <1>2. b.pawn[pla] \in PawnLocs /\ CanReach(b.colors, {}, b.pawn[pla], GoalRow(pla))
    BY PathReaches DEF BoardTyped, PathsGood
  <1>3. calDistMap(b.colors, pla)[b.pawn[pla]] = Len(shortestPath(b.colors, b.pawn[pla], pla)) - 1
    BY <1>2, DistMapIsLength
  <1> QED BY <1>1, <1>3

(* What the board keeps beside the position is never stale: the hash, with *)
(* the one foreseen for a pawn move, is that of the position, and a cached *)
(* path is the one that a new search would return, as long as the distance *)
(* map says, after any moves and undos (Board::playMoveAssumeLegal,        *)
(* Board::undo).                                                           *)
THEOREM NothingDerivedIsStale == Spec => []DerivedDataIsFresh
  <1>1. IInv /\ PathInv /\ PathNewInv => PathsFresh
    BY FreshOfInv DEF IInv, PathInv, PathNewInv, PathsFresh
  <1>2. Spec => []PathsFresh
    BY <1>1, InvOfSpec, PathsOfSpec, PathsNewOfSpec, PTL
  <1>3. HashIsOfPosition /\ PathsFresh => DerivedDataIsFresh
    BY DEF DerivedDataIsFresh
  <1> QED BY <1>2, <1>3, HashNeverStale, PTL

-----------------------------------------------------------------------------
(* Boards in play *)

(* What BoardPlay keeps of its boards is what InPlay says. *)
LEMMA InPlayIs ==
  ASSUME NEW b
  PROVE  InPlay(b) <=> /\ BoardTyped(b) /\ Consistent(b) /\ b.hash = HashFromScratch(b)
                       /\ PathsGood(b) /\ PathsNew(b)
  <1> DEFINE r == [colors |-> b.colors, pawn |-> b.pawn, fences |-> b.fences, hWalls |-> b.hWalls,
                   vWalls |-> b.vWalls, movenum |-> b.movenum, hash |-> b.hash, path |-> b.path]
  <1>1. IsRecord(b) <=> b = r
    <2>1. ASSUME b = r PROVE IsRecord(b)
      <3>1. DOMAIN r = Fields /\ r = [f \in DOMAIN r |-> r[f]]
        BY DEF Fields
      <3> HIDE DEF r
      <3>2. b = [f \in Fields |-> b[f]]
        BY <2>1, <3>1
      <3> QED BY <3>2 DEF IsRecord
    <2>2. ASSUME IsRecord(b) PROVE b = r
      BY <2>2 DEF IsRecord, Fields
    <2> QED BY <2>1, <2>2
  <1>2. ASSUME BoardTyped(b), PathsNew(b)
        PROVE  PathsGood(b) <=> \A pla \in Players : b.path[pla] # <<>>
    BY <1>2, BfsReaches DEF PathsNew, BoardTyped, shortestPath, PathFor, IsWalk, PathsGood
  <1> QED BY <1>1, <1>2 DEF InPlay, BoardTyped, PathsNew

(* A legal move leads from a board in play to one. *)
LEMMA PlayInPlay ==
  ASSUME NEW b, InPlay(b), NEW loc \in Locs, NEW pla \in Players, isLegal(b, loc, pla),
         NEW c, c = playMoveAssumeLegal(b, loc, pla)
  PROVE  InPlay(c)
  BY InPlayIs, PlayKeeps, PlayKeepsPaths, PlayKeepsHash, PlayKeepsNew

(* A new board, with any handicap, is in play. *)
LEMMA NewInPlay ==
  ASSUME NEW fences \in [Players -> 0 .. MAX_FENCE_NUM]
  PROVE  InPlay(setFencesLeft(initialBoard, fences))
  BY InPlayIs, NewBoard, NewBoardHash, NewBoardPaths, NewBoardPathsNew

(* Whatever is placed on a board and taken back, it stays in play: every   *)
(* position that BoardPlay reaches is a start that GamePlay may assume.    *)
THEOREM BoardStaysInPlay == Spec => []InPlay(board)
  <1>1. IInv /\ HashInv /\ PathInv /\ PathNewInv => InPlay(board)
    BY InPlayIs DEF IInv, HashInv, PathInv, PathNewInv
  <1> QED BY <1>1, InvOfSpec, HashOfSpec, PathsOfSpec, PathsNewOfSpec, PTL

(* The supply is the handicap of the board that init makes. *)
LEMMA InitialInPlay == InPlay(initialBoard)
  <1> DEFINE pawn == [pla \in Players |-> InitialPawn(pla)]
             colors == [loc \in Locs |-> IF \E pla \in Players : pawn[pla] = loc
                                         THEN CHOOSE pla \in Players : pawn[pla] = loc
                                         ELSE C_EMPTY]
             path == [pla \in Players |-> shortestPath(colors, pawn[pla], pla)]
             full == [pla \in Players |-> MAX_FENCE_NUM]
             plain == [colors |-> colors, pawn |-> pawn, fences |-> full,
                       hWalls |-> {}, vWalls |-> {}, movenum |-> 0, hash |-> {}, path |-> path]
             start == [plain EXCEPT !.hash = HashFromScratch(plain)]
             b == setFencesLeft(initialBoard, full)
  <1>1. initialBoard = start
    BY Zenon DEF initialBoard
  <1>2. full \in [Players -> 0 .. MAX_FENCE_NUM]
    BY FenceNumAssumption
  <1>3. InPlay(b)
    BY <1>2, NewInPlay
  <1>4. PICK h : h = HashFromScratch(plain)
    OBVIOUS
  <1>5. \A A, B : SymDiff(SymDiff(A, B), B) = A
    BY DEF SymDiff
  <1>6. b = start
    <2> DEFINE K == UNION {FenceNumKey(full[pla], pla) : pla \in Players}
    <2>1. start = [plain EXCEPT !.hash = h]
      BY <1>4
    <2>2. start.fences = full /\ start.hash = h
      <3> HIDE DEF colors, pawn, path, full
      <3> QED BY <2>1
    <2>3. initialBoard.fences = full /\ initialBoard.hash = h
      BY <1>1, <2>2
    <2>4. b = [initialBoard EXCEPT
                 !.fences = full,
                 !.hash = SymDiff(SymDiff(initialBoard.hash, UNION {FenceNumKey(initialBoard.fences[pla], pla) : pla \in Players}), K)]
      BY DEF setFencesLeft
    <2> HIDE DEF start
    <2>5. b = [initialBoard EXCEPT !.fences = full, !.hash = SymDiff(SymDiff(h, K), K)]
      BY <2>3, <2>4
    <2> HIDE DEF K
    <2>6. b = [initialBoard EXCEPT !.fences = full, !.hash = h]
      BY <1>5, <2>5
    <2> HIDE DEF b
    <2>7. IsRecord(initialBoard)
      <3> HIDE DEF colors, pawn, path, full
      <3> QED BY <1>1, <2>1 DEF start, IsRecord, Fields
    <2>8. b = initialBoard
      <3> HIDE DEF full
      <3> QED BY <2>3, <2>6, <2>7 DEF IsRecord, Fields
    <2> QED BY <1>1, <2>8
  <1> QED BY <1>1, <1>3, <1>6

-----------------------------------------------------------------------------
(* What a move changes, what a situation hash tells, and how far it is to go *)

(* The key of a player is not in the hash of a board. *)
LEMMA PlayerKeyApart ==
  ASSUME NEW b, NEW p
  PROVE  <<"player", p>> \notin HashFromScratch(b)
  <1>1. \A a, c, q : <<"player", p>> # <<a, c, q>>
    OBVIOUS
  <1> QED BY <1>1, HashMembers DEF IsKeyOf

(* Two positions with the same keys are the same. *)
LEMMA KeysDetermine ==
  ASSUME NEW b, InPlay(b), NEW c, InPlay(c), HashFromScratch(b) = HashFromScratch(c)
  PROVE  b.pawn = c.pawn /\ b.colors = c.colors /\ b.fences = c.fences
  <1>0. /\ b.pawn \in [Players -> PawnLocs] /\ c.pawn \in [Players -> PawnLocs]
        /\ b.colors \in [Locs -> Colors] /\ c.colors \in [Locs -> Colors]
        /\ DOMAIN b.fences = Players /\ b.fences = [p \in Players |-> b.fences[p]]
        /\ DOMAIN c.fences = Players /\ c.fences = [p \in Players |-> c.fences[p]]
        /\ Consistent(b) /\ Consistent(c)
    BY DEF InPlay
  <1>1. \A x : IsKeyOf(x, b) <=> IsKeyOf(x, c)
    BY HashMembers
  <1>2. ASSUME NEW p \in Players PROVE b.pawn[p] = c.pawn[p]
    <2>1. IsKeyOf(<<"board", b.pawn[p], p>>, c)
      BY <1>1 DEF IsKeyOf
    <2> QED BY <2>1, KeysApart, PlayersDistinct DEF IsKeyOf
  <1>3. ASSUME NEW p \in Players PROVE b.fences[p] = c.fences[p]
    <2>1. IsKeyOf(<<"fences", b.fences[p], p>>, c)
      BY <1>1 DEF IsKeyOf
    <2> QED BY <2>1, KeysApart DEF IsKeyOf
  <1>4. ASSUME NEW l \in Locs PROVE b.colors[l] = C_FENCE <=> c.colors[l] = C_FENCE
    <2>1. b.colors[l] = C_FENCE <=> IsKeyOf(<<"board", l, C_FENCE>>, b)
      BY KeysApart, PlayersDistinct DEF IsKeyOf
    <2>2. c.colors[l] = C_FENCE <=> IsKeyOf(<<"board", l, C_FENCE>>, c)
      BY KeysApart, PlayersDistinct DEF IsKeyOf
    <2> QED BY <1>1, <2>1, <2>2
  <1>5. ASSUME NEW l \in Locs PROVE b.colors[l] = c.colors[l]
    BY <1>0, <1>2, <1>4 DEF Consistent, Colors
  <1> QED BY <1>0, <1>2, <1>3, <1>5

(* Two situations have the same hash exactly when they are the same: who   *)
(* is to move, pawns, colors and walls left (Board::getSitHash).           *)
LEMMA SitHashIs ==
  ASSUME NEW b, InPlay(b), NEW c, InPlay(c), NEW p \in Players, NEW q \in Players
  PROVE  getSitHash(b, p) = getSitHash(c, q)
           <=> p = q /\ b.pawn = c.pawn /\ b.colors = c.colors /\ b.fences = c.fences
  <1>1. b.hash = HashFromScratch(b) /\ c.hash = HashFromScratch(c)
    BY DEF InPlay
  <1>2. /\ \A r : <<"player", r>> \notin b.hash /\ <<"player", r>> \notin c.hash
        /\ \A x : x \in getSitHash(b, p) <=> (x \in b.hash <=> x # <<"player", p>>)
        /\ \A x : x \in getSitHash(c, q) <=> (x \in c.hash <=> x # <<"player", q>>)
    <2>1. \A r : <<"player", r>> \notin b.hash /\ <<"player", r>> \notin c.hash
      BY <1>1, PlayerKeyApart
    <2>2. ASSUME NEW x PROVE x \in getSitHash(b, p) <=> (x \in b.hash <=> x # <<"player", p>>)
      BY SymDiffIs DEF getSitHash, PlayerKey
    <2>3. ASSUME NEW x PROVE x \in getSitHash(c, q) <=> (x \in c.hash <=> x # <<"player", q>>)
      BY SymDiffIs DEF getSitHash, PlayerKey
    <2> QED BY <2>1, <2>2, <2>3
  <1>3. ASSUME getSitHash(b, p) = getSitHash(c, q)
        PROVE  p = q /\ b.pawn = c.pawn /\ b.colors = c.colors /\ b.fences = c.fences
    <2>1. <<"player", p>> = <<"player", q>>
      BY <1>2, <1>3
    <2>2. p = q
      BY <2>1
    <2>3. \A x : x \in b.hash <=> x \in c.hash
      BY <1>2, <1>3, <2>2
    <2>4. HashFromScratch(b) = HashFromScratch(c)
      BY <1>1, <2>3 DEF HashFromScratch
    <2> QED BY <2>2, <2>4, KeysDetermine
  <1>4. ASSUME p = q, b.pawn = c.pawn, b.colors = c.colors, b.fences = c.fences
        PROVE  getSitHash(b, p) = getSitHash(c, q)
    BY <1>1, <1>4 DEF HashFromScratch, getSitHash
  <1> QED BY <1>3, <1>4

(* The walls that the players have left. *)
WallsLeft(b) == b.fences[P_BLACK] + b.fences[P_WHITE]

(* A move of a player leaves the other's pawn alone, a pawn's move leaves  *)
(* the walls, and a wall is taken out of a supply.                         *)
IsMoved(b, loc, pla, c) ==
  /\ c.pawn[getOpp(pla)] = b.pawn[getOpp(pla)]
  /\ loc \in PawnLocs => c.fences = b.fences
  /\ loc \notin PawnLocs => WallsLeft(c) < WallsLeft(b) /\ c.pawn = b.pawn
LEMMA OppIs ==
  ASSUME NEW pla \in Players
  PROVE  /\ getOpp(pla) \in Players /\ getOpp(pla) # pla /\ getOpp(getOpp(pla)) = pla
         /\ \A q \in Players : q = pla \/ q = getOpp(pla)
  BY DEF getOpp, Players, P_BLACK, P_WHITE
LEMMA WallsLeftNat ==
  ASSUME NEW b, InPlay(b)
  PROVE  WallsLeft(b) \in Nat /\ b.fences[P_BLACK] \in Nat /\ b.fences[P_WHITE] \in Nat
  <1>1. b.fences[P_BLACK] \in 0 .. MAX_FENCE_NUM /\ b.fences[P_WHITE] \in 0 .. MAX_FENCE_NUM
    BY PlayersDistinct DEF InPlay
  <1> QED BY <1>1, FenceNumAssumption DEF WallsLeft
LEMMA MovesOne ==
  ASSUME NEW b, InPlay(b), NEW loc \in Locs, NEW pla \in Players, isLegal(b, loc, pla),
         NEW c, c = playMoveAssumeLegal(b, loc, pla)
  PROVE  IsMoved(b, loc, pla, c)
  <1>0. BoardTyped(b) /\ b.pawn \in [Players -> PawnLocs] /\ b.fences \in [Players -> 0 .. MAX_FENCE_NUM]
    BY InPlayIs DEF InPlay
  <1>1. CASE loc \in PawnLocs
    <2>1. c.pawn = [b.pawn EXCEPT ![pla] = loc] /\ c.fences = b.fences
      BY <1>0, <1>1, PlayedPawn
    <2>2. c.pawn[getOpp(pla)] = b.pawn[getOpp(pla)]
      BY <1>0, <2>1, OppIs
    <2> QED BY <1>1, <2>1, <2>2 DEF IsMoved
  <1>2. CASE loc \notin PawnLocs
    <2>1. PICK v \in BOOLEAN : /\ IsVWallLoc(loc) = v
                               /\ AnchorOf(loc) \in Anchors /\ b.fences[pla] > 0
                               /\ NoOverlap(b, AnchorOf(loc), v)
      BY <1>2, WallMoveLegal
    <2>2. c.pawn = b.pawn /\ c.fences = [b.fences EXCEPT ![pla] = b.fences[pla] - 1]
      BY <1>0, <1>2, <2>1, PlayedWall
    <2>3. /\ b.fences[P_BLACK] \in Nat /\ b.fences[P_WHITE] \in Nat
          /\ c.fences[P_BLACK] = (IF pla = P_BLACK THEN b.fences[P_BLACK] - 1 ELSE b.fences[P_BLACK])
          /\ c.fences[P_WHITE] = (IF pla = P_WHITE THEN b.fences[P_WHITE] - 1 ELSE b.fences[P_WHITE])
      BY <1>0, <2>2, WallsLeftNat, PlayersDistinct
    <2>4. WallsLeft(c) < WallsLeft(b)
      BY <2>3, PlayersDistinct DEF WallsLeft
    <2> QED BY <1>2, <2>2, <2>4 DEF IsMoved
  <1> QED BY <1>1, <1>2

(* The distance to go is 0 on the goal row and only there. *)
LEMMA DistanceIs ==
  ASSUME NEW b, InPlay(b), NEW pla \in Players
  PROVE  /\ getShortestPathDistance(b, pla) \in Nat
         /\ getShortestPathDistance(b, pla) = 0 <=> b.pawn[pla][2] = GoalRow(pla)
  <1> DEFINE path == b.path[pla]
             from == b.pawn[pla]
             row == GoalRow(pla)
  <1>1. from \in PawnLocs /\ path # <<>> /\ path = bfsReachable(b.colors, from, row, {})
    BY DEF InPlay, shortestPath
  <1>2. getShortestPathDistance(b, pla) = Len(path) - 1
    BY <1>1 DEF getShortestPathDistance, shortestPath
  <1> HIDE DEF path, from, row
  <1>3. IsWalk(b.colors, {}, path) /\ path[1] = from /\ End(path)[2] = row
    BY <1>1, BfsReaches
  <1>4. Len(path) \in Nat \ {0}
    BY <1>3, WalkEnds
  <1>5. ASSUME Len(path) = 1 PROVE from[2] = row
    BY <1>3, <1>5 DEF End
  <1>6. ASSUME from[2] = row PROVE Len(path) = 1
    <2>1. IsWalk(b.colors, {}, <<from>>) /\ <<from>>[1] = from /\ End(<<from>>)[2] = row
      BY <1>1, <1>6 DEF IsWalk, End
    <2>2. NotAfter(<<from>>, path, <<from>>)
      BY <1>1, <2>1, BfsIsFirst DEF IsFirst, IsWalkTo
    <2>3. Len(path) <= Len(<<from>>)
      BY <1>3, <2>1, <2>2, WalkIsPath, NotAfterIsShort
    <2> QED BY <1>4, <2>3
  <1>7. Len(path) - 1 \in Nat /\ (Len(path) - 1 = 0 <=> from[2] = row)
    BY <1>4, <1>5, <1>6
  <1> QED BY <1>2, <1>7 DEF from, row

(* It depends on the colors and the pawn only. *)
LEMMA DistanceIsOf ==
  ASSUME NEW b, NEW c, b.colors = c.colors, b.pawn = c.pawn
  PROVE  \A pla : getShortestPathDistance(b, pla) = getShortestPathDistance(c, pla)
  BY DEF getShortestPathDistance

-----------------------------------------------------------------------------
(* Histories: what a move, the end of a game and a new komi write *)

HistFields ==
  {"rules", "moveHistory", "initialBoard", "initialPla", "initialTurnNumber", "recentBoards",
   "currentRecentBoardIdx", "presumedNextMovePla", "isGameFinished", "winner", "isResignation",
   "isRepetitionDrawFlag", "isScored", "lead", "score", "positionsSinceLastWall",
   "currentRepetitionCount"}
IsHistory(h) == h \in [HistFields -> {h[f] : f \in HistFields}]

(* How the game ended, and the rest of what is recorded. *)
Ending(h) ==
  <<h.isGameFinished, h.winner, h.isResignation, h.isRepetitionDrawFlag, h.isScored, h.lead, h.score>>
Origin(h) == <<h.initialBoard, h.initialPla, h.initialTurnNumber>>
Course(h) ==
  <<h.moveHistory, h.recentBoards, h.currentRecentBoardIdx, h.presumedNextMovePla,
    h.positionsSinceLastWall, h.currentRepetitionCount>>

(* The ends that the rules know. *)
NoEnd == <<FALSE, C_EMPTY, FALSE, FALSE, FALSE, 0, 0>>
DrawEnd(byRepetition) == <<TRUE, C_EMPTY, FALSE, byRepetition, TRUE, 0, 0>>
LeadOf(rules, b, arrived) == 2 * Tempo(b, arrived) + rules.komi
BonusOf(rules, turn) == 2 * rules.timeBonusPerPly * MaxOf(0, rules.maxPlies - turn)
ScoreOf(lead, bonus) == lead + Sign(lead) * bonus
WinnerOf(lead) == IF lead > 0 THEN P_WHITE ELSE P_BLACK
ScoredEnd(rules, turn, b, arrived, flag) ==
  <<TRUE, WinnerOf(LeadOf(rules, b, arrived)), FALSE, flag, TRUE, LeadOf(rules, b, arrived),
    ScoreOf(LeadOf(rules, b, arrived), BonusOf(rules, turn))>>
GoalEnd(rules, turn, b, arrived) == ScoredEnd(rules, turn, b, arrived, FALSE)
Repeated(rules, count) == rules.repetitionDrawCount > 0 /\ count >= rules.repetitionDrawCount
EndingOf(rules, turn, count, b) ==
  IF pawnOnGoal(b) # C_EMPTY THEN GoalEnd(rules, turn, b, pawnOnGoal(b))
  ELSE IF Repeated(rules, count) THEN DrawEnd(TRUE)
  ELSE IF turn >= rules.maxPlies THEN DrawEnd(FALSE)
  ELSE NoEnd

(* A history is known by its rules, its origin, its course and its end. *)
LEMMA SameHistory ==
  ASSUME NEW g, IsHistory(g), NEW h, IsHistory(h), g.rules = h.rules, Origin(g) = Origin(h),
         Course(g) = Course(h), Ending(g) = Ending(h)
  PROVE  g = h
  <1>1. \A f \in HistFields : g[f] = h[f]
    BY DEF HistFields, Origin, Course, Ending
  <1>2. g = [f \in HistFields |-> g[f]] /\ h = [f \in HistFields |-> h[f]]
    BY DEF IsHistory
  <1> QED BY <1>1, <1>2

LEMMA NewHistory ==
  ASSUME NEW b, NEW pla, NEW rules, NEW turn, NEW h, h = newHistory(b, pla, rules, turn)
  PROVE  /\ IsHistory(h) /\ h.rules = rules /\ Origin(h) = <<b, pla, turn>> /\ Ending(h) = NoEnd
         /\ Course(h) = <<(<<>>), [i \in 0 .. NUM_RECENT_BOARDS - 1 |-> b], 0, pla, <<getSitHash(b, pla)>>, 1>>
  <1> DEFINE hash == getSitHash(b, pla)
             ring == [i \in 0 .. NUM_RECENT_BOARDS - 1 |-> b]
             r == [rules |-> rules,
                   moveHistory |-> <<>>, initialBoard |-> b, initialPla |-> pla, initialTurnNumber |-> turn,
                   recentBoards |-> ring, currentRecentBoardIdx |-> 0,
                   presumedNextMovePla |-> pla,
                   isGameFinished |-> FALSE, winner |-> C_EMPTY, isResignation |-> FALSE,
                   isRepetitionDrawFlag |-> FALSE, isScored |-> FALSE, lead |-> 0, score |-> 0,
                   positionsSinceLastWall |-> <<hash>>, currentRepetitionCount |-> 1]
  <1>1. h = r
    BY DEF newHistory
  <1> HIDE DEF hash, ring
  <1>2. IsHistory(r)
    <2>1. DOMAIN r = HistFields /\ r = [f \in DOMAIN r |-> r[f]]
      BY DEF HistFields
    <2> HIDE DEF r
    <2> QED BY <2>1 DEF IsHistory
  <1>3. r.rules = rules /\ Origin(r) = <<b, pla, turn>> /\ Ending(r) = NoEnd
    BY DEF Origin, Ending, NoEnd
  <1>4. Course(r) = <<(<<>>), ring, 0, pla, <<hash>>, 1>>
    BY DEF Course
  <1> QED BY <1>1, <1>2, <1>3, <1>4 DEF hash, ring

(* The steps of makeBoardMoveAssumeLegal, one after another. *)
LEMMA ResetEffect ==
  ASSUME NEW h, IsHistory(h), NEW g, g = resetTerminalState(h)
  PROVE  IsHistory(g) /\ g.rules = h.rules /\ Origin(g) = Origin(h) /\ Course(g) = Course(h) /\ Ending(g) = NoEnd
  <1>1. IsHistory(g)
    BY DEF IsHistory, HistFields, resetTerminalState
  <1>2. g.rules = h.rules /\ Origin(g) = Origin(h)
    BY DEF IsHistory, HistFields, resetTerminalState, Origin
  <1>3. Course(g) = Course(h)
    BY DEF IsHistory, HistFields, resetTerminalState, Course
  <1>4. Ending(g) = NoEnd
    BY DEF IsHistory, HistFields, resetTerminalState, Ending, NoEnd
  <1> QED BY <1>1, <1>2, <1>3, <1>4

LEMMA AppendEffect ==
  ASSUME NEW h, IsHistory(h), NEW m, NEW next,
         NEW g, g = [h EXCEPT !.moveHistory = Append(@, m), !.presumedNextMovePla = next]
  PROVE  /\ IsHistory(g) /\ g.rules = h.rules /\ Origin(g) = Origin(h) /\ Ending(g) = Ending(h)
         /\ Course(g) = <<Append(h.moveHistory, m), h.recentBoards, h.currentRecentBoardIdx, next,
                          h.positionsSinceLastWall, h.currentRepetitionCount>>
  <1> DEFINE moves == Append(h.moveHistory, m)
  <1>0. g = [h EXCEPT !.moveHistory = moves, !.presumedNextMovePla = next]
    BY DEF IsHistory, HistFields
  <1> HIDE DEF moves
  <1>1. IsHistory(g)
    BY <1>0 DEF IsHistory, HistFields
  <1>2. g.rules = h.rules /\ Origin(g) = Origin(h) /\ Ending(g) = Ending(h)
    BY <1>0 DEF IsHistory, HistFields, Origin, Ending
  <1>3. Course(g) = <<moves, h.recentBoards, h.currentRecentBoardIdx, next,
                      h.positionsSinceLastWall, h.currentRepetitionCount>>
    BY <1>0 DEF IsHistory, HistFields, Course
  <1> QED BY <1>1, <1>2, <1>3 DEF moves

LEMMA PushEffect ==
  ASSUME NEW h, IsHistory(h), NEW b, NEW g, g = PushRecentBoard(h, b)
  PROVE  /\ IsHistory(g) /\ g.rules = h.rules /\ Origin(g) = Origin(h) /\ Ending(g) = Ending(h)
         /\ Course(g) = <<h.moveHistory,
                          [h.recentBoards EXCEPT ![(h.currentRecentBoardIdx + 1) % NUM_RECENT_BOARDS] = b],
                          (h.currentRecentBoardIdx + 1) % NUM_RECENT_BOARDS, h.presumedNextMovePla,
                          h.positionsSinceLastWall, h.currentRepetitionCount>>
  <1> DEFINE idx == (h.currentRecentBoardIdx + 1) % NUM_RECENT_BOARDS
             ring == [h.recentBoards EXCEPT ![idx] = b]
  <1>0. g = [h EXCEPT !.recentBoards = ring, !.currentRecentBoardIdx = idx]
    BY DEF IsHistory, HistFields, PushRecentBoard
  <1> HIDE DEF idx, ring
  <1>1. IsHistory(g)
    BY <1>0 DEF IsHistory, HistFields
  <1>2. g.rules = h.rules /\ Origin(g) = Origin(h) /\ Ending(g) = Ending(h)
    BY <1>0 DEF IsHistory, HistFields, Origin, Ending
  <1>3. Course(g) = <<h.moveHistory, ring, idx, h.presumedNextMovePla,
                      h.positionsSinceLastWall, h.currentRepetitionCount>>
    BY <1>0 DEF IsHistory, HistFields, Course
  <1> QED BY <1>1, <1>2, <1>3 DEF idx, ring

LEMMA CountedEffect ==
  ASSUME NEW h, IsHistory(h), NEW isWall \in BOOLEAN, NEW hash, NEW g, g = CountRepetitions(h, isWall, hash)
  PROVE  /\ IsHistory(g) /\ g.rules = h.rules /\ Origin(g) = Origin(h) /\ Ending(g) = Ending(h)
         /\ Course(g) = <<h.moveHistory, h.recentBoards, h.currentRecentBoardIdx, h.presumedNextMovePla,
                          Append(IF isWall THEN <<>> ELSE h.positionsSinceLastWall, hash),
                          IF isWall THEN 1 ELSE 1 + numOccurrences(h.positionsSinceLastWall, hash)>>
  <1> DEFINE psw == Append(IF isWall THEN <<>> ELSE h.positionsSinceLastWall, hash)
             count == IF isWall THEN 1 ELSE 1 + numOccurrences(h.positionsSinceLastWall, hash)
  <1>0. g = [h EXCEPT !.positionsSinceLastWall = psw, !.currentRepetitionCount = count]
    BY DEF IsHistory, HistFields, CountRepetitions
  <1> HIDE DEF psw, count
  <1>1. IsHistory(g)
    BY <1>0 DEF IsHistory, HistFields
  <1>2. g.rules = h.rules /\ Origin(g) = Origin(h) /\ Ending(g) = Ending(h)
    BY <1>0 DEF IsHistory, HistFields, Origin, Ending
  <1>3. Course(g) = <<h.moveHistory, h.recentBoards, h.currentRecentBoardIdx, h.presumedNextMovePla, psw, count>>
    BY <1>0 DEF IsHistory, HistFields, Course
  <1> QED BY <1>1, <1>2, <1>3 DEF psw, count

(* A game ended by a draw, and one ended at the goal. *)
LEMMA DrawEffect ==
  ASSUME NEW h, IsHistory(h), NEW byRepetition, NEW g, g = endAsRuleDraw(h, byRepetition)
  PROVE  /\ IsHistory(g) /\ g.rules = h.rules /\ Origin(g) = Origin(h) /\ Course(g) = Course(h)
         /\ Ending(g) = DrawEnd(byRepetition)
  <1>1. IsHistory(g)
    BY DEF IsHistory, HistFields, endAsRuleDraw
  <1>2. g.rules = h.rules /\ Origin(g) = Origin(h)
    BY DEF IsHistory, HistFields, endAsRuleDraw, Origin
  <1>3. Course(g) = Course(h)
    BY DEF IsHistory, HistFields, endAsRuleDraw, Course
  <1>4. Ending(g) = DrawEnd(byRepetition)
    BY DEF IsHistory, HistFields, endAsRuleDraw, Ending, DrawEnd
  <1> QED BY <1>1, <1>2, <1>3, <1>4

LEMMA ScoreEffect ==
  ASSUME NEW h, IsHistory(h), NEW b, NEW arrived, NEW g, g = scoreGameEndedAtGoal(h, b, arrived)
  PROVE  /\ IsHistory(g) /\ g.rules = h.rules /\ Origin(g) = Origin(h) /\ Course(g) = Course(h)
         /\ Ending(g) = ScoredEnd(h.rules, getCurrentTurnNumber(h), b, arrived, h.isRepetitionDrawFlag)
  <1> DEFINE lead == LeadOf(h.rules, b, arrived)
             score == ScoreOf(lead, BonusOf(h.rules, getCurrentTurnNumber(h)))
             winner == WinnerOf(lead)
  <1>0. g = [h EXCEPT !.isGameFinished = TRUE, !.isResignation = FALSE, !.isScored = TRUE,
                      !.winner = winner, !.lead = lead, !.score = score]
    BY Zenon DEF scoreGameEndedAtGoal, LeadOf, ScoreOf, BonusOf, WinnerOf, pliesUntilDraw
  <1>5. ScoredEnd(h.rules, getCurrentTurnNumber(h), b, arrived, h.isRepetitionDrawFlag)
          = <<TRUE, winner, FALSE, h.isRepetitionDrawFlag, TRUE, lead, score>>
    BY Zenon DEF ScoredEnd
  <1> HIDE DEF lead, score, winner
  <1>1. IsHistory(g)
    BY <1>0 DEF IsHistory, HistFields
  <1>2. g.rules = h.rules /\ Origin(g) = Origin(h)
    BY <1>0 DEF IsHistory, HistFields, Origin
  <1>3. Course(g) = Course(h)
    BY <1>0 DEF IsHistory, HistFields, Course
  <1>4. Ending(g) = <<TRUE, winner, FALSE, h.isRepetitionDrawFlag, TRUE, lead, score>>
    BY <1>0 DEF IsHistory, HistFields, Ending
  <1> QED BY <1>1, <1>2, <1>3, <1>4, <1>5

LEMMA TerminalEffect ==
  ASSUME NEW h, IsHistory(h), Ending(h) = NoEnd, NEW b, NEW g, g = CheckTerminal(h, b)
  PROVE  /\ IsHistory(g) /\ g.rules = h.rules /\ Origin(g) = Origin(h) /\ Course(g) = Course(h)
         /\ Ending(g) = EndingOf(h.rules, getCurrentTurnNumber(h), h.currentRepetitionCount, b)
  <1>1. CASE pawnOnGoal(b) # C_EMPTY
    <2>1. g = scoreGameEndedAtGoal(h, b, pawnOnGoal(b))
      BY <1>1 DEF CheckTerminal
    <2>2. h.isRepetitionDrawFlag = FALSE
      BY DEF Ending, NoEnd
    <2>3. EndingOf(h.rules, getCurrentTurnNumber(h), h.currentRepetitionCount, b)
            = GoalEnd(h.rules, getCurrentTurnNumber(h), b, pawnOnGoal(b))
      BY <1>1 DEF EndingOf
    <2>4. PICK arrived : arrived = pawnOnGoal(b)
      OBVIOUS
    <2>5. g = scoreGameEndedAtGoal(h, b, arrived)
      BY <2>1, <2>4
    <2>6. /\ IsHistory(g) /\ g.rules = h.rules /\ Origin(g) = Origin(h) /\ Course(g) = Course(h)
          /\ Ending(g) = ScoredEnd(h.rules, getCurrentTurnNumber(h), b, arrived, h.isRepetitionDrawFlag)
      BY <2>5, ScoreEffect
    <2> QED BY <2>2, <2>3, <2>4, <2>6 DEF GoalEnd
  <1>2. CASE pawnOnGoal(b) = C_EMPTY /\ Repeated(h.rules, h.currentRepetitionCount)
    BY <1>2, DrawEffect DEF CheckTerminal, Repeated, EndingOf
  <1>3. CASE pawnOnGoal(b) = C_EMPTY /\ ~Repeated(h.rules, h.currentRepetitionCount)
             /\ getCurrentTurnNumber(h) >= h.rules.maxPlies
    BY <1>3, DrawEffect DEF CheckTerminal, Repeated, EndingOf
  <1>4. CASE pawnOnGoal(b) = C_EMPTY /\ ~Repeated(h.rules, h.currentRepetitionCount)
             /\ ~(getCurrentTurnNumber(h) >= h.rules.maxPlies)
    BY <1>4 DEF CheckTerminal, Repeated, EndingOf
  <1> QED BY <1>1, <1>2, <1>3, <1>4

(* What a move makes of a history. *)
IsNext(h, after, loc, pla, g) ==
  /\ IsHistory(g) /\ g.rules = h.rules /\ Origin(g) = Origin(h)
  /\ g.moveHistory = Append(h.moveHistory, [loc |-> loc, pla |-> pla])
  /\ g.presumedNextMovePla = getOpp(pla)
  /\ g.currentRecentBoardIdx = (h.currentRecentBoardIdx + 1) % NUM_RECENT_BOARDS
  /\ g.recentBoards
       = [h.recentBoards EXCEPT ![(h.currentRecentBoardIdx + 1) % NUM_RECENT_BOARDS] = after]
  /\ g.positionsSinceLastWall
       = Append(IF loc \notin PawnLocs THEN <<>> ELSE h.positionsSinceLastWall, getSitHash(after, getOpp(pla)))
  /\ g.currentRepetitionCount
       = (IF loc \notin PawnLocs THEN 1
          ELSE 1 + numOccurrences(h.positionsSinceLastWall, getSitHash(after, getOpp(pla))))
  /\ Ending(g) = EndingOf(g.rules, getCurrentTurnNumber(g), g.currentRepetitionCount, after)
LEMMA MoveEffect ==
  ASSUME NEW h, IsHistory(h), NEW after, NEW loc, NEW pla,
         NEW g, g = makeBoardMoveAssumeLegal(h, after, loc, pla)
  PROVE  IsNext(h, after, loc, pla, g)
  <1> DEFINE next == getOpp(pla)
             m == [loc |-> loc, pla |-> pla]
             reset == resetTerminalState(h)
             moved == [reset EXCEPT !.moveHistory = Append(@, m), !.presumedNextMovePla = next]
             pushed == PushRecentBoard(moved, after)
             isWall == loc \notin PawnLocs
             hash == getSitHash(after, next)
             counted == CountRepetitions(pushed, isWall, hash)
  <1>1. g = CheckTerminal(counted, after)
    BY Zenon DEF makeBoardMoveAssumeLegal
  <1>2. IsHistory(reset) /\ reset.rules = h.rules /\ Origin(reset) = Origin(h) /\ Course(reset) = Course(h)
        /\ Ending(reset) = NoEnd
    BY ResetEffect
  <1> HIDE DEF reset, m, next
  <1>3. /\ IsHistory(moved) /\ moved.rules = reset.rules /\ Origin(moved) = Origin(reset) /\ Ending(moved) = Ending(reset)
        /\ Course(moved) = <<Append(reset.moveHistory, m), reset.recentBoards, reset.currentRecentBoardIdx, next,
                             reset.positionsSinceLastWall, reset.currentRepetitionCount>>
    BY <1>2, AppendEffect
  <1> HIDE DEF moved
  <1>4. /\ IsHistory(pushed) /\ pushed.rules = moved.rules /\ Origin(pushed) = Origin(moved) /\ Ending(pushed) = Ending(moved)
        /\ Course(pushed)
             = <<moved.moveHistory,
                 [moved.recentBoards EXCEPT ![(moved.currentRecentBoardIdx + 1) % NUM_RECENT_BOARDS] = after],
                 (moved.currentRecentBoardIdx + 1) % NUM_RECENT_BOARDS, moved.presumedNextMovePla,
                 moved.positionsSinceLastWall, moved.currentRepetitionCount>>
    BY <1>3, PushEffect
  <1> HIDE DEF pushed, hash
  <1>5. /\ IsHistory(counted) /\ counted.rules = pushed.rules /\ Origin(counted) = Origin(pushed) /\ Ending(counted) = Ending(pushed)
        /\ Course(counted)
             = <<pushed.moveHistory, pushed.recentBoards, pushed.currentRecentBoardIdx, pushed.presumedNextMovePla,
                 Append(IF isWall THEN <<>> ELSE pushed.positionsSinceLastWall, hash),
                 IF isWall THEN 1 ELSE 1 + numOccurrences(pushed.positionsSinceLastWall, hash)>>
    BY <1>4, CountedEffect
  <1> HIDE DEF counted, isWall
  <1>6. /\ IsHistory(g) /\ g.rules = counted.rules /\ Origin(g) = Origin(counted) /\ Course(g) = Course(counted)
        /\ Ending(g) = EndingOf(counted.rules, getCurrentTurnNumber(counted), counted.currentRepetitionCount, after)
    BY <1>1, <1>2, <1>3, <1>4, <1>5, TerminalEffect
  <1>7. /\ g.moveHistory = Append(h.moveHistory, m) /\ g.presumedNextMovePla = next
        /\ g.currentRecentBoardIdx = (h.currentRecentBoardIdx + 1) % NUM_RECENT_BOARDS
        /\ g.recentBoards = [h.recentBoards EXCEPT ![(h.currentRecentBoardIdx + 1) % NUM_RECENT_BOARDS] = after]
        /\ g.positionsSinceLastWall = Append(IF isWall THEN <<>> ELSE h.positionsSinceLastWall, hash)
        /\ g.currentRepetitionCount = IF isWall THEN 1 ELSE 1 + numOccurrences(h.positionsSinceLastWall, hash)
    <2>1. /\ reset.moveHistory = h.moveHistory /\ reset.recentBoards = h.recentBoards
          /\ reset.currentRecentBoardIdx = h.currentRecentBoardIdx
          /\ reset.positionsSinceLastWall = h.positionsSinceLastWall
      BY <1>2 DEF Course
    <2>2. /\ moved.moveHistory = Append(h.moveHistory, m) /\ moved.recentBoards = h.recentBoards
          /\ moved.currentRecentBoardIdx = h.currentRecentBoardIdx /\ moved.presumedNextMovePla = next
          /\ moved.positionsSinceLastWall = h.positionsSinceLastWall
      BY <1>3, <2>1 DEF Course
    <2>3. /\ pushed.moveHistory = Append(h.moveHistory, m) /\ pushed.presumedNextMovePla = next
          /\ pushed.currentRecentBoardIdx = (h.currentRecentBoardIdx + 1) % NUM_RECENT_BOARDS
          /\ pushed.recentBoards = [h.recentBoards EXCEPT ![(h.currentRecentBoardIdx + 1) % NUM_RECENT_BOARDS] = after]
          /\ pushed.positionsSinceLastWall = h.positionsSinceLastWall
      BY <1>4, <2>2 DEF Course
    <2>4. Course(g) = <<pushed.moveHistory, pushed.recentBoards, pushed.currentRecentBoardIdx, pushed.presumedNextMovePla,
                        Append(IF isWall THEN <<>> ELSE pushed.positionsSinceLastWall, hash),
                        IF isWall THEN 1 ELSE 1 + numOccurrences(pushed.positionsSinceLastWall, hash)>>
      BY <1>5, <1>6
    <2> HIDE DEF m
    <2> QED BY <2>3, <2>4 DEF Course
  <1>8. getCurrentTurnNumber(counted) = getCurrentTurnNumber(g) /\ counted.currentRepetitionCount = g.currentRepetitionCount
    BY <1>6 DEF getCurrentTurnNumber, Origin, Course
  <1> QED BY <1>2, <1>3, <1>4, <1>5, <1>6, <1>7, <1>8, Zenon DEF IsNext, m, next, isWall, hash

-----------------------------------------------------------------------------
(* What a controller's calls write *)

WithKomi(rules, komi) == [rules EXCEPT !.komi = komi]
Resigned(pla) == <<TRUE, pla, TRUE, FALSE, FALSE, 0, 0>>

LEMMA KomiRules ==
  ASSUME NEW rules, AreRules(rules), NEW komi, IsValidKomi(komi), NEW r, r = WithKomi(rules, komi)
  PROVE  /\ AreRules(r) /\ r.komi = komi /\ r.maxPlies = rules.maxPlies
         /\ r.repetitionDrawCount = rules.repetitionDrawCount /\ r.timeBonusPerPly = rules.timeBonusPerPly
         /\ \A k : WithKomi(r, k) = WithKomi(rules, k)
         /\ WithKomi(rules, rules.komi) = rules
  BY DEF AreRules, Rules, WithKomi

(* A new komi scores a game that ended at the goal again. *)
IsRescored(h, b) == /\ h.isGameFinished /\ h.isScored /\ ~h.isResignation
                    /\ pawnOnGoal(b) # C_EMPTY
LEMMA KomiEffect ==
  ASSUME NEW h, IsHistory(h), AreRules(h.rules), NEW b, getRecentBoard(h, 0) = b, NEW komi,
         NEW g, g = setKomi(h, komi)
  PROVE  /\ IsHistory(g) /\ g.rules = WithKomi(h.rules, komi) /\ Origin(g) = Origin(h) /\ Course(g) = Course(h)
         /\ Ending(g) = (IF IsRescored(h, b)
                         THEN ScoredEnd(g.rules, getCurrentTurnNumber(h), b, pawnOnGoal(b), h.isRepetitionDrawFlag)
                         ELSE Ending(h))
  <1> DEFINE rules == WithKomi(h.rules, komi)
             k == [h EXCEPT !.rules.komi = komi]
  <1>0. k = [h EXCEPT !.rules = rules]
    BY DEF IsHistory, HistFields, WithKomi
  <1>1. IsHistory(k) /\ k.rules = rules /\ Origin(k) = Origin(h) /\ Course(k) = Course(h) /\ Ending(k) = Ending(h)
    <2> HIDE DEF rules, k
    <2>1. IsHistory(k)
      BY <1>0 DEF IsHistory, HistFields
    <2>2. k.rules = rules /\ Origin(k) = Origin(h) /\ Ending(k) = Ending(h)
      BY <1>0 DEF IsHistory, HistFields, Origin, Ending
    <2>3. Course(k) = Course(h)
      BY <1>0 DEF IsHistory, HistFields, Course
    <2> QED BY <2>1, <2>2, <2>3
  <1>2. g = Rescore(k)
    BY DEF setKomi
  <1> HIDE DEF k, rules
  <1>3. getRecentBoard(k, 0) = b /\ getCurrentTurnNumber(k) = getCurrentTurnNumber(h)
    BY <1>1 DEF getRecentBoard, getCurrentTurnNumber, Course, Origin
  <1>4. (IsRescored(k, b) <=> IsRescored(h, b)) /\ k.isRepetitionDrawFlag = h.isRepetitionDrawFlag
    BY <1>1 DEF IsRescored, Ending
  <1>5. CASE IsRescored(h, b)
    BY <1>1, <1>2, <1>3, <1>4, <1>5, ScoreEffect DEF Rescore, IsRescored, rules
  <1>6. CASE ~IsRescored(h, b)
    BY <1>1, <1>2, <1>3, <1>4, <1>6 DEF Rescore, IsRescored, rules
  <1> QED BY <1>5, <1>6

LEMMA ResignEffect ==
  ASSUME NEW h, IsHistory(h), Ending(h) = NoEnd, NEW pla, NEW g, g = setWinnerByResignation(h, pla)
  PROVE  /\ IsHistory(g) /\ g.rules = h.rules /\ Origin(g) = Origin(h) /\ Course(g) = Course(h)
         /\ Ending(g) = Resigned(pla)
  <1>1. IsHistory(g)
    BY DEF IsHistory, HistFields, setWinnerByResignation
  <1>2. g.rules = h.rules /\ Origin(g) = Origin(h)
    BY DEF IsHistory, HistFields, setWinnerByResignation, Origin
  <1>3. Course(g) = Course(h)
    BY DEF IsHistory, HistFields, setWinnerByResignation, Course
  <1>4. Ending(g) = Resigned(pla)
    BY DEF Ending, NoEnd, IsHistory, HistFields, setWinnerByResignation, Resigned
  <1> QED BY <1>1, <1>2, <1>3, <1>4

LEMMA CutOffEffect ==
  ASSUME NEW h, IsHistory(h), ~h.isGameFinished, NEW g, g = endAndScoreGameNow(h)
  PROVE  /\ IsHistory(g) /\ g.rules = h.rules /\ Origin(g) = Origin(h) /\ Course(g) = Course(h)
         /\ Ending(g) = DrawEnd(FALSE)
  <1>1. g = endAsRuleDraw(h, FALSE)
    BY DEF endAndScoreGameNow
  <1> QED BY <1>1, DrawEffect

-----------------------------------------------------------------------------
(* Lists, rings, and counts *)

IsList(s) == s \in Seq(ToSet(s))

LEMMA ListOf ==
  ASSUME NEW S, NEW T, NEW s \in Seq(S), \A i \in 1 .. Len(s) : s[i] \in T
  PROVE  s \in Seq(T)
  OBVIOUS
IsLonger(s, e, t) ==
  /\ Len(s) \in Nat /\ DOMAIN s = 1 .. Len(s)
  /\ IsList(t) /\ Len(t) = Len(s) + 1 /\ DOMAIN t = 1 .. Len(t) /\ t[Len(t)] = e
  /\ \A i \in 1 .. Len(s) : t[i] = s[i]
LEMMA ListAppend ==
  ASSUME NEW s, IsList(s), NEW e, NEW t, t = Append(s, e)
  PROVE  IsLonger(s, e, t)
  <1> DEFINE S == ToSet(s) \cup {e}
  <1>1. s \in Seq(S)
    BY DEF IsList
  <1> HIDE DEF S
  <1>2. /\ Len(s) \in Nat /\ DOMAIN s = 1 .. Len(s) /\ t = Append(s, e) /\ t \in Seq(S \cup {e})
        /\ Len(t) = Len(s) + 1 /\ DOMAIN t = 1 .. Len(t) /\ t[Len(t)] = e
        /\ \A i \in 1 .. Len(s) : t[i] = s[i]
    BY <1>1
  <1> HIDE DEF S
  <1>3. \A i \in 1 .. Len(t) : t[i] \in ToSet(t)
    BY <1>2, Zenon DEF ToSet
  <1>4. t \in Seq(ToSet(t))
    BY <1>2, <1>3, ListOf
  <1> QED BY <1>2, <1>4 DEF IsList, IsLonger

LEMMA EmptyList == IsList(<<>>) /\ Len(<<>>) = 0
  BY DEF IsList, ToSet

(* Going back and forth in a ring. *)
LEMMA RingIs ==
  ASSUME NEW n \in Nat \ {0}, NEW i \in 0 .. n - 1, NEW a \in 0 .. n - 1
  PROVE  /\ (i - a) % n = (IF i >= a THEN i - a ELSE i - a + n)
         /\ (i + 1) % n = (IF i + 1 = n THEN 0 ELSE i + 1)
  <1>1. ASSUME NEW x \in Int, NEW q \in Int, NEW r \in 0 .. n - 1, x = q * n + r PROVE x % n = r
    <2>1. PICK d \in Int, m \in 0 .. n - 1 : m = x % n /\ x = d * n + m
      <3>1. x % n \in 0 .. n - 1 /\ x \div n \in Int /\ x = (x \div n) * n + (x % n)
        OBVIOUS
      <3> QED BY <3>1
    <2>2. (d - q) * n = r - m
      BY <1>1, <2>1
    <2>3. ASSUME d - q >= 1 PROVE FALSE
      BY <2>2, <2>3
    <2>4. ASSUME d - q <= -1 PROVE FALSE
      BY <2>2, <2>4
    <2>5. d - q = 0
      BY <2>3, <2>4
    <2> QED BY <2>1, <2>2, <2>5
  <1>2. (i - a) % n = (IF i >= a THEN i - a ELSE i - a + n)
    BY <1>1
  <1>3. (i + 1) % n = (IF i + 1 = n THEN 0 ELSE i + 1)
    BY <1>1
  <1> QED BY <1>2, <1>3

(* The occurrences of the last entry of a list. *)
LastCount(s) == Cardinality({i \in 1 .. Len(s) : s[i] = s[Len(s)]})
LEMMA CountNext ==
  ASSUME NEW s, IsList(s), NEW e, NEW t, t = Append(s, e)
  PROVE  LastCount(t) = 1 + numOccurrences(s, e)
  <1>1. /\ Len(s) \in Nat /\ DOMAIN s = 1 .. Len(s)
        /\ Len(t) = Len(s) + 1 /\ t[Len(t)] = e /\ \A i \in 1 .. Len(s) : t[i] = s[i]
    BY ListAppend DEF IsLonger
  <1> DEFINE A == {i \in 1 .. Len(s) : s[i] = e}
             n == Len(s) + 1
  <1>2. {i \in 1 .. Len(t) : t[i] = t[Len(t)]} = A \cup {n}
    BY <1>1
  <1>3. IsFiniteSet(A)
    <2>1. IsFiniteSet(1 .. Len(s)) /\ A \in SUBSET (1 .. Len(s))
      BY <1>1, FS_Interval
    <2> HIDE DEF A
    <2> QED BY <2>1, FS_Subset
  <1>4. n \notin A
    BY <1>1
  <1>5. Cardinality(A) \in Nat /\ Cardinality(A \cup {n}) = Cardinality(A) + 1
    <2> HIDE DEF A
    <2> QED BY <1>3, <1>4, FS_AddElement, FS_CardinalityType
  <1>6. numOccurrences(s, e) = Cardinality(A)
    BY <1>1 DEF numOccurrences
  <1>7. LastCount(t) = Cardinality(A \cup {n})
    BY <1>2 DEF LastCount
  <1> HIDE DEF A
  <1> QED BY <1>5, <1>6, <1>7

-----------------------------------------------------------------------------
(* The history of a game that has come to a board *)

RulesEnd(h, b) ==
  IF h.moveHistory = <<>> THEN NoEnd
  ELSE EndingOf(h.rules, getCurrentTurnNumber(h), h.currentRepetitionCount, b)
Moves == [loc : Locs, pla : Players]
RecordOf(h, b) ==
  /\ IsHistory(h) /\ AreRules(h.rules) /\ h.initialTurnNumber \in Nat /\ h.initialPla \in Players
  /\ h.moveHistory \in Seq(Moves) /\ h.presumedNextMovePla \in Players
  /\ h.currentRecentBoardIdx \in 0 .. NUM_RECENT_BOARDS - 1
  /\ DOMAIN h.recentBoards = 0 .. NUM_RECENT_BOARDS - 1
  /\ h.recentBoards[h.currentRecentBoardIdx] = b
  /\ IsList(h.positionsSinceLastWall) /\ Len(h.positionsSinceLastWall) > 0
  /\ h.positionsSinceLastWall[Len(h.positionsSinceLastWall)] = getSitHash(b, h.presumedNextMovePla)
  /\ h.currentRepetitionCount = LastCount(h.positionsSinceLastWall)
  /\ h.moveHistory = <<>> => pawnOnGoal(b) = C_EMPTY

(* The first entry of the ring is the current board. *)
LEMMA RingCurrent ==
  ASSUME NEW h, NEW b, RecordOf(h, b)
  PROVE  getRecentBoard(h, 0) = b
  <1>1. NUM_RECENT_BOARDS \in Nat \ {0} /\ h.currentRecentBoardIdx \in 0 .. NUM_RECENT_BOARDS - 1
    BY RingAssumption DEF RecordOf
  <1>2. PICK i \in 0 .. NUM_RECENT_BOARDS - 1 : i = h.currentRecentBoardIdx
    BY <1>1
  <1>3. 0 \in 0 .. NUM_RECENT_BOARDS - 1 /\ i >= 0 /\ i - 0 = i
    BY <1>1
  <1>4. (i - 0) % NUM_RECENT_BOARDS = i
    BY <1>1, <1>3, RingIs
  <1> QED BY <1>2, <1>4 DEF getRecentBoard, RecordOf

(* A single entry occurs once. *)
LEMMA OneEntry ==
  ASSUME NEW e
  PROVE  IsList(<<e>>) /\ Len(<<e>>) = 1 /\ <<e>>[1] = e /\ LastCount(<<e>>) = 1
  <1>1. <<e>> = Append(<<>>, e)
    OBVIOUS
  <1>2. IsList(<<e>>) /\ Len(<<e>>) = 1 /\ <<e>>[1] = e
    BY <1>1, ListAppend, EmptyList DEF IsLonger
  <1>3. {i \in 1 .. Len(<<e>>) : <<e>>[i] = <<e>>[Len(<<e>>)]} = {1}
    BY <1>2
  <1>4. LastCount(<<e>>) = 1
    BY <1>3, FS_Singleton DEF LastCount
  <1> QED BY <1>2, <1>4

LEMMA RecordStart ==
  ASSUME NEW b, pawnOnGoal(b) = C_EMPTY, NEW rules, AreRules(rules), NEW turn \in Nat, NEW pla \in Players,
         NEW h, h = newHistory(b, pla, rules, turn)
  PROVE  RecordOf(h, b) /\ Ending(h) = RulesEnd(h, b)
  <1>1. /\ IsHistory(h) /\ h.rules = rules /\ Origin(h) = <<b, pla, turn>> /\ Ending(h) = NoEnd
        /\ Course(h) = <<(<<>>), [i \in 0 .. NUM_RECENT_BOARDS - 1 |-> b], 0, pla, <<getSitHash(b, pla)>>, 1>>
    BY NewHistory
  <1>2. h.initialPla = pla /\ h.initialTurnNumber = turn
    BY <1>1 DEF Origin
  <1>3. /\ h.moveHistory = <<>> /\ h.recentBoards = [i \in 0 .. NUM_RECENT_BOARDS - 1 |-> b]
        /\ h.currentRecentBoardIdx = 0 /\ h.presumedNextMovePla = pla
        /\ h.positionsSinceLastWall = <<getSitHash(b, pla)>> /\ h.currentRepetitionCount = 1
    BY <1>1 DEF Course
  <1>4. 0 \in 0 .. NUM_RECENT_BOARDS - 1
    BY RingAssumption
  <1>5. h.recentBoards[0] = b /\ DOMAIN h.recentBoards = 0 .. NUM_RECENT_BOARDS - 1
    BY <1>3, <1>4
  <1>6. /\ IsList(h.positionsSinceLastWall) /\ Len(h.positionsSinceLastWall) = 1
        /\ h.positionsSinceLastWall[1] = getSitHash(b, pla) /\ LastCount(h.positionsSinceLastWall) = 1
    BY <1>3, OneEntry
  <1>7. h.moveHistory \in Seq(Moves)
    BY <1>3
  <1>8. RecordOf(h, b)
    BY <1>1, <1>2, <1>3, <1>4, <1>5, <1>6, <1>7 DEF RecordOf
  <1> QED BY <1>1, <1>3, <1>8 DEF RulesEnd

LEMMA RecordNext ==
  ASSUME NEW h, NEW b, RecordOf(h, b), NEW loc \in Locs, NEW pla \in Players, NEW after,
         NEW g, IsNext(h, after, loc, pla, g)
  PROVE  /\ RecordOf(g, after) /\ Ending(g) = RulesEnd(g, after)
         /\ g.moveHistory # <<>> /\ Len(g.moveHistory) = Len(h.moveHistory) + 1
  <1> DEFINE n == NUM_RECENT_BOARDS
             i == h.currentRecentBoardIdx
             idx == (i + 1) % n
             hash == getSitHash(after, getOpp(pla))
             old == IF loc \notin PawnLocs THEN <<>> ELSE h.positionsSinceLastWall
             m == [loc |-> loc, pla |-> pla]
  <1>1. /\ IsHistory(g) /\ AreRules(g.rules) /\ g.initialTurnNumber \in Nat /\ g.initialPla \in Players
    BY DEF IsNext, RecordOf, Origin
  <1>2. /\ g.moveHistory \in Seq(Moves) /\ g.moveHistory # <<>> /\ Len(g.moveHistory) = Len(h.moveHistory) + 1
    <2>1. h.moveHistory \in Seq(Moves) /\ m \in Moves /\ g.moveHistory = Append(h.moveHistory, m)
      BY DEF RecordOf, IsNext, Moves
    <2> HIDE DEF m
    <2> QED BY <2>1
  <1>3. g.presumedNextMovePla \in Players /\ g.presumedNextMovePla = getOpp(pla)
    BY OppIs DEF IsNext
  <1>4. /\ g.currentRecentBoardIdx = idx /\ idx \in 0 .. n - 1
        /\ DOMAIN g.recentBoards = 0 .. n - 1 /\ g.recentBoards[idx] = after
    <2>1. n \in Nat \ {0} /\ i \in 0 .. n - 1 /\ DOMAIN h.recentBoards = 0 .. n - 1
      BY RingAssumption DEF RecordOf
    <2>2. g.currentRecentBoardIdx = idx /\ g.recentBoards = [h.recentBoards EXCEPT ![idx] = after]
      BY DEF IsNext
    <2>3. idx \in 0 .. n - 1
      <3>1. i + 1 \in Int
        BY <2>1
      <3> HIDE DEF n, i
      <3> QED BY <2>1, <3>1
    <2> HIDE DEF idx, n
    <2> QED BY <2>1, <2>2, <2>3
  <1>5. /\ IsList(g.positionsSinceLastWall) /\ Len(g.positionsSinceLastWall) > 0
        /\ g.positionsSinceLastWall[Len(g.positionsSinceLastWall)] = hash
        /\ g.currentRepetitionCount = LastCount(g.positionsSinceLastWall)
    <2>1. g.positionsSinceLastWall = Append(old, hash)
      BY DEF IsNext
    <2>2. IsList(old)
      BY EmptyList DEF RecordOf
    <2>3. g.currentRepetitionCount = (IF loc \notin PawnLocs THEN 1 ELSE 1 + numOccurrences(h.positionsSinceLastWall, hash))
      BY DEF IsNext
    <2>4. numOccurrences(<<>>, hash) = 0
      BY FS_EmptySet DEF numOccurrences
    <2>5. 1 + numOccurrences(old, hash) = g.currentRepetitionCount
      BY <2>3, <2>4
    <2> HIDE DEF old, hash
    <2>6. LastCount(g.positionsSinceLastWall) = 1 + numOccurrences(old, hash)
      BY <2>1, <2>2, CountNext
    <2>7. IsLonger(old, hash, g.positionsSinceLastWall)
      BY <2>1, <2>2, ListAppend
    <2> QED BY <2>5, <2>6, <2>7 DEF IsLonger
  <1>6. RecordOf(g, after)
    BY <1>1, <1>2, <1>3, <1>4, <1>5 DEF RecordOf
  <1>7. Ending(g) = RulesEnd(g, after)
    BY <1>2 DEF IsNext, RulesEnd
  <1> QED BY <1>2, <1>6, <1>7

(* Another result, or another komi, leaves the record as it is. *)
LEMMA RecordStays ==
  ASSUME NEW h, NEW b, RecordOf(h, b), NEW g, IsHistory(g), AreRules(g.rules), Origin(g) = Origin(h), Course(g) = Course(h)
  PROVE  RecordOf(g, b)
  BY DEF RecordOf, Origin, Course

-----------------------------------------------------------------------------
(* How a game ends *)

(* As the rules have it, or by a controller's word if they let it go on. *)
IsEnd(h, b) ==
  \/ Ending(h) = RulesEnd(h, b)
  \/ RulesEnd(h, b) = NoEnd /\ Ending(h) = DrawEnd(FALSE)
  \/ RulesEnd(h, b) = NoEnd /\ \E pla \in Players : Ending(h) = Resigned(pla)

(* A game that goes on has no end. *)
LEMMA GoesOn ==
  ASSUME NEW h, NEW b, IsEnd(h, b), ~h.isGameFinished
  PROVE  Ending(h) = NoEnd /\ RulesEnd(h, b) = NoEnd
  <1>2. ASSUME NEW f PROVE Ending(h) # DrawEnd(f)
    BY DEF Ending, DrawEnd
  <1>3. ASSUME NEW pla PROVE Ending(h) # Resigned(pla)
    BY DEF Ending, Resigned
  <1>4. ASSUME NEW rules, NEW turn, NEW arrived PROVE Ending(h) # GoalEnd(rules, turn, b, arrived)
    BY DEF Ending, GoalEnd, ScoredEnd
  <1> QED BY <1>2, <1>3, <1>4 DEF IsEnd, RulesEnd, EndingOf

(* A draw and a goal are not the same end. *)
LEMMA EndsApart ==
  ASSUME NEW h, NEW b, RecordOf(h, b), IsEnd(h, b), NEW c, pawnOnGoal(b) = c
  PROVE  IsRescored(h, b) => /\ h.moveHistory # <<>> /\ Ending(h) = GoalEnd(h.rules, getCurrentTurnNumber(h), b, c)
                             /\ Ending(h) = RulesEnd(h, b)
  <1> SUFFICES ASSUME IsRescored(h, b)
               PROVE  /\ h.moveHistory # <<>> /\ Ending(h) = GoalEnd(h.rules, getCurrentTurnNumber(h), b, c)
                      /\ Ending(h) = RulesEnd(h, b)
    OBVIOUS
  <1>1. c # C_EMPTY /\ h.moveHistory # <<>>
    BY DEF IsRescored, RecordOf
  <1>2. RulesEnd(h, b) = GoalEnd(h.rules, getCurrentTurnNumber(h), b, c)
    BY <1>1 DEF RulesEnd, EndingOf
  <1>3. RulesEnd(h, b) # NoEnd
    BY <1>2 DEF GoalEnd, ScoredEnd, NoEnd
  <1> QED BY <1>1, <1>2, <1>3 DEF IsEnd

(* A new komi: the end is that of the rules with the new komi, if it was. *)
LEMMA KomiKeeps ==
  ASSUME NEW h, NEW b, RecordOf(h, b), IsEnd(h, b), NEW komi, IsValidKomi(komi), NEW g, g = setKomi(h, komi)
  PROVE  /\ RecordOf(g, b) /\ IsEnd(g, b) /\ g.rules = WithKomi(h.rules, komi)
         /\ Origin(g) = Origin(h) /\ Course(g) = Course(h)
  <1>1. IsHistory(h) /\ AreRules(h.rules) /\ getRecentBoard(h, 0) = b
    BY RingCurrent DEF RecordOf
  <1>2. PICK c : c = pawnOnGoal(b)
    OBVIOUS
  <1>3. /\ IsHistory(g) /\ g.rules = WithKomi(h.rules, komi) /\ Origin(g) = Origin(h) /\ Course(g) = Course(h)
        /\ Ending(g) = (IF IsRescored(h, b)
                        THEN ScoredEnd(g.rules, getCurrentTurnNumber(h), b, c, h.isRepetitionDrawFlag)
                        ELSE Ending(h))
    BY <1>1, <1>2, KomiEffect
  <1>4. /\ AreRules(g.rules) /\ g.rules.maxPlies = h.rules.maxPlies
        /\ g.rules.repetitionDrawCount = h.rules.repetitionDrawCount
    BY <1>1, <1>3, KomiRules
  <1>5. RecordOf(g, b)
    BY <1>3, <1>4, RecordStays
  <1>6. /\ getCurrentTurnNumber(g) = getCurrentTurnNumber(h) /\ g.moveHistory = h.moveHistory
        /\ g.currentRepetitionCount = h.currentRepetitionCount
    BY <1>3 DEF getCurrentTurnNumber, Origin, Course
  <1>7. CASE IsRescored(h, b)
    BY <1>2, <1>3, <1>5, <1>6, <1>7, EndsApart, ZenonT(60) DEF IsRescored, Ending, GoalEnd, ScoredEnd, RulesEnd, EndingOf, IsEnd
  <1>8. CASE ~IsRescored(h, b)
    BY <1>2, <1>3, <1>4, <1>5, <1>6, <1>8 DEF RulesEnd, EndingOf, Repeated, IsEnd, GoalEnd, ScoredEnd, NoEnd, Ending, IsRescored
  <1> QED BY <1>7, <1>8

-----------------------------------------------------------------------------
(* Replaying a list of moves *)

(* A move of a replay: that of Replay, and with a hash that of             *)
(* getGraphHashFromScratch.                                                *)
Played(hashed, s, move) ==
  LET after == playMoveAssumeLegal(s.board, move.loc, move.pla)
      next == makeBoardMoveAssumeLegal(s.hist, after, move.loc, move.pla)
  IN  IF hashed = 1
      THEN [board |-> after, hist |-> next, hash |-> getGraphHash(s.hash, s.hist, move.pla)]
      ELSE [board |-> after, hist |-> next]
IsPlayed(hashed, g, base, moves) ==
  g = [s \in SUBSET DOMAIN moves |->
         IF s = {} THEN base ELSE Played(hashed, g[s \ {Max(s)}], moves[Max(s)])]
PlayedOut(hashed, base, moves) == (CHOOSE g : IsPlayed(hashed, g, base, moves))[DOMAIN moves]

(* The equation of a replay has a solution. *)
LEMMA PlayedExists ==
  ASSUME NEW hashed, NEW base, NEW moves, IsList(moves)
  PROVE  \E g : IsPlayed(hashed, g, base, moves)
  <1> DEFINE m == Len(moves)
             Fine(g, n) == g = [s \in SUBSET (1 .. n) |->
                                 IF s = {} THEN base ELSE Played(hashed, g[s \ {Max(s)}], moves[Max(s)])]
             S == {n \in Nat : \E g : Fine(g, n)}
  <1>0. m \in Nat /\ DOMAIN moves = 1 .. m
    BY DEF IsList
  <1>1. 0 \in S
    <2> DEFINE g == [s \in SUBSET (1 .. 0) |-> base]
    <2>1. \A s \in SUBSET (1 .. 0) : s = {}
      OBVIOUS
    <2>2. Fine(g, 0)
      BY <2>1
    <2> HIDE DEF g, Fine
    <2> QED BY <2>2
  <1>2. ASSUME NEW n \in Nat, n \in S PROVE n + 1 \in S
    <2>1. PICK h : Fine(h, n)
      BY <1>2
    <2> DEFINE g == [s \in SUBSET (1 .. n + 1) |->
                      IF n + 1 \in s THEN Played(hashed, h[s \ {n + 1}], moves[n + 1]) ELSE h[s]]
    <2>2. ASSUME NEW s \in SUBSET (1 .. n + 1)
          PROVE  g[s] = IF s = {} THEN base ELSE Played(hashed, g[s \ {Max(s)}], moves[Max(s)])
      <3>1. CASE n + 1 \in s
        <4>1. Max(s) = n + 1
          BY <3>1, MaxOfNext
        <4>2. s \ {n + 1} \in SUBSET (1 .. n + 1) /\ n + 1 \notin s \ {n + 1} /\ s # {}
          BY <3>1
        <4>3. g[s \ {n + 1}] = h[s \ {n + 1}]
          BY <4>2
        <4>4. g[s] = Played(hashed, h[s \ {n + 1}], moves[n + 1])
          BY <3>1
        <4> HIDE DEF g, Fine
        <4> QED BY <4>1, <4>2, <4>3, <4>4
      <3>2. CASE n + 1 \notin s
        <4>1. s \in SUBSET (1 .. n) /\ s \ {Max(s)} \in SUBSET (1 .. n) /\ s \ {Max(s)} \in SUBSET (1 .. n + 1)
          <5>1. \A x \in s : x \in 1 .. n
            BY <3>2
          <5> QED BY <5>1
        <4>2. g[s] = h[s] /\ g[s \ {Max(s)}] = h[s \ {Max(s)}]
          BY <3>2, <4>1
        <4>3. h[s] = IF s = {} THEN base ELSE Played(hashed, h[s \ {Max(s)}], moves[Max(s)])
          BY <2>1, <4>1, Zenon
        <4> HIDE DEF g, Fine
        <4> QED BY <4>2, <4>3
      <3> QED BY <3>1, <3>2
    <2>3. g = [s \in SUBSET (1 .. n + 1) |-> g[s]]
      OBVIOUS
    <2> HIDE DEF g
    <2>4. Fine(g, n + 1)
      BY <2>2, <2>3
    <2> HIDE DEF Fine
    <2> QED BY <2>4
  <1>3. m \in S
    <2> HIDE DEF S
    <2> QED BY <1>0, <1>1, <1>2, NatSet
  <1> QED BY <1>0, <1>3 DEF IsPlayed

(* Its first values: the start, and each move played on the one before. *)
LEMMA PlayedFirst ==
  ASSUME NEW hashed, NEW base, NEW moves, NEW g, IsPlayed(hashed, g, base, moves)
  PROVE  g[{}] = base
  BY DEF IsPlayed

LEMMA PlayedSteps ==
  ASSUME NEW hashed, NEW base, NEW moves, IsList(moves), NEW g, IsPlayed(hashed, g, base, moves)
  PROVE  \A k \in Nat : k + 1 <= Len(moves) => g[1 .. k + 1] = Played(hashed, g[1 .. k], moves[k + 1])
  <1>0. Len(moves) \in Nat /\ DOMAIN moves = 1 .. Len(moves)
    BY DEF IsList
  <1>2. ASSUME NEW k \in Nat, k + 1 <= Len(moves) PROVE g[1 .. k + 1] = Played(hashed, g[1 .. k], moves[k + 1])
    <2>1. 1 .. k + 1 \in SUBSET DOMAIN moves /\ 1 .. k + 1 # {} /\ k + 1 \in 1 .. k + 1
      BY <1>0, <1>2
    <2>2. Max(1 .. k + 1) = k + 1
      BY <2>1, MaxOfNext
    <2>3. (1 .. k + 1) \ {k + 1} = 1 .. k
      BY <1>2
    <2>4. g[1 .. k + 1] = Played(hashed, g[(1 .. k + 1) \ {Max(1 .. k + 1)}], moves[Max(1 .. k + 1)])
      BY <2>1, Zenon DEF IsPlayed
    <2> QED BY <2>2, <2>3, <2>4
  <1> QED BY <1>2

(* Two lists that begin alike are replayed alike that far. *)
LEMMA PlayedAgree ==
  ASSUME NEW hashed, NEW base, NEW s, IsList(s), NEW t, IsList(t), Len(s) <= Len(t),
         \A i \in 1 .. Len(s) : t[i] = s[i],
         NEW g, IsPlayed(hashed, g, base, s), NEW h, IsPlayed(hashed, h, base, t)
  PROVE  g[1 .. Len(s)] = h[1 .. Len(s)]
  <1>0. Len(s) \in Nat /\ Len(t) \in Nat
    BY DEF IsList
  <1> DEFINE S == {k \in Nat : k <= Len(s) => g[1 .. k] = h[1 .. k]}
  <1>1. 0 \in S
    BY PlayedFirst
  <1>2. ASSUME NEW k \in Nat, k \in S PROVE k + 1 \in S
    BY <1>0, <1>2, PlayedSteps
  <1>3. Len(s) \in S
    <2> HIDE DEF S
    <2> QED BY <1>0, <1>1, <1>2, NatSet
  <1> QED BY <1>0, <1>3

(* The value at the end, whatever solution is taken. *)
LEMMA PlayedValue ==
  ASSUME NEW hashed, NEW base, NEW moves, IsList(moves), NEW g, IsPlayed(hashed, g, base, moves)
  PROVE  PlayedOut(hashed, base, moves) = g[1 .. Len(moves)]
  <1> DEFINE h == CHOOSE f : IsPlayed(hashed, f, base, moves)
  <1>0. Len(moves) \in Nat /\ DOMAIN moves = 1 .. Len(moves)
    BY DEF IsList
  <1>1. IsPlayed(hashed, h, base, moves)
    OBVIOUS
  <1>2. PlayedOut(hashed, base, moves) = h[1 .. Len(moves)]
    BY <1>0 DEF PlayedOut
  <1> HIDE DEF h
  <1>3. Len(moves) <= Len(moves)
    BY <1>0
  <1>4. g[1 .. Len(moves)] = h[1 .. Len(moves)]
    BY <1>1, <1>3, PlayedAgree
  <1> QED BY <1>2, <1>4

(* No move leaves the start, and one more is played on what came before. *)
LEMMA PlayedNone ==
  ASSUME NEW hashed, NEW base
  PROVE  PlayedOut(hashed, base, <<>>) = base
  <1>1. IsList(<<>>) /\ Len(<<>>) = 0
    BY EmptyList
  <1>2. PICK g : IsPlayed(hashed, g, base, <<>>)
    BY <1>1, PlayedExists
  <1>3. g[{}] = base /\ 1 .. 0 = {}
    BY <1>1, <1>2, PlayedFirst
  <1> QED BY <1>1, <1>2, <1>3, PlayedValue

LEMMA PlayedNext ==
  ASSUME NEW hashed, NEW base, NEW moves, IsList(moves), NEW m
  PROVE  PlayedOut(hashed, base, Append(moves, m)) = Played(hashed, PlayedOut(hashed, base, moves), m)
  <1> DEFINE t == Append(moves, m)
             n == Len(moves)
  <1>1. IsLonger(moves, m, t)
    BY ListAppend
  <1>2. n \in Nat /\ IsList(t) /\ Len(t) = n + 1 /\ t[n + 1] = m /\ \A i \in 1 .. n : t[i] = moves[i]
    BY <1>1 DEF IsLonger
  <1> HIDE DEF t
  <1>3. PICK g : IsPlayed(hashed, g, base, moves)
    BY PlayedExists
  <1>4. PICK h : IsPlayed(hashed, h, base, t)
    BY <1>2, PlayedExists
  <1>5. n <= Len(t) /\ n + 1 <= Len(t)
    BY <1>2
  <1>6. g[1 .. n] = h[1 .. n]
    BY <1>2, <1>3, <1>4, <1>5, PlayedAgree
  <1>7. h[1 .. n + 1] = Played(hashed, h[1 .. n], t[n + 1])
    BY <1>2, <1>4, <1>5, PlayedSteps
  <1>8. PlayedOut(hashed, base, moves) = g[1 .. n] /\ PlayedOut(hashed, base, t) = h[1 .. n + 1]
    BY <1>2, <1>3, <1>4, PlayedValue
  <1> QED BY <1>2, <1>6, <1>7, <1>8 DEF t

(* Both replays of the code are such a one. *)
LEMMA ReplayIs ==
  ASSUME NEW h, IsList(h.moveHistory)
  PROVE  Replay(h) = PlayedOut(0, [board |-> h.initialBoard, hist |-> copyToInitial(h)], h.moveHistory)
  <1> DEFINE Base == [board |-> h.initialBoard, hist |-> copyToInitial(h)]
             Moves0 == h.moveHistory
             Play(s, move) ==
               [board |-> playMoveAssumeLegal(s.board, move.loc, move.pla),
                hist |-> makeBoardMoveAssumeLegal(s.hist, playMoveAssumeLegal(s.board, move.loc, move.pla),
                                                  move.loc, move.pla)]
             Is(g) == g = [s \in SUBSET DOMAIN Moves0 |->
                             IF s = {} THEN Base ELSE Play(g[s \ {Max(s)}], Moves0[Max(s)])]
             c == CHOOSE g : Is(g)
  <1>1. Replay(h) = c[DOMAIN Moves0]
    BY DEF Replay, FoldLeft, MapThenFoldSet
  <1>2. \A s, m : Play(s, m) = Played(0, s, m)
    BY DEF Played
  <1>3. \A g : Is(g) <=> IsPlayed(0, g, Base, Moves0)
    <2> HIDE DEF Play, Base, Moves0
    <2> QED BY <1>2 DEF IsPlayed
  <1>4. \E g : IsPlayed(0, g, Base, Moves0)
    BY PlayedExists
  <1> HIDE DEF Is, Base
  <1>5. IsPlayed(0, c, Base, Moves0)
    BY <1>3, <1>4
  <1> HIDE DEF c, Moves0
  <1>6. IsList(Moves0) /\ DOMAIN Moves0 = 1 .. Len(Moves0)
    BY DEF Moves0, IsList
  <1>7. PlayedOut(0, Base, Moves0) = c[1 .. Len(Moves0)]
    BY <1>5, <1>6, PlayedValue
  <1> QED BY <1>1, <1>6, <1>7 DEF Base, Moves0

LEMMA GraphReplayIs ==
  ASSUME NEW h, IsList(h.moveHistory), NEW pla, NEW s,
         s = PlayedOut(1, [board |-> h.initialBoard, hist |-> copyToInitial(h), hash |-> <<>>], h.moveHistory)
  PROVE  getGraphHashFromScratch(h, pla) = FinalGraphHash(s.hash, s.hist, pla)
  <1> DEFINE Base == [board |-> h.initialBoard, hist |-> copyToInitial(h), hash |-> <<>>]
             Moves0 == h.moveHistory
             Play(r, move) ==
               [board |-> playMoveAssumeLegal(r.board, move.loc, move.pla),
                hist |-> makeBoardMoveAssumeLegal(r.hist, playMoveAssumeLegal(r.board, move.loc, move.pla),
                                                  move.loc, move.pla),
                hash |-> getGraphHash(r.hash, r.hist, move.pla)]
             Is(g) == g = [u \in SUBSET DOMAIN Moves0 |->
                             IF u = {} THEN Base ELSE Play(g[u \ {Max(u)}], Moves0[Max(u)])]
             c == CHOOSE g : Is(g)
  <1>1. getGraphHashFromScratch(h, pla) = FinalGraphHash(c[DOMAIN Moves0].hash, c[DOMAIN Moves0].hist, pla)
    BY DEF getGraphHashFromScratch, FoldLeft, MapThenFoldSet
  <1>2. \A r, m : Play(r, m) = Played(1, r, m)
    BY DEF Played
  <1>3. \A g : Is(g) <=> IsPlayed(1, g, Base, Moves0)
    <2> HIDE DEF Play, Base, Moves0
    <2> QED BY <1>2 DEF IsPlayed
  <1>4. \E g : IsPlayed(1, g, Base, Moves0)
    BY PlayedExists
  <1> HIDE DEF Is, Base
  <1>5. IsPlayed(1, c, Base, Moves0)
    BY <1>3, <1>4
  <1> HIDE DEF c, Moves0
  <1>6. IsList(Moves0) /\ DOMAIN Moves0 = 1 .. Len(Moves0)
    BY DEF Moves0, IsList
  <1>7. PlayedOut(1, Base, Moves0) = c[1 .. Len(Moves0)]
    BY <1>5, <1>6, PlayedValue
  <1> QED BY <1>1, <1>6, <1>7 DEF Base, Moves0

-----------------------------------------------------------------------------
(* What a history knows of the boards it has passed *)

TurnAt(h, k) == IF k = 1 THEN h.initialPla ELSE getOpp(h.moveHistory[k - 1].pla)

(* The boards of the game, one more than its moves. *)
PastOf(h, b, boardsOf) ==
  /\ IsList(boardsOf) /\ Len(boardsOf) = Len(h.moveHistory) + 1 /\ boardsOf[Len(boardsOf)] = b
  /\ \A k \in 1 .. Len(boardsOf) : InPlay(boardsOf[k]) /\ TurnAt(h, k) \in Players
  /\ TurnAt(h, Len(boardsOf)) = h.presumedNextMovePla

(* The positions counted are those since the last wall: all that have the *)
(* walls left of the current one.                                         *)
CountedIn(counted, h, b, boardsOf) ==
  LET first == Len(boardsOf) - Len(counted)
  IN  /\ first \in Nat
      /\ \A k \in 1 .. first : WallsLeft(boardsOf[k]) > WallsLeft(b)
      /\ \A i \in 1 .. Len(counted) : /\ counted[i] = getSitHash(boardsOf[first + i], TurnAt(h, first + i))
                                     /\ WallsLeft(boardsOf[first + i]) = WallsLeft(b)
CountedOf(h, b, boardsOf) == CountedIn(h.positionsSinceLastWall, h, b, boardsOf)

RingOf(h, boardsOf) ==
  \A ago \in 0 .. NUM_RECENT_BOARDS - 1 : getRecentBoard(h, ago) = boardsOf[MaxOf(1, Len(boardsOf) - ago)]

(* In a game of strict moves only the last mover can have arrived. *)
OneArrived(h, b) ==
  pawnOnGoal(b) # C_EMPTY =>
    /\ h.presumedNextMovePla = getOpp(pawnOnGoal(b))
    /\ b.pawn[h.presumedNextMovePla][2] # GoalRow(h.presumedNextMovePla)

(* They depend on the origin and the course of the game only. *)
LEMMA PastKeeps ==
  ASSUME NEW h, NEW g, Origin(g) = Origin(h), Course(g) = Course(h), NEW b, NEW boardsOf
  PROVE  /\ PastOf(h, b, boardsOf) => PastOf(g, b, boardsOf)
         /\ CountedOf(h, b, boardsOf) => CountedOf(g, b, boardsOf)
         /\ RingOf(h, boardsOf) => RingOf(g, boardsOf)
         /\ OneArrived(h, b) => OneArrived(g, b)
  <1>1. /\ g.moveHistory = h.moveHistory /\ g.recentBoards = h.recentBoards
        /\ g.currentRecentBoardIdx = h.currentRecentBoardIdx /\ g.presumedNextMovePla = h.presumedNextMovePla
        /\ g.positionsSinceLastWall = h.positionsSinceLastWall /\ g.initialPla = h.initialPla
    BY DEF Origin, Course
  <1>2. \A k : TurnAt(g, k) = TurnAt(h, k)
    BY <1>1 DEF TurnAt
  <1>3. PastOf(h, b, boardsOf) => PastOf(g, b, boardsOf)
    BY <1>1, <1>2, Zenon DEF PastOf
  <1>4. CountedOf(h, b, boardsOf) => CountedOf(g, b, boardsOf)
    <2>1. PICK q : q = h.positionsSinceLastWall
      OBVIOUS
    <2>2. CountedIn(q, h, b, boardsOf) => CountedIn(q, g, b, boardsOf)
      BY <1>2 DEF CountedIn
    <2> QED BY <1>1, <2>1, <2>2, Zenon DEF CountedOf
  <1>5. RingOf(h, boardsOf) => RingOf(g, boardsOf)
    BY <1>1, Zenon DEF RingOf, getRecentBoard
  <1>6. OneArrived(h, b) => OneArrived(g, b)
    BY <1>1, Zenon DEF OneArrived
  <1> QED BY <1>3, <1>4, <1>5, <1>6

(* Who was to move is not changed by a move, and after it the other is. *)
LEMMA TurnNext ==
  ASSUME NEW h, NEW b, RecordOf(h, b), NEW loc \in Locs, NEW pla \in Players, NEW after,
         NEW g, IsNext(h, after, loc, pla, g)
  PROVE  /\ \A k \in 1 .. Len(h.moveHistory) + 1 : TurnAt(g, k) = TurnAt(h, k)
         /\ TurnAt(g, Len(h.moveHistory) + 2) = getOpp(pla)
  <1> DEFINE n == Len(h.moveHistory)
             m == [loc |-> loc, pla |-> pla]
  <1>1. h.moveHistory \in Seq(Moves) /\ g.moveHistory = Append(h.moveHistory, m) /\ m.pla = pla
    BY DEF RecordOf, IsNext
  <1>2. n \in Nat /\ g.initialPla = h.initialPla
    BY <1>1 DEF IsNext, Origin
  <1> HIDE DEF m
  <1>3. ASSUME NEW k \in 1 .. n + 1 PROVE TurnAt(g, k) = TurnAt(h, k)
    BY <1>1, <1>2 DEF TurnAt
  <1>4. TurnAt(g, n + 2) = getOpp(pla)
    BY <1>1, <1>2 DEF TurnAt
  <1> QED BY <1>3, <1>4

LEMMA PastNext ==
  ASSUME NEW h, NEW b, RecordOf(h, b), NEW loc \in Locs, NEW pla \in Players, NEW after, InPlay(after),
         NEW g, IsNext(h, after, loc, pla, g), NEW s, PastOf(h, b, s), NEW t, t = Append(s, after)
  PROVE  PastOf(g, after, t)
  <1> DEFINE n == Len(h.moveHistory)
  <1>1. n \in Nat
    BY DEF RecordOf
  <1>2. IsLonger(s, after, t)
    BY ListAppend DEF PastOf
  <1>3. Len(g.moveHistory) = n + 1 /\ g.presumedNextMovePla = getOpp(pla) /\ getOpp(pla) \in Players
    BY RecordNext, OppIs DEF IsNext
  <1>4. Len(s) = n + 1 /\ \A k \in 1 .. Len(s) : InPlay(s[k]) /\ TurnAt(h, k) \in Players
    BY DEF PastOf
  <1>5. /\ IsList(t) /\ Len(t) = n + 2 /\ t[n + 2] = after /\ \A k \in 1 .. n + 1 : t[k] = s[k]
    BY <1>1, <1>2, <1>4 DEF IsLonger
  <1>6. /\ \A k \in 1 .. n + 1 : TurnAt(g, k) = TurnAt(h, k)
        /\ TurnAt(g, n + 2) = getOpp(pla)
    BY TurnNext
  <1>7. ASSUME NEW k \in 1 .. n + 2 PROVE InPlay(t[k]) /\ TurnAt(g, k) \in Players
    BY <1>1, <1>3, <1>4, <1>5, <1>6
  <1>8. Len(t) = Len(g.moveHistory) + 1
    BY <1>1, <1>3, <1>5
  <1> QED BY <1>3, <1>5, <1>6, <1>7, <1>8 DEF PastOf

LEMMA CountedNext ==
  ASSUME NEW h, NEW b, InPlay(b), RecordOf(h, b), NEW loc \in Locs, NEW pla \in Players,
         NEW after, InPlay(after), IsMoved(b, loc, pla, after),
         NEW g, IsNext(h, after, loc, pla, g), NEW s, PastOf(h, b, s), CountedOf(h, b, s), NEW t, t = Append(s, after)
  PROVE  CountedOf(g, after, t)
  <1> DEFINE n == Len(h.moveHistory)
             old == h.positionsSinceLastWall
             new == g.positionsSinceLastWall
             m == Len(old)
             first == Len(s) - m
             hash == getSitHash(after, getOpp(pla))
             kept == IF loc \notin PawnLocs THEN <<>> ELSE old
  <1>1. n \in Nat /\ IsList(old) /\ m \in Nat /\ Len(s) = n + 1
    BY DEF RecordOf, IsList, PastOf
  <1>2. Len(t) = n + 2 /\ t[n + 2] = after /\ \A k \in 1 .. n + 1 : t[k] = s[k]
    BY <1>1, ListAppend DEF PastOf, IsLonger
  <1>3. /\ \A k \in 1 .. n + 1 : TurnAt(g, k) = TurnAt(h, k)
        /\ TurnAt(g, n + 2) = getOpp(pla)
    BY TurnNext
  <1>4. IsLonger(kept, hash, new)
    <2>1. IsList(kept) /\ new = Append(kept, hash)
      BY <1>1, EmptyList DEF IsNext
    <2> HIDE DEF kept, hash
    <2> QED BY <2>1, ListAppend
  <1>5. /\ first \in Nat
        /\ \A k \in 1 .. first : WallsLeft(s[k]) > WallsLeft(b)
        /\ \A i \in 1 .. m : /\ old[i] = getSitHash(s[first + i], TurnAt(h, first + i))
                             /\ WallsLeft(s[first + i]) = WallsLeft(b)
    BY DEF CountedOf, CountedIn
  <1>6. WallsLeft(b) \in Nat /\ WallsLeft(after) \in Nat
    BY WallsLeftNat
  <1>7. \A k \in 1 .. n + 1 : WallsLeft(s[k]) \in Nat /\ WallsLeft(t[k]) = WallsLeft(s[k])
    BY <1>1, <1>2, WallsLeftNat DEF PastOf
  <1>8. CASE loc \in PawnLocs
    <2>1. Len(new) = m + 1 /\ new[m + 1] = hash /\ \A i \in 1 .. m : new[i] = old[i]
      BY <1>1, <1>4, <1>8 DEF IsLonger
    <2>2. Len(t) - Len(new) = first /\ first + (m + 1) = n + 2
      <3> HIDE DEF m, n, new
      <3> QED BY <1>1, <1>2, <2>1
    <2>3. WallsLeft(after) = WallsLeft(b)
      BY <1>8 DEF IsMoved, WallsLeft
    <2> HIDE DEF new, old, hash, first, m, n
    <2>4. ASSUME NEW k \in 1 .. first PROVE WallsLeft(t[k]) > WallsLeft(after)
      BY <1>1, <1>5, <1>7, <2>2, <2>3
    <2>5. ASSUME NEW i \in 1 .. Len(new)
          PROVE  new[i] = getSitHash(t[first + i], TurnAt(g, first + i)) /\ WallsLeft(t[first + i]) = WallsLeft(after)
      <3>1. CASE i = m + 1
        BY <1>2, <1>3, <2>1, <2>2, <3>1 DEF hash
      <3>2. CASE i # m + 1
        BY <1>1, <1>2, <1>3, <1>5, <2>1, <2>2, <2>3, <3>2
      <3> QED BY <3>1, <3>2
    <2> QED BY <1>5, <2>2, <2>4, <2>5 DEF CountedOf, CountedIn, new
  <1>9. CASE loc \notin PawnLocs
    <2>1. Len(new) = 1 /\ new[1] = hash
      <3>1. IsLonger(<<>>, hash, new) /\ Len(<<>>) = 0
        BY <1>4, <1>9
      <3> HIDE DEF hash, new
      <3> QED BY <3>1 DEF IsLonger
    <2>2. Len(t) - Len(new) = n + 1 /\ (n + 1) + 1 = n + 2
      BY <1>1, <1>2, <2>1
    <2>3. WallsLeft(after) < WallsLeft(b)
      BY <1>9 DEF IsMoved
    <2> HIDE DEF new, old, hash, first, m
    <2>4. ASSUME NEW k \in 1 .. n + 1 PROVE WallsLeft(t[k]) > WallsLeft(after)
      <3>1. WallsLeft(s[k]) \in Nat /\ WallsLeft(t[k]) = WallsLeft(s[k])
        BY <1>7
      <3>2. WallsLeft(s[k]) >= WallsLeft(b)
        <4>1. CASE k \in 1 .. first
          BY <1>5, <1>6, <3>1, <4>1
        <4>2. CASE k \notin 1 .. first
          <5>0. first + m = n + 1
            <6> HIDE DEF n
            <6> QED BY <1>1 DEF first
          <5>1. k - first \in 1 .. m /\ first + (k - first) = k
            <6> HIDE DEF n
            <6> QED BY <1>1, <1>5, <4>2, <5>0
          <5>2. WallsLeft(s[first + (k - first)]) = WallsLeft(b)
            BY <1>5, <5>1
          <5> QED BY <1>6, <5>1, <5>2
        <4> QED BY <4>1, <4>2
      <3> QED BY <1>6, <2>3, <3>1, <3>2
    <2>5. ASSUME NEW i \in 1 .. Len(new)
          PROVE  new[i] = getSitHash(t[(n + 1) + i], TurnAt(g, (n + 1) + i)) /\ WallsLeft(t[(n + 1) + i]) = WallsLeft(after)
      BY <1>2, <1>3, <2>1, <2>2 DEF hash
    <2>6. n + 1 \in Nat
      BY <1>1
    <2> HIDE DEF n
    <2> QED BY <2>2, <2>4, <2>5, <2>6 DEF CountedOf, CountedIn, new
  <1> QED BY <1>8, <1>9

LEMMA RingNext ==
  ASSUME NEW h, NEW b, RecordOf(h, b), NEW loc \in Locs, NEW pla \in Players, NEW after,
         NEW g, IsNext(h, after, loc, pla, g), NEW s, PastOf(h, b, s), RingOf(h, s), NEW t, t = Append(s, after)
  PROVE  RingOf(g, t)
  <1> DEFINE n == NUM_RECENT_BOARDS
             i == h.currentRecentBoardIdx
             j == g.currentRecentBoardIdx
             L == Len(s)
  <1>1. n \in Nat \ {0} /\ i \in 0 .. n - 1 /\ DOMAIN h.recentBoards = 0 .. n - 1
    BY RingAssumption DEF RecordOf
  <1>2. L \in Nat /\ L >= 1
    BY DEF RecordOf, PastOf
  <1>3. Len(t) = L + 1 /\ t[L + 1] = after /\ \A k \in 1 .. L : t[k] = s[k]
    BY <1>2, ListAppend DEF PastOf, IsLonger
  <1>4. j = (i + 1) % n /\ g.recentBoards = [h.recentBoards EXCEPT ![j] = after]
    BY DEF IsNext
  <1> HIDE DEF n, i, j, L
  <1>5. j = (IF i + 1 = n THEN 0 ELSE i + 1) /\ j \in 0 .. n - 1
    <2>1. 0 \in 0 .. n - 1
      BY <1>1
    <2>2. j = (IF i + 1 = n THEN 0 ELSE i + 1)
      BY <1>1, <1>4, <2>1, RingIs
    <2> QED BY <1>1, <2>2
  <1>6. ASSUME NEW ago \in 0 .. n - 1 PROVE getRecentBoard(g, ago) = t[MaxOf(1, Len(t) - ago)]
    <2>1. (j - ago) % n = (IF j >= ago THEN j - ago ELSE j - ago + n)
      BY <1>1, <1>5, RingIs
    <2>2. getRecentBoard(g, ago) = g.recentBoards[(j - ago) % n]
      BY DEF getRecentBoard, n, j
    <2>3. CASE ago = 0
      BY <1>1, <1>2, <1>3, <1>4, <1>5, <2>1, <2>2, <2>3 DEF MaxOf
    <2>4. CASE ago # 0
      <3>1. PICK a \in 0 .. n - 1 : a + 1 = ago
        BY <1>1, <2>4
      <3>2. (i - a) % n = (IF i >= a THEN i - a ELSE i - a + n)
        BY <1>1, <3>1, RingIs
      <3>3. (j - ago) % n = (i - a) % n /\ (i - a) % n \in 0 .. n - 1 /\ (i - a) % n # j
        BY <1>1, <1>5, <2>1, <3>1, <3>2
      <3>4. g.recentBoards[(j - ago) % n] = h.recentBoards[(i - a) % n]
        BY <1>1, <1>4, <3>3
      <3>5. h.recentBoards[(i - a) % n] = getRecentBoard(h, a)
        BY DEF getRecentBoard, n, i
      <3>6. getRecentBoard(h, a) = s[MaxOf(1, L - a)]
        BY <3>1 DEF RingOf, n, L
      <3>7. MaxOf(1, Len(t) - ago) = MaxOf(1, L - a) /\ MaxOf(1, L - a) \in 1 .. L
        BY <1>1, <1>2, <1>3, <3>1 DEF MaxOf
      <3> QED BY <1>3, <2>2, <3>4, <3>5, <3>6, <3>7
    <2> QED BY <2>3, <2>4
  <1> QED BY <1>6 DEF RingOf, n

(* Only the mover can arrive. *)
LEMMA ArrivedNext ==
  ASSUME NEW h, NEW b, pawnOnGoal(b) = C_EMPTY, NEW loc \in Locs, NEW pla \in Players,
         NEW after, IsMoved(b, loc, pla, after), NEW g, IsNext(h, after, loc, pla, g)
  PROVE  OneArrived(g, after)
  <1>1. \A p \in Players : b.pawn[p][2] # GoalRow(p)
    BY DEF pawnOnGoal, Players, P_BLACK, P_WHITE, C_EMPTY
  <1>2. getOpp(pla) \in Players /\ g.presumedNextMovePla = getOpp(pla)
    BY OppIs DEF IsNext
  <1>3. after.pawn[getOpp(pla)][2] # GoalRow(getOpp(pla))
    BY <1>1, <1>2 DEF IsMoved
  <1>4. pawnOnGoal(after) # C_EMPTY => pawnOnGoal(after) = pla
    BY <1>3 DEF pawnOnGoal, getOpp, P_BLACK, P_WHITE, Players
  <1> QED BY <1>2, <1>3, <1>4 DEF OneArrived

(* A game that has just begun. *)
LEMMA PastStart ==
  ASSUME NEW b, InPlay(b), pawnOnGoal(b) = C_EMPTY, NEW rules, AreRules(rules), NEW turn \in Nat, NEW pla \in Players,
         NEW h, h = newHistory(b, pla, rules, turn), NEW s, s = <<b>>
  PROVE  PastOf(h, b, s) /\ CountedOf(h, b, s) /\ RingOf(h, s) /\ OneArrived(h, b)
  <1>1. IsList(s) /\ Len(s) = 1 /\ s[1] = b
    BY OneEntry
  <1>2. /\ h.moveHistory = <<>> /\ h.presumedNextMovePla = pla /\ h.initialPla = pla
        /\ h.positionsSinceLastWall = <<getSitHash(b, pla)>> /\ h.currentRecentBoardIdx = 0
        /\ h.recentBoards = [i \in 0 .. NUM_RECENT_BOARDS - 1 |-> b]
    <2>1. /\ Origin(h) = <<b, pla, turn>>
          /\ Course(h) = <<(<<>>), [i \in 0 .. NUM_RECENT_BOARDS - 1 |-> b], 0, pla, <<getSitHash(b, pla)>>, 1>>
      BY NewHistory
    <2> QED BY <2>1 DEF Origin, Course
  <1>3. TurnAt(h, 1) = pla
    BY <1>2 DEF TurnAt
  <1>4. PastOf(h, b, s)
    <2>1. Len(h.moveHistory) = 0
      BY <1>2
    <2>2. \A k \in 1 .. Len(s) : k = 1
      BY <1>1
    <2> HIDE DEF PastOf
    <2> QED BY <1>1, <1>2, <1>3, <2>1, <2>2 DEF PastOf
  <1>5. CountedOf(h, b, s)
    BY <1>1, <1>2, <1>3, OneEntry DEF CountedIn, CountedOf
  <1>6. RingOf(h, s)
    <2>1. ASSUME NEW ago \in 0 .. NUM_RECENT_BOARDS - 1
          PROVE  getRecentBoard(h, ago) = s[MaxOf(1, Len(s) - ago)]
      BY <1>1, <1>2, RingAssumption, RingIs DEF getRecentBoard, MaxOf
    <2> QED BY <2>1 DEF RingOf
  <1>7. OneArrived(h, b)
    BY DEF OneArrived
  <1> QED BY <1>4, <1>5, <1>6, <1>7

-----------------------------------------------------------------------------
(* Replaying a game *)

(* A replay under any komi reaches the same board by the same course, and *)
(* the end that the rules give it.                                        *)
IsReplay(h, b, komi, r) ==
  /\ r.board = b /\ RecordOf(r.hist, b) /\ r.hist.rules = WithKomi(h.rules, komi)
  /\ Origin(r.hist) = Origin(h) /\ Course(r.hist) = Course(h) /\ Ending(r.hist) = RulesEnd(r.hist, b)
ReplayStart(h, komi) ==
  [board |-> h.initialBoard,
   hist |-> newHistory(h.initialBoard, h.initialPla, WithKomi(h.rules, komi), h.initialTurnNumber)]
Replayable(h, b) ==
  \A komi : IsValidKomi(komi) => IsReplay(h, b, komi, PlayedOut(0, ReplayStart(h, komi), h.moveHistory))

LEMMA ReplayBegins ==
  ASSUME NEW b, pawnOnGoal(b) = C_EMPTY, NEW rules, AreRules(rules), NEW turn \in Nat, NEW pla \in Players,
         NEW h, h = newHistory(b, pla, rules, turn)
  PROVE  Replayable(h, b)
  <1> SUFFICES ASSUME NEW komi, IsValidKomi(komi)
               PROVE  IsReplay(h, b, komi, PlayedOut(0, ReplayStart(h, komi), h.moveHistory))
    BY DEF Replayable
  <1>1. /\ h.rules = rules /\ Origin(h) = <<b, pla, turn>>
        /\ Course(h) = <<(<<>>), [i \in 0 .. NUM_RECENT_BOARDS - 1 |-> b], 0, pla, <<getSitHash(b, pla)>>, 1>>
    BY NewHistory
  <1>2. h.moveHistory = <<>> /\ h.initialBoard = b /\ h.initialPla = pla /\ h.initialTurnNumber = turn
    BY <1>1 DEF Origin, Course
  <1>3. PICK other : other = WithKomi(rules, komi)
    OBVIOUS
  <1>4. AreRules(other)
    BY <1>3, KomiRules
  <1>5. PICK g : g = newHistory(b, pla, other, turn)
    OBVIOUS
  <1>6. /\ g.rules = other /\ Origin(g) = <<b, pla, turn>>
        /\ Course(g) = <<(<<>>), [i \in 0 .. NUM_RECENT_BOARDS - 1 |-> b], 0, pla, <<getSitHash(b, pla)>>, 1>>
    BY <1>5, NewHistory
  <1>7. RecordOf(g, b) /\ Ending(g) = RulesEnd(g, b)
    BY <1>4, <1>5, RecordStart
  <1>8. ReplayStart(h, komi) = [board |-> b, hist |-> g]
    BY <1>1, <1>2, <1>3, <1>5 DEF ReplayStart
  <1>9. PlayedOut(0, ReplayStart(h, komi), h.moveHistory) = [board |-> b, hist |-> g]
    BY <1>2, <1>8, PlayedNone
  <1>10. IsReplay(h, b, komi, [board |-> b, hist |-> g])
    BY <1>1, <1>3, <1>6, <1>7 DEF IsReplay
  <1> QED BY <1>9, <1>10

(* Two histories that have run the same course go on to do so. *)
LEMMA CourseNext ==
  ASSUME NEW h, NEW r, Origin(r) = Origin(h), Course(r) = Course(h), NEW after, NEW loc, NEW pla,
         NEW g, IsNext(h, after, loc, pla, g), NEW q, IsNext(r, after, loc, pla, q)
  PROVE  Origin(q) = Origin(g) /\ Course(q) = Course(g)
  <1>1. /\ r.moveHistory = h.moveHistory /\ r.recentBoards = h.recentBoards
        /\ r.currentRecentBoardIdx = h.currentRecentBoardIdx
        /\ r.positionsSinceLastWall = h.positionsSinceLastWall
    BY DEF Course
  <1>2. Origin(q) = Origin(g)
    BY DEF IsNext
  <1>3. /\ q.moveHistory = g.moveHistory /\ q.presumedNextMovePla = g.presumedNextMovePla
        /\ q.currentRecentBoardIdx = g.currentRecentBoardIdx /\ q.recentBoards = g.recentBoards
        /\ q.positionsSinceLastWall = g.positionsSinceLastWall
        /\ q.currentRepetitionCount = g.currentRepetitionCount
    BY <1>1, Zenon DEF IsNext
  <1>4. Course(q) = Course(g)
    BY <1>3, Zenon DEF Course
  <1> QED BY <1>2, <1>4

LEMMA ReplayGoesOn ==
  ASSUME NEW h, NEW b, RecordOf(h, b), Replayable(h, b), NEW loc \in Locs, NEW pla \in Players,
         NEW after, after = playMoveAssumeLegal(b, loc, pla), NEW g, IsNext(h, after, loc, pla, g)
  PROVE  Replayable(g, after)
  <1> SUFFICES ASSUME NEW komi, IsValidKomi(komi)
               PROVE  IsReplay(g, after, komi, PlayedOut(0, ReplayStart(g, komi), g.moveHistory))
    BY DEF Replayable
  <1> DEFINE m == [loc |-> loc, pla |-> pla]
  <1>1. PICK r : r = PlayedOut(0, ReplayStart(h, komi), h.moveHistory)
    OBVIOUS
  <1>2. IsReplay(h, b, komi, r)
    BY <1>1 DEF Replayable
  <1>3. g.rules = h.rules /\ Origin(g) = Origin(h) /\ g.moveHistory = Append(h.moveHistory, m)
    BY DEF IsNext
  <1>4. ReplayStart(g, komi) = ReplayStart(h, komi)
    BY <1>3 DEF ReplayStart, Origin
  <1>5. IsList(h.moveHistory)
    BY ListOf DEF RecordOf, ToSet, IsList
  <1>6. PICK q : q = makeBoardMoveAssumeLegal(r.hist, after, loc, pla)
    OBVIOUS
  <1>7. Played(0, r, m) = [board |-> after, hist |-> q]
    BY <1>2, <1>6 DEF Played, IsReplay
  <1>8. PlayedOut(0, ReplayStart(g, komi), g.moveHistory) = [board |-> after, hist |-> q]
    <2> HIDE DEF m
    <2> QED BY <1>1, <1>3, <1>4, <1>5, <1>7, PlayedNext
  <1>9. PICK p : p = r.hist
    OBVIOUS
  <1>10. /\ RecordOf(p, b) /\ p.rules = WithKomi(h.rules, komi) /\ Origin(p) = Origin(h) /\ Course(p) = Course(h)
    BY <1>2, <1>9 DEF IsReplay
  <1>11. IsNext(p, after, loc, pla, q)
    BY <1>6, <1>9, <1>10, MoveEffect DEF RecordOf
  <1>12. RecordOf(q, after) /\ Ending(q) = RulesEnd(q, after)
    BY <1>10, <1>11, RecordNext
  <1>13. Origin(q) = Origin(g) /\ Course(q) = Course(g)
    BY <1>10, <1>11, CourseNext
  <1>14. q.rules = WithKomi(g.rules, komi)
    BY <1>3, <1>10, <1>11 DEF IsNext
  <1>15. IsReplay(g, after, komi, [board |-> after, hist |-> q])
    BY <1>12, <1>13, <1>14 DEF IsReplay
  <1> QED BY <1>8, <1>15

(* A controller's calls do not change it. *)
LEMMA ReplayKeeps ==
  ASSUME NEW h, NEW b, AreRules(h.rules), Replayable(h, b), NEW g, NEW old, IsValidKomi(old),
         g.rules = WithKomi(h.rules, old) \/ g.rules = h.rules, Origin(g) = Origin(h), Course(g) = Course(h)
  PROVE  Replayable(g, b)
  <1> SUFFICES ASSUME NEW komi, IsValidKomi(komi)
               PROVE  IsReplay(g, b, komi, PlayedOut(0, ReplayStart(g, komi), g.moveHistory))
    BY DEF Replayable
  <1>1. WithKomi(g.rules, komi) = WithKomi(h.rules, komi)
    BY KomiRules
  <1>2. ReplayStart(g, komi) = ReplayStart(h, komi)
    BY <1>1 DEF ReplayStart, Origin
  <1>3. g.moveHistory = h.moveHistory
    BY DEF Course
  <1>4. IsReplay(h, b, komi, PlayedOut(0, ReplayStart(h, komi), h.moveHistory))
    BY DEF Replayable
  <1> QED BY <1>1, <1>2, <1>3, <1>4 DEF IsReplay

-----------------------------------------------------------------------------
(* The invariant of a game *)

(* The board is one in play; the history is a record of how it came about, *)
(* ended as the rules have it unless a controller ended it; and replaying  *)
(* its moves under any komi leads there again.                             *)
GameInv ==
  /\ InPlay(gameBoard) /\ RecordOf(hist, gameBoard) /\ IsEnd(hist, gameBoard)
  /\ PastOf(hist, gameBoard, past) /\ CountedOf(hist, gameBoard, past) /\ RingOf(hist, past)
  /\ tolerant \in Nat /\ (tolerant = 0 => OneArrived(hist, gameBoard))
  /\ Replayable(hist, gameBoard)

LEMMA GameStarts == GameInit => GameInv
  <1> SUFFICES ASSUME GameInit PROVE GameInv
    OBVIOUS
  <1>1. PICK start \in Starts :
          /\ gameBoard = start.board /\ hist = newHistory(gameBoard, P_BLACK, start.rules, start.turn)
          /\ past = <<gameBoard>> /\ tolerant = 0
    BY DEF GameInit
  <1>2. PICK rules : rules = start.rules
    OBVIOUS
  <1>3. PICK turn : turn = start.turn
    OBVIOUS
  <1>4. /\ InPlay(gameBoard) /\ pawnOnGoal(gameBoard) = C_EMPTY /\ AreRules(rules) /\ turn \in Nat
        /\ hist = newHistory(gameBoard, P_BLACK, rules, turn) /\ P_BLACK \in Players
    BY <1>1, <1>2, <1>3, GameAssumption DEF Players
  <1>5. RecordOf(hist, gameBoard) /\ IsEnd(hist, gameBoard)
    BY <1>4, RecordStart DEF IsEnd
  <1>6. PastOf(hist, gameBoard, past) /\ CountedOf(hist, gameBoard, past) /\ RingOf(hist, past) /\ OneArrived(hist, gameBoard)
    BY <1>1, <1>4, PastStart
  <1>7. Replayable(hist, gameBoard)
    BY <1>4, ReplayBegins
  <1> QED BY <1>1, <1>4, <1>5, <1>6, <1>7 DEF GameInv

(* Every move of a game is at a location of the board. *)
LEMMA MoveLocsAre == MoveLocs \subseteq Locs
  BY GameAssumption DEF MoveLocs, PawnLocs, HWallLocs, VWallLocs

(* A strict move is made on a board where nobody has arrived. *)
LEMMA NoneArrived ==
  ASSUME NEW h, NEW b, RecordOf(h, b), IsEnd(h, b), ~h.isGameFinished
  PROVE  pawnOnGoal(b) = C_EMPTY
  <1>1. RulesEnd(h, b) = NoEnd
    BY GoesOn
  <1>2. ASSUME NEW rules, NEW turn, NEW arrived PROVE GoalEnd(rules, turn, b, arrived) # NoEnd
    BY DEF GoalEnd, ScoredEnd, NoEnd
  <1> QED BY <1>1, <1>2 DEF RulesEnd, EndingOf, RecordOf

(* A move on a game as the invariant has it; tolerant or not. *)
LEMMA MoveKeeps ==
  ASSUME GameInv, NEW loc \in MoveLocs, NEW pla \in Players, isLegal(gameBoard, loc, pla), Move(loc, pla),
         tolerant' \in Nat, tolerant' = 0 => pawnOnGoal(gameBoard) = C_EMPTY
  PROVE  GameInv'
  <1> DEFINE b == gameBoard
             h == hist
  <1>1. PICK after : after = playMoveAssumeLegal(b, loc, pla)
    OBVIOUS
  <1>2. PICK g : g = makeBoardMoveAssumeLegal(h, after, loc, pla)
    OBVIOUS
  <1>3. PICK t : t = Append(past, after)
    OBVIOUS
  <1>4. gameBoard' = after /\ hist' = g /\ past' = t
    BY <1>1, <1>2, <1>3 DEF Move
  <1>5. loc \in Locs
    BY MoveLocsAre
  <1>6. InPlay(b) /\ RecordOf(h, b) /\ PastOf(h, b, past) /\ CountedOf(h, b, past) /\ RingOf(h, past) /\ Replayable(h, b)
    BY DEF GameInv
  <1> HIDE DEF b, h
  <1>7. InPlay(after) /\ IsMoved(b, loc, pla, after)
    BY <1>1, <1>5, <1>6, PlayInPlay, MovesOne DEF b
  <1>8. IsNext(h, after, loc, pla, g)
    BY <1>2, <1>6, MoveEffect DEF RecordOf
  <1>9. RecordOf(g, after) /\ IsEnd(g, after)
    BY <1>5, <1>6, <1>8, RecordNext, ZenonT(60) DEF IsEnd
  <1>10. PastOf(g, after, t)
    BY <1>3, <1>5, <1>6, <1>7, <1>8, PastNext
  <1>11. CountedOf(g, after, t)
    BY <1>3, <1>5, <1>6, <1>7, <1>8, CountedNext
  <1>12. RingOf(g, t)
    BY <1>3, <1>5, <1>6, <1>8, RingNext
  <1>13. Replayable(g, after)
    BY <1>1, <1>5, <1>6, <1>8, ReplayGoesOn
  <1>14. tolerant' = 0 => OneArrived(g, after)
    BY <1>5, <1>7, <1>8, ArrivedNext DEF b
  <1> QED BY <1>4, <1>7, <1>9, <1>10, <1>11, <1>12, <1>13, <1>14 DEF GameInv

(* A controller's call that leaves the course of the game alone. *)
LEMMA ControlKeeps ==
  ASSUME GameInv, NEW h, h = hist, NEW g, Origin(g) = Origin(h), Course(g) = Course(h),
         RecordOf(g, gameBoard), IsEnd(g, gameBoard), NEW old, IsValidKomi(old),
         g.rules = WithKomi(h.rules, old) \/ g.rules = h.rules, Control(g)
  PROVE  GameInv'
  <1>1. PICK b : b = gameBoard
    OBVIOUS
  <1>2. PICK s : s = past
    OBVIOUS
  <1>3. gameBoard' = b /\ hist' = g /\ past' = s /\ tolerant' = tolerant
    BY <1>1, <1>2 DEF Control
  <1>4. /\ InPlay(b) /\ AreRules(h.rules) /\ PastOf(h, b, s) /\ CountedOf(h, b, s) /\ RingOf(h, s)
        /\ tolerant \in Nat /\ (tolerant = 0 => OneArrived(h, b)) /\ Replayable(h, b)
    BY <1>1, <1>2 DEF GameInv, RecordOf
  <1>5. PastOf(g, b, s) /\ CountedOf(g, b, s) /\ RingOf(g, s) /\ (tolerant = 0 => OneArrived(g, b))
    BY <1>4, PastKeeps
  <1>6. Replayable(g, b)
    BY <1>4, ReplayKeeps
  <1>7. RecordOf(g, b) /\ IsEnd(g, b)
    BY <1>1
  <1> QED BY <1>3, <1>4, <1>5, <1>6, <1>7 DEF GameInv

(* A controller may end a game that the rules let go on. *)
LEMMA EndedKeeps ==
  ASSUME NEW h, NEW b, RecordOf(h, b), IsEnd(h, b), ~h.isGameFinished,
         NEW g, IsHistory(g), g.rules = h.rules, Origin(g) = Origin(h), Course(g) = Course(h),
         Ending(g) = DrawEnd(FALSE) \/ \E pla \in Players : Ending(g) = Resigned(pla)
  PROVE  RecordOf(g, b) /\ IsEnd(g, b)
  <1>1. RulesEnd(h, b) = NoEnd
    BY GoesOn
  <1>2. RulesEnd(g, b) = RulesEnd(h, b)
    BY DEF RulesEnd, Origin, Course, getCurrentTurnNumber
  <1>3. RecordOf(g, b)
    BY RecordStays DEF RecordOf
  <1> QED BY <1>1, <1>2, <1>3 DEF IsEnd

LEMMA GameGoesOn == GameInv /\ [GameNext]_gameVars => GameInv'
  <1> SUFFICES ASSUME GameInv, [GameNext]_gameVars PROVE GameInv'
    OBVIOUS
  <1>0. RecordOf(hist, gameBoard) /\ IsEnd(hist, gameBoard) /\ IsHistory(hist) /\ tolerant \in Nat
    BY DEF GameInv, RecordOf
  <1>1. ASSUME NEW loc \in MoveLocs, NEW pla \in Players, makeBoardMove(loc, pla) PROVE GameInv'
    BY <1>0, <1>1, MoveKeeps, NoneArrived DEF makeBoardMove, histIsLegal
  <1>2. ASSUME NEW loc \in MoveLocs, NEW pla \in Players, makeBoardMoveTolerant(loc, pla) PROVE GameInv'
    BY <1>0, <1>2, MoveKeeps DEF makeBoardMoveTolerant, isLegalTolerant
  <1>3. ASSUME NEW komi \in Komis, ChangeKomi(komi) PROVE GameInv'
    BY <1>0, <1>3, ControlKeeps, GameAssumption, KomiKeeps DEF ChangeKomi
  <1>4. ASSUME NEW pla \in Players, Resign(pla) PROVE GameInv'
    <2>1. PICK other \in Players : other = getOpp(pla)
      BY OppIs
    <2>2. PICK g : g = setWinnerByResignation(hist, other)
      OBVIOUS
    <2>3. ~hist.isGameFinished /\ Control(g)
      BY <1>4, <2>1, <2>2 DEF Resign
    <2>4. Ending(hist) = NoEnd
      BY <1>0, <2>3, GoesOn
    <2>5. /\ IsHistory(g) /\ g.rules = hist.rules /\ Origin(g) = Origin(hist) /\ Course(g) = Course(hist)
          /\ Ending(g) = Resigned(other)
      BY <1>0, <2>2, <2>4, ResignEffect
    <2>6. RecordOf(g, gameBoard) /\ IsEnd(g, gameBoard)
      BY <1>0, <2>3, <2>5, EndedKeeps
    <2>7. IsValidKomi(hist.rules.komi)
      BY <1>0 DEF RecordOf, AreRules
    <2> QED BY <2>3, <2>5, <2>6, <2>7, ControlKeeps
  <1>5. ASSUME CutOff PROVE GameInv'
    <2>1. PICK g : g = endAndScoreGameNow(hist)
      OBVIOUS
    <2>2. ~hist.isGameFinished /\ Control(g)
      BY <1>5, <2>1 DEF CutOff
    <2>3. /\ IsHistory(g) /\ g.rules = hist.rules /\ Origin(g) = Origin(hist) /\ Course(g) = Course(hist)
          /\ Ending(g) = DrawEnd(FALSE)
      BY <1>0, <2>1, <2>2, CutOffEffect
    <2>4. RecordOf(g, gameBoard) /\ IsEnd(g, gameBoard)
      BY <1>0, <2>2, <2>3, EndedKeeps
    <2>5. IsValidKomi(hist.rules.komi)
      BY <1>0 DEF RecordOf, AreRules
    <2> QED BY <2>2, <2>3, <2>4, <2>5, ControlKeeps
  <1>6. CASE UNCHANGED gameVars
    BY <1>6 DEF gameVars, GameInv
  <1> QED BY <1>1, <1>2, <1>3, <1>4, <1>5, <1>6 DEF GameNext

(* The history of every game is a record of it, whatever is called on it. *)
THEOREM GameOfSpec == GameSpec => []GameInv
  BY GameStarts, GameGoesOn, PTL DEF GameSpec

(* A set of numbers counted from further up is as large. *)
IsShifted(B, f, A) == \A k : k \in B <=> \E i \in A : k = f + i
LEMMA ShiftedAsMany ==
  ASSUME NEW m \in Nat, NEW f \in Nat, NEW A \in SUBSET (1 .. m), NEW B, IsShifted(B, f, A)
  PROVE  Cardinality(B) = Cardinality(A)
  <1> DEFINE g == [i \in A |-> f + i]
  <1>1. IsFiniteSet(A)
    <2>1. IsFiniteSet(1 .. m)
      BY FS_Interval
    <2> QED BY <2>1, FS_Subset
  <1>2. g \in [A -> B] /\ \A i \in A : g[i] = f + i
    BY DEF IsShifted
  <1>3. \A i, j \in A : g[i] = g[j] => i = j
    BY <1>2
  <1>4. \A k \in B : \E i \in A : g[i] = k
    BY <1>2 DEF IsShifted
  <1> HIDE DEF g
  <1>5. g \in Bijection(A, B)
    BY <1>2, <1>3, <1>4 DEF Bijection, Injection, Surjection, IsInjective
  <1> QED BY <1>1, <1>5, FS_Bijection DEF ExistsBijection

(* The count of the position is over the whole game. *)
LEMMA CountsAll ==
  ASSUME NEW h, NEW b, InPlay(b), RecordOf(h, b), NEW s, PastOf(h, b, s), CountedOf(h, b, s), NEW n, n = Len(s)
  PROVE  h.currentRepetitionCount
           = Cardinality({k \in 1 .. n : <<s[k].pawn, s[k].colors, s[k].fences, TurnAt(h, k)>>
                                           = <<s[n].pawn, s[n].colors, s[n].fences, TurnAt(h, n)>>})
  <1> DEFINE P(k) == <<s[k].pawn, s[k].colors, s[k].fences, TurnAt(h, k)>>
             B == {k \in 1 .. n : P(k) = P(n)}
  <1>1. PICK q : q = h.positionsSinceLastWall
    OBVIOUS
  <1>2. PICK m : m = Len(q)
    OBVIOUS
  <1>3. PICK f : f = n - m
    OBVIOUS
  <1>4. /\ m \in Nat /\ m > 0 /\ f \in Nat /\ n \in Nat /\ f + m = n /\ s[n] = b
    BY <1>1, <1>2, <1>3 DEF RecordOf, IsList, CountedOf, CountedIn, PastOf
  <1>5. /\ \A k \in 1 .. f : WallsLeft(s[k]) > WallsLeft(b)
        /\ \A i \in 1 .. m : q[i] = getSitHash(s[f + i], TurnAt(h, f + i))
    BY <1>1, <1>2, <1>3 DEF CountedOf, CountedIn
  <1>6. \A k \in 1 .. n : InPlay(s[k]) /\ TurnAt(h, k) \in Players
    BY DEF PastOf
  <1> DEFINE A == {i \in 1 .. m : q[i] = q[m]}
  <1>7. ASSUME NEW i \in 1 .. m PROVE q[i] = q[m] <=> P(f + i) = P(n)
    <2>1. f + i \in 1 .. n /\ m \in 1 .. m /\ n \in 1 .. n
      BY <1>4
    <2>2. q[m] = getSitHash(s[n], TurnAt(h, n)) /\ q[i] = getSitHash(s[f + i], TurnAt(h, f + i))
      BY <1>4, <1>5, <2>1
    <2>3. PICK k \in 1 .. n : k = f + i
      BY <2>1
    <2>4. PICK c : c = s[k]
      OBVIOUS
    <2>5. PICK x : x = TurnAt(h, k)
      OBVIOUS
    <2>6. PICK y : y = TurnAt(h, n)
      OBVIOUS
    <2>7. InPlay(c) /\ x \in Players /\ y \in Players
      BY <1>6, <2>1, <2>4, <2>5, <2>6
    <2>8. getSitHash(c, x) = getSitHash(b, y) <=> x = y /\ c.pawn = b.pawn /\ c.colors = b.colors /\ c.fences = b.fences
      BY <2>7, SitHashIs
    <2>9. q[i] = getSitHash(c, x) /\ q[m] = getSitHash(b, y)
      BY <1>4, <2>2, <2>3, <2>4, <2>5, <2>6
    <2>10. P(f + i) = <<c.pawn, c.colors, c.fences, x>> /\ P(n) = <<b.pawn, b.colors, b.fences, y>>
      BY <1>4, <2>3, <2>4, <2>5, <2>6
    <2> HIDE DEF P
    <2> QED BY <2>8, <2>9, <2>10
  <1>8. ASSUME NEW k \in 1 .. f PROVE P(k) # P(n)
    <2>1. WallsLeft(s[k]) > WallsLeft(b) /\ WallsLeft(b) \in Nat
      BY <1>5, WallsLeftNat
    <2>2. s[k].fences # b.fences
      BY <2>1 DEF WallsLeft
    <2> QED BY <1>4, <2>2
  <1> HIDE DEF P
  <1>9. IsShifted(B, f, A)
    <2>1. ASSUME NEW k \in B PROVE \E i \in A : k = f + i
      BY <1>4, <1>7, <1>8
    <2>2. ASSUME NEW i \in A PROVE f + i \in B
      BY <1>4, <1>7
    <2> HIDE DEF A, B
    <2> QED BY <2>1, <2>2 DEF IsShifted
  <1>10. A \in SUBSET (1 .. m)
    OBVIOUS
  <1>11. h.currentRepetitionCount = Cardinality(A)
    BY <1>1, <1>2 DEF RecordOf, LastCount
  <1> HIDE DEF A, B
  <1>12. Cardinality(B) = Cardinality(A)
    BY <1>4, <1>9, <1>10, ShiftedAsMany, ZenonT(60)
  <1> QED BY <1>11, <1>12 DEF B, P

(* What histories forget, they do not need: the repetition count is over   *)
(* the whole game although every wall clears the list that is counted, and *)
(* the ring gives the last boards (BoardHistory::makeBoardMoveAssumeLegal).*)
THEOREM HistoriesAreOfTheirGames == GameSpec => []HistoryIsOfGame
  <1>1. GameInv => HistoryIsOfGame
    <2> SUFFICES ASSUME GameInv PROVE HistoryIsOfGame
      OBVIOUS
    <2>1. PICK h : h = hist
      OBVIOUS
    <2>2. PICK s : s = past
      OBVIOUS
    <2>3. PICK n : n = Len(s)
      OBVIOUS
    <2>4. /\ InPlay(gameBoard) /\ RecordOf(h, gameBoard) /\ PastOf(h, gameBoard, s) /\ CountedOf(h, gameBoard, s)
          /\ RingOf(h, s)
      BY <2>1, <2>2 DEF GameInv
    <2>5. DOMAIN s = 1 .. n
      BY <2>3, <2>4 DEF PastOf, IsList
    <2>6. \A k : ToMoveAt(k) = TurnAt(h, k)
      BY <2>1 DEF ToMoveAt, TurnAt
    <2>7. h.currentRepetitionCount
            = Cardinality({k \in 1 .. n : <<s[k].pawn, s[k].colors, s[k].fences, TurnAt(h, k)>>
                                            = <<s[n].pawn, s[n].colors, s[n].fences, TurnAt(h, n)>>})
      BY <2>3, <2>4, CountsAll
    <2>8. \A ago \in 0 .. NUM_RECENT_BOARDS - 1 : getRecentBoard(h, ago) = s[MaxOf(1, Len(s) - ago)]
      BY <2>4 DEF RingOf
    <2> DEFINE A == {k \in 1 .. n : <<s[k].pawn, s[k].colors, s[k].fences, TurnAt(h, k)>>
                                      = <<s[n].pawn, s[n].colors, s[n].fences, TurnAt(h, n)>>}
               B == {k \in DOMAIN past : <<past[k].pawn, past[k].colors, past[k].fences, ToMoveAt(k)>>
                                          = <<past[Len(past)].pawn, past[Len(past)].colors, past[Len(past)].fences,
                                              ToMoveAt(Len(past))>>}
    <2>9. A = B
      BY <2>2, <2>3, <2>5, <2>6
    <2> HIDE DEF A, B
    <2>10. hist.currentRepetitionCount = Cardinality(B)
      BY <2>1, <2>7, <2>9 DEF A
    <2>11. \A ago \in 0 .. NUM_RECENT_BOARDS - 1 : getRecentBoard(hist, ago) = past[MaxOf(1, Len(past) - ago)]
      BY <2>1, <2>2, <2>8
    <2> QED BY <2>10, <2>11 DEF HistoryIsOfGame, B
  <1> QED BY <1>1, GameOfSpec, PTL

(* A record replays to itself: a game is reproduced by its moves under the *)
(* komi that it ended with, unless a controller ended it itself            *)
(* (setKomi rescores what the rules scored, and nothing else is kept).     *)
THEOREM RecordsReplay == GameSpec => []ReplayReproduces
  <1>1. GameInv => ReplayReproduces
    <2> SUFFICES ASSUME GameInv PROVE ReplayReproduces
      OBVIOUS
    <2>1. PICK h : h = hist
      OBVIOUS
    <2>2. PICK b : b = gameBoard
      OBVIOUS
    <2>3. RecordOf(h, b) /\ IsEnd(h, b) /\ Replayable(h, b)
      BY <2>1, <2>2 DEF GameInv
    <2>4. PICK k : k = h.rules.komi
      OBVIOUS
    <2>5. IsValidKomi(k) /\ WithKomi(h.rules, k) = h.rules
      BY <2>3, <2>4, KomiRules DEF RecordOf, AreRules
    <2>6. IsList(h.moveHistory)
      BY <2>3, ListOf DEF RecordOf, ToSet, IsList
    <2>7. ReplayStart(h, k) = [board |-> h.initialBoard, hist |-> copyToInitial(h)]
      BY <2>5 DEF ReplayStart, copyToInitial
    <2>8. PICK r : r = Replay(h)
      OBVIOUS
    <2>9. r = PlayedOut(0, ReplayStart(h, k), h.moveHistory)
      BY <2>6, <2>7, <2>8, ReplayIs
    <2>10. IsReplay(h, b, k, r)
      BY <2>3, <2>5, <2>9 DEF Replayable
    <2>11. PICK p : p = r.hist
      OBVIOUS
    <2>12. /\ r.board = b /\ RecordOf(p, b) /\ p.rules = h.rules /\ Origin(p) = Origin(h) /\ Course(p) = Course(h)
           /\ Ending(p) = RulesEnd(p, b)
      BY <2>5, <2>10, <2>11 DEF IsReplay
    <2>13. RulesEnd(p, b) = RulesEnd(h, b)
      BY <2>12 DEF RulesEnd, Origin, Course, getCurrentTurnNumber
    <2>14. Ending(h) = RulesEnd(h, b) => p = h
      BY <2>3, <2>12, <2>13, SameHistory DEF RecordOf
    <2>15. RulesEnd(h, b) = NoEnd => ~p.isGameFinished
      <3>1. RulesEnd(h, b) = NoEnd => Ending(p) = NoEnd
        BY <2>12, <2>13
      <3>2. Ending(p) = NoEnd => p.isGameFinished = FALSE
        BY DEF NoEnd, Ending
      <3> QED BY <3>1, <3>2
    <2>16. Ending(h) = DrawEnd(FALSE) => h.isGameFinished
      BY DEF Ending, DrawEnd
    <2>17. ASSUME NEW pla PROVE Ending(h) = Resigned(pla) => h.isResignation
      BY DEF Ending, Resigned
    <2>18. ~h.isResignation /\ ~(h.isGameFinished /\ ~p.isGameFinished) => p = h
      BY <2>3, <2>14, <2>15, <2>16, <2>17 DEF IsEnd
    <2>19. ~h.isResignation /\ ~(h.isGameFinished /\ ~p.isGameFinished) =>
             [p EXCEPT !.recentBoards = <<>>] = [h EXCEPT !.recentBoards = <<>>]
      BY <2>18
    <2> QED BY <2>1, <2>2, <2>8, <2>11, <2>12, <2>19 DEF ReplayReproduces
  <1> QED BY <1>1, GameOfSpec, PTL

-----------------------------------------------------------------------------
(* The result of a game *)

(* The tempo is what the winner has in hand over the loser. *)
LEMMA TempoIs ==
  ASSUME NEW b, InPlay(b), NEW c \in Players, b.pawn[c][2] = GoalRow(c)
  PROVE  /\ Tempo(b, c) \in Int
         /\ b.pawn[getOpp(c)][2] # GoalRow(getOpp(c)) =>
              Tempo(b, c) = getShortestPathDistance(b, P_BLACK) - getShortestPathDistance(b, P_WHITE)
                              + (IF getOpp(c) = P_WHITE THEN 1 ELSE 0)
  <1>1. PICK x : x = getShortestPathDistance(b, P_BLACK)
    OBVIOUS
  <1>2. PICK y : y = getShortestPathDistance(b, P_WHITE)
    OBVIOUS
  <1>3. /\ x \in Nat /\ (x = 0 <=> b.pawn[P_BLACK][2] = GoalRow(P_BLACK))
        /\ y \in Nat /\ (y = 0 <=> b.pawn[P_WHITE][2] = GoalRow(P_WHITE))
    BY <1>1, <1>2, DistanceIs DEF Players
  <1>4. P_BLACK # P_WHITE /\ getOpp(P_BLACK) = P_WHITE /\ getOpp(P_WHITE) = P_BLACK
    BY DEF P_BLACK, P_WHITE, getOpp
  <1>5. CASE c = P_WHITE
    BY <1>1, <1>2, <1>3, <1>4, <1>5 DEF Tempo, whiteMarginWhenWonBy, MaxOf
  <1>6. CASE c = P_BLACK
    BY <1>1, <1>2, <1>3, <1>4, <1>6 DEF Tempo, whiteMarginWhenWonBy, MaxOf
  <1> QED BY <1>5, <1>6 DEF Players

(* An odd komi leaves no draw at the goal, and the bonus no doubt. *)
LEMMA LeadIs ==
  ASSUME NEW komi, IsValidKomi(komi), NEW tempo \in Int, NEW bonus \in Nat, NEW lead, lead = 2 * tempo + komi,
         NEW score, score = ScoreOf(lead, bonus)
  PROVE  lead \in Int /\ lead # 0 /\ lead * score >= lead * lead
  <1>1. komi \in Int /\ komi % 2 = 1
    BY DEF IsValidKomi
  <1>2. lead \in Int
    BY <1>1
  <1>3. lead # 0
    BY <1>1
  <1>4. CASE lead > 0
    BY <1>2, <1>3, <1>4 DEF ScoreOf, Sign
  <1>5. CASE ~(lead > 0)
    BY <1>2, <1>3, <1>5 DEF ScoreOf, Sign
  <1> QED BY <1>4, <1>5

LEMMA BonusNat ==
  ASSUME NEW rules, AreRules(rules), NEW turn \in Nat
  PROVE  BonusOf(rules, turn) \in Nat
  <1>1. PICK x : x = rules.timeBonusPerPly
    OBVIOUS
  <1>2. PICK y : y = MaxOf(0, rules.maxPlies - turn)
    OBVIOUS
  <1>3. x \in Nat /\ y \in Nat
    BY <1>1, <1>2 DEF AreRules, MaxOf
  <1>4. 2 * x * y \in Nat
    BY <1>3
  <1> QED BY <1>1, <1>2, <1>4 DEF BonusOf

LEMMA TurnNat ==
  ASSUME NEW h, NEW b, RecordOf(h, b)
  PROVE  getCurrentTurnNumber(h) \in Nat /\ Len(h.moveHistory) \in Nat
           /\ (Len(h.moveHistory) > 0 <=> h.moveHistory # <<>>)
  <1>1. h.moveHistory \in Seq(Moves) /\ h.initialTurnNumber \in Nat
    BY DEF RecordOf
  <1> QED BY <1>1 DEF getCurrentTurnNumber

(* A game that ended at the goal. *)
WonAtGoal(h, b, n) ==
  /\ ~h.isResignation /\ h.isScored /\ pawnOnGoal(b) # C_EMPTY
  /\ n = 0 => h.lead = 2 * (getShortestPathDistance(b, P_BLACK) - getShortestPathDistance(b, P_WHITE)
                              + (IF h.presumedNextMovePla = P_WHITE THEN 1 ELSE 0)) + h.rules.komi
  /\ h.winner = (IF h.lead > 0 THEN P_WHITE ELSE P_BLACK)
  /\ h.lead # 0 /\ h.lead * h.score >= h.lead * h.lead

LEMMA GoalResult ==
  ASSUME NEW h, NEW b, InPlay(b), RecordOf(h, b), NEW n, n = 0 => OneArrived(h, b),
         NEW c, c = pawnOnGoal(b), c # C_EMPTY, Ending(h) = GoalEnd(h.rules, getCurrentTurnNumber(h), b, c)
  PROVE  WonAtGoal(h, b, n)
  <1>1. c \in Players /\ b.pawn[c][2] = GoalRow(c)
    BY DEF pawnOnGoal, Players
  <1>2. PICK tempo : tempo = Tempo(b, c)
    OBVIOUS
  <1>3. PICK lead : lead = LeadOf(h.rules, b, c)
    OBVIOUS
  <1>4. PICK bonus : bonus = BonusOf(h.rules, getCurrentTurnNumber(h))
    OBVIOUS
  <1>5. tempo \in Int /\ bonus \in Nat /\ IsValidKomi(h.rules.komi) /\ lead = 2 * tempo + h.rules.komi
    BY <1>1, <1>2, <1>3, <1>4, BonusNat, TempoIs, TurnNat DEF RecordOf, AreRules, LeadOf
  <1>6. /\ h.isResignation = FALSE /\ h.isScored = TRUE /\ h.winner = WinnerOf(lead) /\ h.lead = lead
        /\ h.score = ScoreOf(lead, bonus)
    BY <1>3, <1>4, Zenon DEF Ending, GoalEnd, ScoredEnd
  <1>7. PICK score : score = ScoreOf(lead, bonus)
    OBVIOUS
  <1>8. lead # 0 /\ lead * score >= lead * lead
    BY <1>5, <1>7, LeadIs
  <1>9. n = 0 => h.lead = 2 * (getShortestPathDistance(b, P_BLACK) - getShortestPathDistance(b, P_WHITE)
                                + (IF h.presumedNextMovePla = P_WHITE THEN 1 ELSE 0)) + h.rules.komi
    BY <1>1, <1>2, <1>5, <1>6, TempoIs DEF OneArrived
  <1> QED BY <1>6, <1>7, <1>8, <1>9 DEF WonAtGoal, WinnerOf

(* The properties of ResultIsOfBoard, for any history. *)
ResultOf(h, b, n) ==
  LET repeated == h.rules.repetitionDrawCount > 0 /\ h.currentRepetitionCount >= h.rules.repetitionDrawCount
      played == Len(h.moveHistory) > 0
      drawn == isDraw(h) /\ pawnOnGoal(b) = C_EMPTY /\ h.lead = 0 /\ h.score = 0
  IN  /\ h.isGameFinished => (h.isResignation /\ h.winner \in Players) \/ drawn \/ WonAtGoal(h, b, n)
      /\ ~h.isGameFinished => ~h.isResignation /\ h.winner = C_EMPTY /\ ~h.isScored
      /\ played /\ ~h.isGameFinished => pawnOnGoal(b) = C_EMPTY /\ ~repeated /\ pliesUntilDraw(h) > 0
      /\ isRepetitionDraw(h) => repeated /\ pawnOnGoal(b) = C_EMPTY
      /\ isMaxPliesDraw(h) /\ played => ~repeated /\ pawnOnGoal(b) = C_EMPTY

LEMMA EndIsResult ==
  ASSUME NEW h, NEW b, InPlay(b), RecordOf(h, b), IsEnd(h, b), NEW n, n = 0 => OneArrived(h, b)
  PROVE  ResultOf(h, b, n)
  <1> DEFINE repeated == Repeated(h.rules, h.currentRepetitionCount)
             played == h.moveHistory # <<>>
             turn == getCurrentTurnNumber(h)
             drawn == isDraw(h) /\ pawnOnGoal(b) = C_EMPTY /\ h.lead = 0 /\ h.score = 0
             won == WonAtGoal(h, b, n)
             Result ==
               /\ h.isGameFinished => (h.isResignation /\ h.winner \in Players) \/ drawn \/ won
               /\ ~h.isGameFinished => ~h.isResignation /\ h.winner = C_EMPTY /\ ~h.isScored
               /\ played /\ ~h.isGameFinished => pawnOnGoal(b) = C_EMPTY /\ ~repeated /\ ~(turn >= h.rules.maxPlies)
               /\ isRepetitionDraw(h) => repeated /\ pawnOnGoal(b) = C_EMPTY
               /\ isMaxPliesDraw(h) /\ played => ~repeated /\ pawnOnGoal(b) = C_EMPTY
  <1>1. turn \in Nat /\ (Len(h.moveHistory) > 0 <=> played)
    BY TurnNat
  <1>2. Result => ResultOf(h, b, n)
    BY <1>1 DEF RecordOf, AreRules, pliesUntilDraw, MaxOf, ResultOf, Repeated
  <1>3. PICK e : e = RulesEnd(h, b)
    OBVIOUS
  <1>4. PICK c : c = pawnOnGoal(b)
    OBVIOUS
  <1>5. P_BLACK # C_EMPTY /\ P_WHITE # C_EMPTY
    BY DEF P_BLACK, P_WHITE, C_EMPTY
  <1>6. ASSUME NEW pla \in Players, Ending(h) = Resigned(pla) PROVE Result
    <2>1. h.isGameFinished = TRUE /\ h.isResignation = TRUE /\ h.winner = pla
      BY <1>6, Zenon DEF Ending, Resigned
    <2> HIDE DEF repeated, played, turn, won
    <2> QED BY <2>1 DEF isDraw, isRepetitionDraw, isMaxPliesDraw
  <1>7. ASSUME Ending(h) = NoEnd, c = C_EMPTY, played => ~repeated /\ ~(turn >= h.rules.maxPlies) PROVE Result
    <2>1. h.isGameFinished = FALSE /\ h.isResignation = FALSE /\ h.winner = C_EMPTY /\ h.isScored = FALSE
      BY <1>7, Zenon DEF Ending, NoEnd
    <2> HIDE DEF repeated, played, turn, won
    <2> QED BY <1>4, <1>7, <2>1 DEF isDraw, isRepetitionDraw, isMaxPliesDraw
  <1>8. ASSUME Ending(h) = DrawEnd(FALSE), c = C_EMPTY, played => ~repeated PROVE Result
    <2>1. /\ h.isGameFinished = TRUE /\ h.isResignation = FALSE /\ h.winner = C_EMPTY
          /\ h.isRepetitionDrawFlag = FALSE /\ h.lead = 0 /\ h.score = 0
      BY <1>8, Zenon DEF Ending, DrawEnd
    <2> HIDE DEF repeated, played, turn, won
    <2> QED BY <1>4, <1>8, <2>1 DEF isDraw, isRepetitionDraw, isMaxPliesDraw
  <1>9. ASSUME Ending(h) = DrawEnd(TRUE), c = C_EMPTY, repeated PROVE Result
    <2>1. /\ h.isGameFinished = TRUE /\ h.isResignation = FALSE /\ h.winner = C_EMPTY
          /\ h.isRepetitionDrawFlag = TRUE /\ h.lead = 0 /\ h.score = 0
      BY <1>9, Zenon DEF Ending, DrawEnd
    <2> HIDE DEF repeated, played, turn, won
    <2> QED BY <1>4, <1>9, <2>1 DEF isDraw, isRepetitionDraw, isMaxPliesDraw
  <1>10. ASSUME Ending(h) = GoalEnd(h.rules, turn, b, c), c # C_EMPTY PROVE Result
    <2>1. won
      BY <1>4, <1>10, GoalResult
    <2>2. h.isGameFinished = TRUE /\ h.winner = WinnerOf(LeadOf(h.rules, b, c))
      BY <1>10, Zenon DEF Ending, GoalEnd, ScoredEnd
    <2>3. h.winner # C_EMPTY
      BY <1>5, <2>2 DEF WinnerOf
    <2> HIDE DEF repeated, played, turn, won
    <2> QED BY <2>1, <2>2, <2>3 DEF isDraw, isRepetitionDraw, isMaxPliesDraw
  <1>11. \/ e = NoEnd /\ c = C_EMPTY /\ (played => ~repeated /\ ~(turn >= h.rules.maxPlies))
         \/ played /\ c # C_EMPTY /\ e = GoalEnd(h.rules, turn, b, c)
         \/ played /\ c = C_EMPTY /\ repeated /\ e = DrawEnd(TRUE)
         \/ played /\ c = C_EMPTY /\ ~repeated /\ e = DrawEnd(FALSE)
    BY <1>3, <1>4 DEF RulesEnd, EndingOf, RecordOf
  <1>12. NoEnd # DrawEnd(TRUE) /\ NoEnd # DrawEnd(FALSE) /\ NoEnd # GoalEnd(h.rules, turn, b, c)
    BY DEF NoEnd, DrawEnd, GoalEnd, ScoredEnd
  <1>13. \/ Ending(h) = e
         \/ e = NoEnd /\ Ending(h) = DrawEnd(FALSE)
         \/ e = NoEnd /\ \E pla \in Players : Ending(h) = Resigned(pla)
    BY <1>3 DEF IsEnd
  <1> HIDE DEF repeated, played, turn, Result
  <1> QED BY <1>2, <1>6, <1>7, <1>8, <1>9, <1>10, <1>11, <1>12, <1>13, Zenon

(* A game is over exactly when the rules or a controller end it, with the  *)
(* result that its board has: never a draw at the goal, never a lead of    *)
(* zero, never a bonus that turns the result around, never a game that     *)
(* goes on past its end (BoardHistory::scoreGameEndedAtGoal, setKomi).     *)
THEOREM ResultsAreOfTheirBoards == GameSpec => []ResultIsOfBoard
  <1>1. GameInv => ResultIsOfBoard
    <2> SUFFICES ASSUME GameInv PROVE ResultIsOfBoard
      OBVIOUS
    <2>1. ResultOf(hist, gameBoard, tolerant)
      BY EndIsResult DEF GameInv
    <2>2. WonAtGoal(hist, gameBoard, tolerant) =>
            /\ ~hist.isResignation /\ hist.isScored
            /\ pawnOnGoal(gameBoard) # C_EMPTY
            /\ tolerant = 0 =>
                 hist.lead = 2 * (getShortestPathDistance(gameBoard, P_BLACK) - getShortestPathDistance(gameBoard, P_WHITE)
                                   + (IF hist.presumedNextMovePla = P_WHITE THEN 1 ELSE 0)) + hist.rules.komi
            /\ hist.winner = (IF hist.lead > 0 THEN P_WHITE ELSE P_BLACK)
            /\ hist.lead # 0 /\ hist.lead * hist.score >= hist.lead * hist.lead
      BY DEF WonAtGoal
    <2>3. hist.isGameFinished => FinishedAsRecorded
      BY <2>1, <2>2, Zenon DEF ResultOf, FinishedAsRecorded
    <2> QED BY <2>1, <2>3, Zenon DEF ResultOf, ResultIsOfBoard
  <1> QED BY <1>1, GameOfSpec, PTL

-----------------------------------------------------------------------------
(* The graph hash *)

(* The graph hash of a line has an entry for every position since the last *)
(* wall, and its last is the state; and computing it from the move list    *)
(* gives the same.                                                         *)
ScratchStart(h) == [board |-> h.initialBoard, hist |-> copyToInitial(h), hash |-> <<>>]
IsScratch(h, b, chain, r) ==
  r.board = b /\ r.hist = h /\ getGraphHash(r.hash, r.hist, h.presumedNextMovePla) = chain
IsChain(h, chain) ==
  /\ IsList(chain) /\ Len(chain) = Len(h.positionsSinceLastWall)
  /\ \A i \in 1 .. Len(chain) : chain[i][1][1] = h.positionsSinceLastWall[i]
  /\ chain[Len(chain)] = getStateHash(h, h.presumedNextMovePla)
LineGood(b, h, chain) ==
  /\ InPlay(b) /\ RecordOf(h, b) /\ Ending(h) = RulesEnd(h, b)
  /\ h.rules = GameRules /\ h.initialTurnNumber = 0
  /\ IsChain(h, chain) /\ IsScratch(h, b, chain, PlayedOut(1, ScratchStart(h), h.moveHistory))
LinesInv == \A line \in Lines : LineGood(boards[line], hists[line], graphHash[line])

(* The state of a line whose board is known. *)
LEMMA StateHashIs ==
  ASSUME NEW h, NEW b, RecordOf(h, b), NEW pla
  PROVE  getStateHash(h, pla)
           = << <<getSitHash(b, pla), getCurrentTurnNumber(h), h.rules>>, h.isGameFinished >>
  BY RingCurrent DEF getStateHash, getSituationRulesAndKoHash

LEMMA LineStarts ==
  ASSUME NEW h, h = newHistory(initialBoard, P_BLACK, GameRules, 0)
  PROVE  LineGood(initialBoard, h, getGraphHash(<<>>, h, P_BLACK))
  <1> DEFINE b == initialBoard
  <1>1. InPlay(b) /\ AreRules(GameRules) /\ P_BLACK \in Players /\ 0 \in Nat
    BY InitialInPlay, LinesAssumption DEF Players
  <1> HIDE DEF b
  <1>2. pawnOnGoal(b) = C_EMPTY
    BY BoardSizeAssumption DEF b, initialBoard, size, GoalRow, P_BLACK, P_WHITE, InitialPawn, pawnOnGoal, Players
  <1>3. h = newHistory(b, P_BLACK, GameRules, 0)
    BY DEF b
  <1>4. RecordOf(h, b) /\ Ending(h) = RulesEnd(h, b)
    BY <1>1, <1>2, <1>3, RecordStart
  <1>5. /\ h.rules = GameRules /\ Origin(h) = <<b, P_BLACK, 0>>
        /\ Course(h) = <<(<<>>), [i \in 0 .. NUM_RECENT_BOARDS - 1 |-> b], 0, P_BLACK, <<getSitHash(b, P_BLACK)>>, 1>>
    BY <1>3, NewHistory
  <1>6. /\ h.moveHistory = <<>> /\ h.presumedNextMovePla = P_BLACK /\ h.initialTurnNumber = 0
        /\ h.positionsSinceLastWall = <<getSitHash(b, P_BLACK)>> /\ h.initialBoard = b /\ h.initialPla = P_BLACK
    BY <1>5 DEF Origin, Course
  <1>7. PICK e : e = getStateHash(h, P_BLACK)
    OBVIOUS
  <1>8. \A s : getGraphHash(s, h, P_BLACK) = <<e>>
    BY <1>6, <1>7 DEF getGraphHash, StartsChain
  <1>9. e[1][1] = getSitHash(b, P_BLACK)
    BY <1>4, <1>7, StateHashIs
  <1>10. IsChain(h, <<e>>)
    BY <1>6, <1>7, <1>9, OneEntry DEF IsChain
  <1>11. copyToInitial(h) = h
    BY <1>3, <1>5, <1>6 DEF copyToInitial
  <1>12. IsScratch(h, b, <<e>>, PlayedOut(1, ScratchStart(h), h.moveHistory))
    BY <1>6, <1>8, <1>11, PlayedNone DEF ScratchStart, IsScratch
  <1>13. LineGood(b, h, <<e>>)
    BY <1>1, <1>4, <1>5, <1>6, <1>10, <1>12 DEF LineGood
  <1> QED BY <1>8, <1>13 DEF b

(* A move that is not a pawn's, and only such a one, starts a new chain. *)
LEMMA WallsStartChains ==
  ASSUME NEW loc \in PawnLocs \cup LineWalls
  PROVE  loc \in Locs /\ (simpleRepetitionBoundGt(loc) <=> loc \notin PawnLocs)
  <1>1. loc \in PawnLocs \/ loc \in HWallLocs \/ loc \in VWallLocs
    BY LinesAssumption
  <1>2. loc \in Locs
    BY <1>1 DEF PawnLocs, HWallLocs, VWallLocs
  <1>3. loc \in HWallLocs \/ loc \in VWallLocs => loc[1] % 2 = 1
    BY DEF HWallLocs, VWallLocs
  <1>4. loc \in PawnLocs => loc[1] % 2 = 0
    BY DEF PawnLocs
  <1> QED BY <1>1, <1>2, <1>3, <1>4 DEF simpleRepetitionBoundGt

LEMMA ChainNext ==
  ASSUME NEW h, NEW b, RecordOf(h, b), NEW loc \in PawnLocs \cup LineWalls, NEW pla \in Players,
         NEW after, NEW g, IsNext(h, after, loc, pla, g), RecordOf(g, after),
         NEW chain, IsChain(h, chain), NEW next, next = getGraphHash(chain, g, getOpp(pla))
  PROVE  IsChain(g, next)
  <1> DEFINE m == [loc |-> loc, pla |-> pla]
  <1>1. PICK e : e = getStateHash(g, getOpp(pla))
    OBVIOUS
  <1>2. PICK old : old = IF loc \notin PawnLocs THEN <<>> ELSE h.positionsSinceLastWall
    OBVIOUS
  <1>3. PICK kept : kept = IF loc \notin PawnLocs THEN <<>> ELSE chain
    OBVIOUS
  <1>4. PICK hash : hash = getSitHash(after, getOpp(pla))
    OBVIOUS
  <1>5. PICK new : new = g.positionsSinceLastWall
    OBVIOUS
  <1>6. g.presumedNextMovePla = getOpp(pla) /\ new = Append(old, hash)
    BY <1>2, <1>4, <1>5 DEF IsNext
  <1>7. StartsChain(g) <=> loc \notin PawnLocs
    <2>1. h.moveHistory \in Seq(Moves) /\ g.moveHistory = Append(h.moveHistory, m) /\ m.loc = loc
      BY DEF RecordOf, IsNext
    <2> HIDE DEF m
    <2>2. g.moveHistory # <<>> /\ Last(g.moveHistory) = m
      BY <2>1 DEF Last
    <2> QED BY <2>1, <2>2, WallsStartChains DEF StartsChain
  <1>8. next = Append(kept, e)
    <2>1. next = IF StartsChain(g) THEN <<e>> ELSE Append(chain, e)
      BY <1>1 DEF getGraphHash
    <2>2. <<e>> = Append(<<>>, e)
      OBVIOUS
    <2> QED BY <1>3, <1>7, <2>1, <2>2
  <1>9. IsList(old) /\ IsList(kept) /\ Len(kept) = Len(old) /\ \A i \in 1 .. Len(kept) : kept[i][1][1] = old[i]
    BY <1>2, <1>3, EmptyList DEF IsChain, RecordOf
  <1>10. IsLonger(old, hash, new) /\ IsLonger(kept, e, next)
    BY <1>6, <1>8, <1>9, ListAppend
  <1>11. e[1][1] = hash
    BY <1>1, <1>4, StateHashIs
  <1>12. PICK n \in Nat : n = Len(kept)
    BY <1>10 DEF IsLonger
  <1>13. /\ IsList(next) /\ Len(next) = n + 1 /\ next[n + 1] = e /\ \A i \in 1 .. n : next[i] = kept[i]
         /\ Len(new) = n + 1 /\ new[n + 1] = hash /\ \A i \in 1 .. n : new[i] = old[i]
    BY <1>9, <1>10, <1>12 DEF IsLonger
  <1>14. ASSUME NEW i \in 1 .. n + 1 PROVE next[i][1][1] = new[i]
    BY <1>9, <1>11, <1>12, <1>13
  <1> QED BY <1>1, <1>5, <1>6, <1>13, <1>14 DEF IsChain

LEMMA ScratchNext ==
  ASSUME NEW h, NEW b, RecordOf(h, b), NEW loc \in Locs, NEW pla, pla = h.presumedNextMovePla,
         NEW after, after = playMoveAssumeLegal(b, loc, pla),
         NEW g, g = makeBoardMoveAssumeLegal(h, after, loc, pla), IsNext(h, after, loc, pla, g),
         NEW chain, IsScratch(h, b, chain, PlayedOut(1, ScratchStart(h), h.moveHistory)),
         NEW next, next = getGraphHash(chain, g, getOpp(pla))
  PROVE  IsScratch(g, after, next, PlayedOut(1, ScratchStart(g), g.moveHistory))
  <1> DEFINE m == [loc |-> loc, pla |-> pla]
  <1>1. PICK r : r = PlayedOut(1, ScratchStart(h), h.moveHistory)
    OBVIOUS
  <1>2. r.board = b /\ r.hist = h /\ getGraphHash(r.hash, h, pla) = chain
    BY <1>1 DEF IsScratch
  <1>3. /\ g.moveHistory = Append(h.moveHistory, m) /\ g.rules = h.rules /\ Origin(g) = Origin(h)
        /\ g.presumedNextMovePla = getOpp(pla)
    BY DEF IsNext
  <1>4. ScratchStart(g) = ScratchStart(h)
    BY <1>3 DEF ScratchStart, copyToInitial, Origin
  <1>5. IsList(h.moveHistory)
    BY ListOf DEF RecordOf, ToSet, IsList
  <1>6. Played(1, r, m) = [board |-> after, hist |-> g, hash |-> chain]
    BY <1>2 DEF Played
  <1>7. PlayedOut(1, ScratchStart(g), g.moveHistory) = [board |-> after, hist |-> g, hash |-> chain]
    <2> HIDE DEF m
    <2> QED BY <1>1, <1>3, <1>4, <1>5, <1>6, PlayedNext
  <1> QED BY <1>3, <1>7 DEF IsScratch

LEMMA LineGoesOn ==
  ASSUME NEW b, NEW h, NEW chain, LineGood(b, h, chain), NEW loc \in PawnLocs \cup LineWalls,
         NEW pla, pla = h.presumedNextMovePla, histIsLegal(h, b, loc, pla),
         NEW after, after = playMoveAssumeLegal(b, loc, pla),
         NEW g, g = makeBoardMoveAssumeLegal(h, after, loc, pla),
         NEW next, next = getGraphHash(chain, g, getOpp(pla))
  PROVE  LineGood(after, g, next)
  <1>1. /\ InPlay(b) /\ RecordOf(h, b) /\ IsHistory(h) /\ pla \in Players /\ loc \in Locs /\ isLegal(b, loc, pla)
        /\ h.rules = GameRules /\ h.initialTurnNumber = 0
    BY WallsStartChains DEF LineGood, RecordOf, histIsLegal
  <1>2. IsNext(h, after, loc, pla, g)
    BY <1>1, MoveEffect
  <1>3. RecordOf(g, after) /\ Ending(g) = RulesEnd(g, after)
    BY <1>1, <1>2, RecordNext
  <1>4. InPlay(after)
    BY <1>1, PlayInPlay
  <1>5. IsChain(h, chain) /\ IsScratch(h, b, chain, PlayedOut(1, ScratchStart(h), h.moveHistory))
    BY DEF LineGood
  <1>6. IsChain(g, next)
    BY <1>1, <1>2, <1>3, <1>5, ChainNext
  <1>7. IsScratch(g, after, next, PlayedOut(1, ScratchStart(g), g.moveHistory))
    BY <1>1, <1>2, <1>5, ScratchNext
  <1>8. g.rules = GameRules /\ g.initialTurnNumber = 0
    BY <1>1, <1>2 DEF IsNext, Origin
  <1> QED BY <1>3, <1>4, <1>6, <1>7, <1>8 DEF LineGood

(* Both lines keep records of themselves, and their hashes are the chains  *)
(* that a replay would compute.                                            *)
THEOREM LinesOfSpec == LinesSpec => []LinesInv
  <1>1. LinesInit => LinesInv
    <2> SUFFICES ASSUME LinesInit, NEW line \in Lines PROVE LineGood(boards[line], hists[line], graphHash[line])
      BY DEF LinesInv
    <2>1. PICK h : h = newHistory(initialBoard, P_BLACK, GameRules, 0)
      OBVIOUS
    <2>2. boards[line] = initialBoard /\ hists[line] = h /\ graphHash[line] = getGraphHash(<<>>, h, P_BLACK)
      BY <2>1 DEF LinesInit
    <2> QED BY <2>1, <2>2, LineStarts
  <1>2. LinesInv /\ [LinesNext]_lineVars => LinesInv'
    <2> SUFFICES ASSUME LinesInv, [LinesNext]_lineVars PROVE LinesInv'
      OBVIOUS
    <2>1. ASSUME NEW locs \in [Lines -> PawnLocs \cup LineWalls], playMoves(locs) PROVE LinesInv'
      <3> SUFFICES ASSUME NEW line \in Lines PROVE LineGood(boards'[line], hists'[line], graphHash'[line])
        BY DEF LinesInv
      <3>1. PICK pla : pla = hists[line].presumedNextMovePla
        OBVIOUS
      <3>2. PICK after : after = playMoveAssumeLegal(boards[line], locs[line], pla)
        OBVIOUS
      <3>3. PICK g : g = makeBoardMoveAssumeLegal(hists[line], after, locs[line], pla)
        OBVIOUS
      <3>4. PICK next : next = getGraphHash(graphHash[line], g, getOpp(pla))
        OBVIOUS
      <3>5. boards'[line] = after /\ hists'[line] = g /\ graphHash'[line] = next
        BY <2>1, <3>1, <3>2, <3>3, <3>4 DEF playMoves
      <3>6. histIsLegal(hists[line], boards[line], locs[line], pla)
        BY <2>1, <3>1 DEF playMoves
      <3>7. locs[line] \in PawnLocs \cup LineWalls
        OBVIOUS
      <3>8. LineGood(boards[line], hists[line], graphHash[line])
        BY DEF LinesInv
      <3>9. LineGood(after, g, next)
        BY <3>1, <3>2, <3>3, <3>4, <3>6, <3>7, <3>8, LineGoesOn
      <3> QED BY <3>5, <3>9
    <2>2. CASE UNCHANGED lineVars
      BY <2>2 DEF lineVars, LinesInv
    <2> QED BY <2>1, <2>2 DEF LinesNext
  <1> QED BY <1>1, <1>2, PTL DEF LinesSpec

(* The hash that a search thread keeps move by move is the one that the    *)
(* search computes for its root from the move list                         *)
(* (GraphHash::getGraphHashFromScratch).                                   *)
THEOREM IncrementalHashIsFromScratch == LinesSpec => []IncrementalIsFromScratch
  <1>1. LinesInv => IncrementalIsFromScratch
    <2> SUFFICES ASSUME LinesInv, NEW line \in Lines
                 PROVE  graphHash[line] = getGraphHashFromScratch(hists[line], hists[line].presumedNextMovePla)
      BY DEF IncrementalIsFromScratch
    <2>1. PICK h : h = hists[line]
      OBVIOUS
    <2>2. LineGood(boards[line], h, graphHash[line])
      BY <2>1 DEF LinesInv
    <2>3. PICK r : r = PlayedOut(1, ScratchStart(h), h.moveHistory)
      OBVIOUS
    <2>4. r.hist = h /\ getGraphHash(r.hash, h, h.presumedNextMovePla) = graphHash[line]
      BY <2>2, <2>3 DEF LineGood, IsScratch
    <2>5. IsList(h.moveHistory)
      BY <2>2, ListOf DEF LineGood, RecordOf, ToSet, IsList
    <2>6. getGraphHashFromScratch(h, h.presumedNextMovePla) = FinalGraphHash(r.hash, r.hist, h.presumedNextMovePla)
      BY <2>3, <2>5, GraphReplayIs DEF ScratchStart
    <2> QED BY <2>1, <2>4, <2>6 DEF FinalGraphHash
  <1> QED BY <1>1, LinesOfSpec, PTL

(* Two lists of the same entries are the same. *)
LEMMA SameList ==
  ASSUME NEW s, IsList(s), NEW t, IsList(t), Len(s) = Len(t), \A i \in 1 .. Len(s) : s[i] = t[i]
  PROVE  s = t
  BY DEF IsList

(* What the rules make of a game depends on the position, the ply and the  *)
(* count only.                                                             *)
LEMMA SameEnd ==
  ASSUME NEW b, NEW c, b.colors = c.colors, b.pawn = c.pawn, NEW rules, NEW turn, NEW count
  PROVE  EndingOf(rules, turn, count, b) = EndingOf(rules, turn, count, c)
  <1>1. pawnOnGoal(b) = pawnOnGoal(c)
    BY DEF pawnOnGoal
  <1>2. \A pla : getShortestPathDistance(b, pla) = getShortestPathDistance(c, pla)
    BY DistanceIsOf
  <1>3. \A arrived : Tempo(b, arrived) = Tempo(c, arrived)
    BY <1>2 DEF Tempo, whiteMarginWhenWonBy
  <1>4. \A arrived : GoalEnd(rules, turn, b, arrived) = GoalEnd(rules, turn, c, arrived)
    BY <1>3, Zenon DEF GoalEnd, ScoredEnd, LeadOf
  <1> QED BY <1>1, <1>4, Zenon DEF EndingOf

(* A line's future as a function of its board and history. *)
FutureIs(b, h) ==
  <<b.pawn, b.colors, b.fences, h.presumedNextMovePla, getCurrentTurnNumber(h),
    h.isGameFinished, h.winner, h.score,
    [p \in ToSet(h.positionsSinceLastWall) |-> numOccurrences(h.positionsSinceLastWall, p)]>>

LEMMA SharedHaveOneFuture ==
  ASSUME NEW b, NEW h, NEW c, NEW g, NEW chain, LineGood(b, h, chain), LineGood(c, g, chain)
  PROVE  FutureIs(b, h) = FutureIs(c, g)
  <1>1. PICK p : p = h.presumedNextMovePla
    OBVIOUS
  <1>2. PICK q : q = g.presumedNextMovePla
    OBVIOUS
  <1>3. /\ InPlay(b) /\ InPlay(c) /\ RecordOf(h, b) /\ RecordOf(g, c) /\ p \in Players /\ q \in Players
        /\ h.rules = g.rules /\ IsChain(h, chain) /\ IsChain(g, chain)
        /\ h.initialTurnNumber = 0 /\ g.initialTurnNumber = 0
        /\ Ending(h) = RulesEnd(h, b) /\ Ending(g) = RulesEnd(g, c)
    BY <1>1, <1>2 DEF LineGood, RecordOf
  <1>4. getStateHash(h, p) = getStateHash(g, q)
    BY <1>1, <1>2, <1>3 DEF IsChain
  <1>5. getSitHash(b, p) = getSitHash(c, q) /\ getCurrentTurnNumber(h) = getCurrentTurnNumber(g)
    BY <1>3, <1>4, StateHashIs
  <1>6. p = q /\ b.pawn = c.pawn /\ b.colors = c.colors /\ b.fences = c.fences
    BY <1>3, <1>5, SitHashIs
  <1>7. PICK s : s = h.positionsSinceLastWall
    OBVIOUS
  <1>8. PICK t : t = g.positionsSinceLastWall
    OBVIOUS
  <1>9. s = t
    BY <1>3, <1>7, <1>8, SameList, ZenonT(60) DEF RecordOf, IsChain
  <1>10. h.currentRepetitionCount = g.currentRepetitionCount
    BY <1>3, <1>7, <1>8, <1>9 DEF RecordOf
  <1>11. h.moveHistory = <<>> <=> g.moveHistory = <<>>
    BY <1>3, <1>5 DEF RecordOf, getCurrentTurnNumber
  <1>12. RulesEnd(h, b) = RulesEnd(g, c)
    BY <1>3, <1>5, <1>6, <1>10, <1>11, SameEnd DEF RulesEnd
  <1>13. h.isGameFinished = g.isGameFinished /\ h.winner = g.winner /\ h.score = g.score
    BY <1>3, <1>12 DEF Ending
  <1> QED BY <1>1, <1>2, <1>5, <1>6, <1>7, <1>8, <1>9, <1>13, Zenon DEF FutureIs

LEMMA AfterWallsShared ==
  ASSUME NEW b, NEW h, NEW c, NEW g, NEW s, NEW t, LineGood(b, h, s), LineGood(c, g, t),
         FutureIs(b, h) = FutureIs(c, g),
         Len(h.positionsSinceLastWall) = 1, Len(g.positionsSinceLastWall) = 1
  PROVE  s = t
  <1>1. PICK p : p = h.presumedNextMovePla
    OBVIOUS
  <1>2. /\ b.pawn = c.pawn /\ b.colors = c.colors /\ b.fences = c.fences /\ g.presumedNextMovePla = p
        /\ getCurrentTurnNumber(h) = getCurrentTurnNumber(g) /\ h.isGameFinished = g.isGameFinished
    BY <1>1 DEF FutureIs
  <1>3. /\ InPlay(b) /\ InPlay(c) /\ RecordOf(h, b) /\ RecordOf(g, c) /\ p \in Players
        /\ h.rules = g.rules /\ IsChain(h, s) /\ IsChain(g, t)
    BY <1>1 DEF LineGood, RecordOf
  <1>4. getSitHash(b, p) = getSitHash(c, p)
    BY <1>2, <1>3, SitHashIs
  <1>5. getStateHash(h, p) = getStateHash(g, p)
    BY <1>2, <1>3, <1>4, StateHashIs
  <1>6. /\ IsList(s) /\ IsList(t) /\ Len(s) = 1 /\ Len(t) = 1
        /\ s[1] = getStateHash(h, p) /\ t[1] = getStateHash(g, p)
    BY <1>1, <1>2, <1>3 DEF IsChain
  <1>7. \A i \in 1 .. Len(s) : s[i] = t[i]
    BY <1>5, <1>6
  <1> QED BY <1>6, <1>7, SameList

(* Nodes are shared only between histories with the same future, and the   *)
(* walls make them shared again (GraphHash::getGraphHash).                 *)
THEOREM SharedNodesHaveOneFuture == LinesSpec => []SharedNodesAgree
  <1>1. LinesInv => SharedNodesAgree
    <2> SUFFICES ASSUME LinesInv, NEW l1 \in Lines, NEW l2 \in Lines
                 PROVE  LET afterWall == \A line \in {l1, l2} : Len(hists[line].positionsSinceLastWall) = 1
                        IN  /\ graphHash[l1] = graphHash[l2] => FutureOf(l1) = FutureOf(l2)
                            /\ afterWall /\ FutureOf(l1) = FutureOf(l2) => graphHash[l1] = graphHash[l2]
      BY DEF SharedNodesAgree
    <2>1. FutureOf(l1) = FutureIs(boards[l1], hists[l1]) /\ FutureOf(l2) = FutureIs(boards[l2], hists[l2])
      BY DEF FutureOf, FutureIs
    <2>2. LineGood(boards[l1], hists[l1], graphHash[l1]) /\ LineGood(boards[l2], hists[l2], graphHash[l2])
      BY DEF LinesInv
    <2>3. graphHash[l1] = graphHash[l2] => FutureOf(l1) = FutureOf(l2)
      BY <2>1, <2>2, SharedHaveOneFuture
    <2>4. ASSUME Len(hists[l1].positionsSinceLastWall) = 1, Len(hists[l2].positionsSinceLastWall) = 1,
                 FutureOf(l1) = FutureOf(l2)
          PROVE  graphHash[l1] = graphHash[l2]
      BY <2>1, <2>2, <2>4, AfterWallsShared
    <2> QED BY <2>3, <2>4
  <1> QED BY <1>1, LinesOfSpec, PTL

=============================================================================
