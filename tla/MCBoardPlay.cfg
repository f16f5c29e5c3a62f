SPECIFICATION Spec
CONSTANTS
  N = 3
  MAX_FENCE_NUM = 2
  Handicaps <- EvenOrHandicap
  MaxMoves = 5
  MaxUndo = 1
INVARIANTS
  BoardConsistent
  DerivedDataIsFresh
  WallLegalIffNoFullBlock
  PawnMovesAgree
  MirrorIsSymmetry
PROPERTY
  UndoRestores
CHECK_DEADLOCK FALSE
