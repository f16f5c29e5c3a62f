SPECIFICATION Spec
CONSTANTS
  Threads = {t1, t2}
  Positions <- Board
  Start = "s"
  Play <- Moves
  ToMove <- Player
  GraphHash <- Hash
  RootMoves <- Searched
  Leaves <- Over
  Size <- Sizes
  Weightless = {"pla"}
  MaxNodes = 10
  Limits <- TwoThenOne
INVARIANTS
  ChildrenFollowMoves
  OneNodePerPosition
  VisitsAddUp
PROPERTIES
  SweepIsExact
  SearchEnds
CHECK_DEADLOCK FALSE
