SPECIFICATION GameSpec
CONSTANTS
  N = 3
  MAX_FENCE_NUM = 1
  NUM_RECENT_BOARDS = 3
  Starts <- SomeStarts
  Komis <- HalfKomis
  WallMoves <- TwoWalls
  MaxLength = 5
  MaxTolerant = 1
  MaxControls = 1
INVARIANTS
  ResultIsOfBoard
  HistoryIsOfGame
  ReplayReproduces
  RaceIsTheGame
  FinishKeepsValue
CHECK_DEADLOCK FALSE
