SPECIFICATION LinesSpec
CONSTANTS
  Lines = {l1, l2}
  N = 3
  MAX_FENCE_NUM = 1
  NUM_RECENT_BOARDS = 2
  LineWalls <- OneWall
  GameRules <- HastyRules
  MaxPlies = 4
SYMMETRY LineSymmetry
INVARIANTS
  SharedNodesAgree
  IncrementalIsFromScratch
CHECK_DEADLOCK FALSE
