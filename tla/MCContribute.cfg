CONSTANTS
  task1 = task1
  task2 = task2
  game1 = game1
  game2 = game2
  pre = pre
  none = none
  TaskThreads = {task1, task2}
  GameThreads = {game1}
  PreThread = pre
  NoThread = none
  taskRepFactor = 1
  MaxMoves = 1
  Commands = {"pause", "forcequit", "signal"}
SPECIFICATION FairSpec
INVARIANTS
  GamesAccountedFor
  TaskLoopsTakeTurns
  StopIsFinal
PROPERTIES
  UnpausedShutdownEnds
CHECK_DEADLOCK FALSE
