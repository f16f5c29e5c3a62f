SPECIFICATION FairSpec
CONSTANTS
  Threads = {t1, t2}
  MaxModels = 2
  MaxGames = 3
  maxDataQueueSize = 1
INVARIANT
  NothingIsLost
PROPERTY
  ShutdownEnds
CHECK_DEADLOCK FALSE
