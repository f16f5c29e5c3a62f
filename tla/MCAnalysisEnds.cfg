SPECIFICATION FairSpec
CONSTANTS
  Bots = {b1, b2}
  b1 = b1
  b2 = b2
  MaxRequests = 2
  MaxTurns = 2
  Priorities = {0}
  Focuses = {n0}
  n0 = n0
  NoFocus = n0
  QuitWithoutWaiting = TRUE
PROPERTIES
  TerminatedIsAnswered
  QuitEnds
