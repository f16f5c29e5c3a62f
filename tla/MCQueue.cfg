CONSTANTS
  t1 = t1
  t2 = t2
  t3 = t3
  a = a
  b = b
  c = c
  Threads = {t1, t2, t3}
  Elts = {a, b, c}
  maxSize = 1
  PopSizes = {1, 2}
  Modes = {"close", "setReadOnly", "unsetReadOnly"}
SPECIFICATION FairSpec
INVARIANTS
  NoStrandedThread
PROPERTIES
  ImplementsFifo
  WaitersAreReleased
CHECK_DEADLOCK FALSE
