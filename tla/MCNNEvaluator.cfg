SPECIFICATION FairSpec
CONSTANTS
  Clients = {c1, c2}
  Servers = {s1, s2}
  Positions = {p1, p2}
  slot = slot
  Slots = {slot}
  slotOf <- OneSlot
  maxBatchSize = 2
INVARIANTS
  WaitersAreCounted
  EvaluationIsOwn
PROPERTY
  EveryCallReturns
