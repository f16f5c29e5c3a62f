SPECIFICATION FairSpec
CONSTANT MaxSearches = 3
INVARIANTS
  MoveIsDelivered
  NoCallbackAfterStop
PROPERTIES
  HandOverIsClean
  StopReturns
  KilledBotEnds
