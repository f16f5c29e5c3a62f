SPECIFICATION Spec
CONSTANTS
  Bots = {b1, b2}
  b1 = b1
  b2 = b2
  MaxRequests = 2
  MaxTurns = 2
  Priorities = {0, 1}
  Focuses = {n0, f1}
  n0 = n0
  f1 = f1
  NoFocus = n0
  QuitWithoutWaiting = FALSE
SYMMETRY BotSymmetry
INVARIANTS
  ExactlyOneFinalReply
  NoActOnGoneRequest
  FocusIsCurrent
