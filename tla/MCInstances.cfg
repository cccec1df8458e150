CONSTANTS
  Start = {1, 2}
  Port <- OnePort
  Careful = {1, 2}
  Mortal = {1, 2}
  MaxGames = 2
SPECIFICATION Spec
CHECK_DEADLOCK FALSE
INVARIANTS
  OneGuard
  OneInside
  Healed
