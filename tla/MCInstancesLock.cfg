CONSTANTS
  Start = {1, 2}
  Port <- OnePort
  Careful = {}
  Mortal = {}
  MaxGames = 1
SPECIFICATION Spec
CHECK_DEADLOCK FALSE
INVARIANTS
  Locked
