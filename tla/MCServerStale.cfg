CONSTANTS
  WIDTH = 3
  HEIGHT = 1
  Level <- Row
  Dirs = {"LEFT", "RIGHT"}
  Eager = {}
  Quitters = {}
  PipeCap = 2
  MaxKeys = 1
  MaxGames = 2
SPECIFICATION Spec
CHECK_DEADLOCK FALSE
INVARIANTS
  OverWhenTold
