CONSTANTS
  WIDTH = 3
  HEIGHT = 1
  Level <- Row
  Dirs = {"LEFT", "RIGHT"}
  Eager = {}
  Quitters = {}
  PipeCap = 2
  MaxKeys = 1
  MaxGames = 1
SPECIFICATION FairSpec
CHECK_DEADLOCK FALSE
PROPERTIES
  Restarts
