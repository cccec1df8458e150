CONSTANTS
  WIDTH = 3
  HEIGHT = 1
  Level <- Row
  Dirs = {"LEFT", "RIGHT"}
  Eager = {1}
  Quitters = {1, 2}
  PipeCap = 2
  MaxKeys = 1
  MaxGames = 1
SPECIFICATION FairSpec
CHECK_DEADLOCK FALSE
PROPERTIES
  GameEnds
  QuitEnds
  TeardownEnds
  OrphansEnd
