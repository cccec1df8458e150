CONSTANTS
  WIDTH = 4
  HEIGHT = 1
  Levels <- MCLevels
  Me = 2
  Dirs = {"LEFT"}
  MaxKeys = 2
  MaxMoves = 1
  MaxGames = 2
SPECIFICATION FairSpec
CHECK_DEADLOCK FALSE
INVARIANTS
  TypeOK
  Replica
  KeysAfterRegistration
PROPERTIES
  EndIsShown
  WindowCloses
