CONSTANTS
  WIDTH = 2
  HEIGHT = 2
  Filling = {"#", ".", "*", " "}
  Files <- MCFiles
  MaxLoads = 2
SPECIFICATION Spec
CHECK_DEADLOCK FALSE
INVARIANTS
  TypeOK
  LoadedAsWritten
  PictureComplete
  IdsUnique
