CONSTANTS
  WIDTH = 3
  HEIGHT = 2
  Filling = {"#", ".", "*"}
  StartCells = {0, 1}
  MaxPrizes = 3
  Levels <- MCLevels
SPECIFICATION Spec
INVARIANTS
  TypeOK
  FoodCounted
  PlayersOnFloor
  PlayersApart
  PointsConserved
  OverJustified
PROPERTIES
  FrozenOnceOver
  CommandsTold
  RaceSpec
