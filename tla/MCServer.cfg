CONSTANTS
  WIDTH = 4
  HEIGHT = 1
  Level <- Row
  Dirs = {"LEFT", "RIGHT"}
  Eager = {}
  Quitters = {}
  PipeCap = 2
  MaxKeys = 2
  MaxGames = 2
SPECIFICATION Spec
CHECK_DEADLOCK FALSE
INVARIANTS
  TypeOK
  OneInside
  LoadsAlone
  NoneLeft
  StateSound
  Agreement
  RegisteredFirst
  Announced
PROPERTIES
  RaceSpec
