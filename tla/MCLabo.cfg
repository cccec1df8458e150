CONSTANT
  Input <- TwoFiles
SPECIFICATION FairSpec
CHECK_DEADLOCK FALSE
INVARIANTS
  TypeOK
  InOrder
PROPERTIES
  LastForwarderEnds
