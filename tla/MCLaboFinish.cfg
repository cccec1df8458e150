CONSTANT
  Input <- TwoFiles
SPECIFICATION FairSpec
CHECK_DEADLOCK FALSE
PROPERTIES
  ServerFinishes
