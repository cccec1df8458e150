CONSTANTS
  Inherited <- MCInherited
  MaxConns = 5
SPECIFICATION Spec
CHECK_DEADLOCK FALSE
INVARIANTS
  FdsRight
  LastHolders
  NoLeak
