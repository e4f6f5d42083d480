CONSTANTS
  MaxActive = 2
  MaxCalls = 2
SPECIFICATION FairSpec
INVARIANTS
  TypeOK
  GracefulDrains
PROPERTIES
  ClosedIsLast
  ReturnsOnCancel
CHECK_DEADLOCK FALSE
