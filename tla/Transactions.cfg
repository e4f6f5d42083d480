CONSTANTS
  maxAttempts = 4
  MaxDepth = 2
  MaxSteps = 4
  Size = 1
SPECIFICATION PoolSpec
INVARIANTS
  TypeOK
  AtMostOnce
  AllOrNothing
  ConnectionHeld
PROPERTY TxReturns
CHECK_DEADLOCK FALSE
