CONSTANTS
  MaxActive = 2
  MaxCalls = 2
SPECIFICATION Spec
PROPERTIES
  ShutdownOnlyToClosed
CHECK_DEADLOCK FALSE
