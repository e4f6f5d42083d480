CONSTANTS
  Stacks <- OnlyLimit
  AppStruct <- MCAppStruct
  AppRequests <- MCAppRequests
  RegisterRequests <- MCRegisterRequests
  Limit = 2
  Capacity = 1
  Quantum = 0
  FillInterval = 2
  MaxWait = 2
  MaxSteps = 3
  MaxClock = 3
  MaxOthers = 2
SPECIFICATION RSpec
INVARIANT LimitHolds
CHECK_DEADLOCK FALSE
