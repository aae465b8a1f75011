\* What parse says of a request that arrives in parts.
CONSTANTS
  InitSize = 12
  StackSize = 12
  LowWater = 1
  MaxAsked = 1
  MaxConn = 1
  Requests <- AllRequests
  FileLen <- Files
  Unreadable <- NotForOthers
SPECIFICATION Spec
INVARIANTS
  ParseComplete
CHECK_DEADLOCK FALSE
