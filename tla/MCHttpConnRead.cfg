\* A request larger than the buffer that is left.
CONSTANTS
  InitSize = 6
  StackSize = 6
  LowWater = 1
  MaxAsked = 1
  MaxConn = 1
  Requests <- AllRequests
  FileLen <- Files
  Unreadable <- NotForOthers
SPECIFICATION Spec
PROPERTIES
  ReadTakesAll
CHECK_DEADLOCK FALSE
