\* One http_conn, two clients one after the other, two requests.
CONSTANTS
  InitSize = 12
  StackSize = 12
  LowWater = 1
  MaxAsked = 2
  MaxConn = 2
  Requests <- AllRequests
  FileLen <- Files
  Unreadable <- NotForOthers
SPECIFICATION Spec
INVARIANTS
  TypeOK
  SentInOrder
  WriteBuffAgrees
  BodyInOrder
  ResultOfImage
PROPERTIES
  SentWhole
  Answered
CHECK_DEADLOCK FALSE
