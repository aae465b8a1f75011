\* Three threads that log, a queue of two lines.
CONSTANTS
  Writer = {w1, w2, w3}
  Logger = Logger
  Main = Main
  None = None
  QueueCap = 2
  Capacity = 2
  MaxLines = 5
SPECIFICATION Spec
INVARIANTS
  TypeOK
  EachLineOnce
  BoundedOvertaking
  PushNeverWaits
PROPERTIES
  EveryLineWritten
CHECK_DEADLOCK FALSE
