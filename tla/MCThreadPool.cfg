\* Three workers, four tasks, a destructor at any moment.
CONSTANTS
  Worker = {w1, w2, w3}
  MaxTasks = 4
SPECIFICATION Spec
INVARIANTS
  TypeOK
  QueueIsLatest
  RunsOnce
  NoLostWakeup
PROPERTIES
  EveryTaskRuns
  WorkersExit
  ImplementsTaskPool
CHECK_DEADLOCK FALSE
