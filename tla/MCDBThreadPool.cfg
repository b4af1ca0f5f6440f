SPECIFICATION Spec
CONSTANTS
  w1 = w1
  w2 = w2
  k1 = k1
  Workers = {w1, w2}
  WorkerAt <- Numbered
  NumWorkers = 2
  Keys = {k1}
  WorkerOf <- FirstWorker
  MaxTasks = 2
  MayFail = TRUE
  NoKey = NoKey
  NoTask = NoTask
INVARIANTS
  LeavesNothing
PROPERTIES
  KeyedInOrder
  TasksAreCalled
  DestructorReturns
CHECK_DEADLOCK FALSE
