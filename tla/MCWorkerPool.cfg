SPECIFICATION Spec
CONSTANTS
  NumThreads = 2
  Posters = {net}
  MaxPosts = 2
  Stopper = Stopper
  NoThread = NoThread
  NoJob = NoJob
INVARIANTS
  TypeOK
  NoLostWakeup
  PendingIsExact
PROPERTIES
  ImplementsExecutor
  StopReturns
CHECK_DEADLOCK FALSE
