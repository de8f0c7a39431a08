CONSTANTS
  NoThread = NoThread
  Lock = Lock
  Done = Done
  MaxThreads = 4
  Thread <- MCThread
  Sem <- MCSem
  InitialValue <- MCInitialValue
SPECIFICATION Spec
INVARIANT NeverQueuedTwice
CHECK_DEADLOCK FALSE
