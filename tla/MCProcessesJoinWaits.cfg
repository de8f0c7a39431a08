CONSTANTS
  NoThread = NoThread
  Lock = Lock
  Done = Done
  MaxThreads = 4
  Thread <- MCThread
  Sem <- MCSem
  InitialValue <- MCInitialValue
SPECIFICATION Spec
INVARIANT JoinWaits
CHECK_DEADLOCK FALSE
