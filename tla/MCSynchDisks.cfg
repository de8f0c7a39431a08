CONSTANTS
  NoThread = NoThread
  Lock = Lock
  Done = Done
  v0 = v0
  Thread = {t1, t2, t3}
  Sector = {n1, n2}
  Value = {v0, v1}
  Sem <- MCSem
  InitialValue <- MCInitialValue
  InitialContents <- MCInitialContents
SPECIFICATION FairSpec
INVARIANT OneRequest
PROPERTY ImplementsAtomicDisk
CHECK_DEADLOCK FALSE
