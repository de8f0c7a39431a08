CONSTANTS
  NoThread = NoThread
  NoItem = NoItem
  Lock = Lock
  Thread = {t1, t2, t3}
  Item = {i1, i2}
  Sem <- MCSem
  InitialValue <- MCInitialValue
SPECIFICATION FairSpec
INVARIANT TypeOK
INVARIANT MutualExclusion
INVARIANT SignalRemembered
INVARIANT ItemsHaveTakers
PROPERTY ImplementsQueue
CHECK_DEADLOCK FALSE
