CONSTANTS
  t1 = t1
  t2 = t2
  t3 = t3
  s1 = s1
  s2 = s2
  NoThread = NoThread
  Thread <- MCThread
  Main = t1
  Sem <- MCSem
  InitialValue <- MCInitialValue
  DeviceSem <- MCDeviceSem
  MaxValue = 2
SPECIFICATION FairSpec
INVARIANT TypeOK
INVARIANT ListsAgree
INVARIANT CarcassSafe
INVARIANT NoLostWakeup
PROPERTY ImplementsSemaphores
PROPERTY ReadyThreadRuns
CHECK_DEADLOCK FALSE
