CONSTANTS
  NoThread = NoThread
  Lock = Lock
  Done = Done
  MaxThreads = 4
  Thread <- MCThread
  Sem <- MCSem
  InitialValue <- MCInitialValue
  SystemTick = 2
  UserTick = 1
  TimerTicks = 3
  RotationTime = 2
  SeekTime = 2
  PollTime = 3
  SectorsPerTrack = 2
  NumTracks = 2
  Quanta <- MCQuanta
  MaxGarbage = 4
  MaxTime = 8
  Item <- MCItem
  Null = Null
  Cell = {1, 2, 3, 4}
  Rank <- MCRank
  Hash <- MCHash
  InitialBuckets = 1
  ResizeRatio = 1
  IncreaseSizeBy = 2
  MaxBuckets = 4
  NumBits = 5
  BitsInWord = 3
  None = None
SPECIFICATION PartSpec
INVARIANT PartsTypeOK
INVARIANT QueuedSleep
INVARIANT NobodyStranded
INVARIANT DiskStaysExclusive
INVARIANT HandlersInTime
INVARIANT SectorPasses
PROPERTY ImplementsContainers
CHECK_DEADLOCK FALSE
