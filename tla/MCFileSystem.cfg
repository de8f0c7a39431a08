CONSTANTS
  NumSectors = 29
  SectorSize = 6
  EntrySize = 2
  NumDirEntries = 3
  Name = {nameA, nameB}
  MaxDepth = 2
  SwapName = swap_space
  SwapSize = 37
  CopySize = {5, 37}
  NoSector = NoSector
SPECIFICATION Spec
SYMMETRY Symmetry
INVARIANT TypeOK
INVARIANT NothingLeaks
PROPERTY OnlyGrowthCorrupts
INVARIANT BytesStored
PROPERTY ImplementsNames
CHECK_DEADLOCK FALSE
