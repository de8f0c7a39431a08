CONSTANTS
  p1 = p1
  p2 = p2
  file1 = file1
  file2 = file2
  longer = longer
  t1 = t1
  t2 = t2
  letter = letter
  ff = ff
  Process <- MCProcess
  NumPages = 2
  NumPhysPages = 2
  SwapPages = 3
  MaxVersion = 1
  ByteBits = 1
  GPRs = 3
  PageSize = 4
  PageTableSize = 2
  Region = 8
  Code <- MCCode
  Starts <- MCStarts
  Handled <- MCHandled
  Results <- MCResults
  Leftover <- MCLeftover
  Thread <- MCThread
  Char <- MCChar
  EndOfFile = ff
  MaxTyped = 3
  MaxLen = 2
  Program <- MCProcess
  Name <- MCName
  Path <- MCPath
  NameOf <- MCNameOf
  DirOf <- MCDirOf
  Executable <- MCExecutable
  TableLen = 2
  LocalLen = 3
  Uncleared <- MCUncleared
  Free = Free
  Garbage = Garbage
SPECIFICATION PartSpec
SYMMETRY Symmetry
VIEW WhatCounts
INVARIANT FramesAccounted
INVARIANT VictimExists
INVARIANT ContentsKept
INVARIANT PartsTypeOK
INVARIANT InputInOrder
INVARIANT DevicesReady
INVARIANT NeverStalls
INVARIANT LiveOrRemoved
PROPERTY FaultsInvisible
PROPERTY ImplementsIdeal
PROPERTY ReopenedLateOrByPath
CHECK_DEADLOCK FALSE
