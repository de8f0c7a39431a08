CONSTANTS
  p1 = p1
  p2 = p2
  Process <- MCProcess
  NumPages = 2
  NumPhysPages = 2
  SwapPages = 3
  MaxVersion = 1
SPECIFICATION Spec
INVARIANT FrontIsLeastRecent
SYMMETRY Symmetry
CHECK_DEADLOCK FALSE
