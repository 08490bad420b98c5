\* One surface with two items and a client with three buffers; two outputs and a
\* window of the shell.
CONSTANTS
  Items = { i1, i2 }
  Buffers = 3
  MaxNotices = 1
  Outputs = { o1, o2 }
  Windows = { v1 }
  NoWindow = NoWindow
  Incarnations = 3
SPECIFICATION FairSpec
INVARIANTS
  NoFrameMissed
  RendersOnBuffer
PROPERTIES
  ClientGetsBuffer
  StopReturns
CHECK_DEADLOCK FALSE
