\* Any caller: a read() that leaves bytes in the stream, then a longer one.
SPECIFICATION BSpec
CONSTANTS
  MaxWrites = 0
  Shapes <- OneExtent
  ReadCbs = {r1, r2}
  None = None
  BufSize = 2
  MaxIn = 4
  MaxFails = 0
  MaxDepth = 1
  Starts = {"wrapFd"}
  Careful = FALSE
  FreesInLast = FALSE
  MaxRead = 3
INVARIANT WithinBuffer
CHECK_DEADLOCK FALSE
