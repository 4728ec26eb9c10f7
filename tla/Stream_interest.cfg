\* Any caller: connect, start reading, then write.
SPECIFICATION Spec
CONSTANTS
  MaxWrites = 3
  Shapes <- OneExtent
  ReadCbs = {r1}
  None = None
  BufSize = 2
  MaxIn = 1
  MaxFails = 0
  MaxDepth = 1
  Starts = {"create"}
  Careful = FALSE
  FreesInLast = FALSE
INVARIANT InterestMatches
CHECK_DEADLOCK FALSE
