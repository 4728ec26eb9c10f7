\* Careful callers, on a connected descriptor or through connect(): three writes,
\* two read callbacks, two failures, incoming data and end of file.
SPECIFICATION FairSpec
CONSTANTS
  MaxWrites = 3
  Shapes <- OneExtent
  ReadCbs = {r1, r2}
  None = None
  BufSize = 2
  MaxIn = 3
  MaxFails = 2
  MaxDepth = 2
  Starts = {"create", "wrapFd"}
  Careful = TRUE
  FreesInLast = FALSE
INVARIANT TypeOK
INVARIANT InterestMatches
INVARIANT ConnectToldOnce
INVARIANT WireOrder
INVARIANT NotCrashed
PROPERTY ImplementsByteStream
PROPERTY WritesFinish
CHECK_DEADLOCK FALSE
