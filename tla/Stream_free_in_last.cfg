\* Careful callers who believe the comment in writeHelper: they free the stream
\* in the callback of their last write also while they read.
SPECIFICATION Spec
CONSTANTS
  MaxWrites = 1
  Shapes <- OneExtent
  ReadCbs = {r1}
  None = None
  BufSize = 2
  MaxIn = 1
  MaxFails = 0
  MaxDepth = 1
  Starts = {"wrapFd"}
  Careful = TRUE
  FreesInLast = TRUE
INVARIANT NotCrashed
CHECK_DEADLOCK FALSE
