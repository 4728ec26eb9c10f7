\* Careful callers: two writes, reads of up to three bytes with buffers of two,
\* two failures of the socket.
SPECIFICATION BFairSpec
CONSTANTS
  MaxWrites = 2
  Shapes <- OneExtent
  ReadCbs = {r1, r2}
  None = None
  BufSize = 2
  MaxIn = 4
  MaxFails = 2
  MaxDepth = 1
  Starts = {"wrapFd"}
  Careful = TRUE
  FreesInLast = FALSE
  MaxRead = 3
INVARIANT BTypeOK
INVARIANT NoDeadCallback
INVARIANT ReadInOrder
INVARIANT WriteDone
INVARIANT ReadErrorOnce
PROPERTY ShortOnlyAtEof
PROPERTY CallsReturn
CHECK_DEADLOCK FALSE
