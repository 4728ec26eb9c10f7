\* One call of loop(), stopped only after the start-up handshake.
SPECIFICATION FairSpec
CONSTANTS
  Looper = L
  Clients = {c1, c2}
  None = None
  Modes = {"UNTIL_EMPTY", "FOREVER"}
  Scripts <- HandshakeScripts
  MaxLoops = 1
  PipeCapacity = 2
  ReadSize = 1
  MaxReadFails = 1
  MaxWriteFails = 0
  Handlers = {FALSE}
PROPERTY WaitReturns
PROPERTY StopReturns
PROPERTY LoopReturns
CHECK_DEADLOCK FALSE
