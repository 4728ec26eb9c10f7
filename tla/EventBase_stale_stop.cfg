\* A loop(ONCE), a stop(), a loop(FOREVER).
SPECIFICATION Spec
CONSTANTS
  Looper = L
  Clients = {c1}
  None = None
  Modes = {"ONCE", "FOREVER"}
  Scripts <- StopScripts
  MaxLoops = 2
  PipeCapacity = 2
  ReadSize = 1
  MaxReadFails = 0
  MaxWriteFails = 0
  Handlers = {FALSE}
INVARIANT ForeverUntilStopped
CHECK_DEADLOCK FALSE
