\* Every kind of call, two modes (UNTIL_EMPTY is in EventBase_live), two calls
\* of loop(), one failure of each kind.  The clients may be done while the loop
\* is not called again.
SPECIFICATION Spec
CONSTANTS
  Looper = L
  Clients = {c1, c2}
  None = None
  Modes = {"ONCE", "FOREVER"}
  Scripts <- AnyScripts
  MaxLoops = 2
  PipeCapacity = 2
  ReadSize = 1
  MaxReadFails = 1
  MaxWriteFails = 1
  Handlers = {TRUE, FALSE}
SYMMETRY Symmetry
INVARIANT TypeOK
INVARIANT NoLostWakeup
INVARIANT WaiterOutlivesOp
INVARIANT RunsBacklog
CHECK_DEADLOCK FALSE
