SPECIFICATION Spec
CONSTANTS
  Producers = {p1}
  Consumer = Consumer
  Nodes = {n0, n1, n2}
  Null = Null
  MaxPush = 2
INVARIANT SleepsOnlyWhenEmpty
CHECK_DEADLOCK FALSE
