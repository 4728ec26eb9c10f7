\* Two producers, two pushes each, over a pool of three nodes: freed nodes are
\* reused while an older push() still holds their address.
SPECIFICATION FairSpec
CONSTANTS
  Producers = {p1, p2}
  Nodes = {n1, n2, n3}
  Null = Null
  MaxPush = 2
INVARIANTS
  TypeOK
  ListInv
  AllocInv
  NoUseAfterFree
  NoLostWakeup
PROPERTIES
  ImplementsWakeupQueue
  Delivery
CHECK_DEADLOCK FALSE
