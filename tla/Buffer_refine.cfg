\* Two buffers, careful callers: three bytes in calls of up to two, empty
\* calls included.
SPECIFICATION Spec
CONSTANTS
  Buffers = {a, b}
  MaxBytes = 3
  MaxChunk = 2
  MaxExtents = 3
  SizeMod = 64
  Careful = TRUE
SYMMETRY Symmetry
INVARIANT TypeOK
INVARIANT SizeAgrees
INVARIANT PeekAgrees
PROPERTY ImplementsByteQueue
CHECK_DEADLOCK FALSE
