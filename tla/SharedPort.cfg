SPECIFICATION Spec
CONSTANTS
  t1 = t1
  t2 = t2
  Threads = {t1, t2}
  Ops <- PortOps
  MaxSize = 2
  Timeouts <- PortTimeouts
  MsPerSec = 2
  IntMax = 3
  CanFail = TRUE
  CanHangUp = TRUE
  OutCap = 2
  MaxArrivals = 2
SYMMETRY Symmetry
INVARIANTS
  BytesConserved
  PrefixInOrder
  ReadAccounted
  WriteExact
  FlushDrains
PROPERTY
  ImplementsStream
CHECK_DEADLOCK FALSE
