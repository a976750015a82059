SPECIFICATION Spec
CONSTANTS
  t1 = t1
  Threads = {t1}
  Base = 7
  Size = 2
  PageSize = 4
  SizeMax1 = 16
  Bits = {0}
  Widths = {1}
  Lens = {}
  Offsets <- WrappingOffsets
  CanFail = FALSE
INVARIANT
  OutsideRefused
CHECK_DEADLOCK FALSE
