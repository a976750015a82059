SPECIFICATION Spec
CONSTANTS
  t1 = t1
  t2 = t2
  Threads = {t1, t2}
  Base = 7
  Size = 2
  PageSize = 4
  SizeMax1 = 16
  Bits = {0}
  Widths = {1, 2}
  Lens = {0, 2}
  Offsets <- SomeOffsets
  CanFail = TRUE
SYMMETRY Symmetry
INVARIANTS
  RegionExact
  CallsExact
  NothingLeaked
CHECK_DEADLOCK FALSE
