SPECIFICATION Spec
CONSTANTS
  h1 = h1
  Handles = {h1}
  Starts <- TwoStarts
  Modes <- TwoModes
  Speeds = {1, 2}
  Words = {8}
  Lens <- SomeLens
  LenLimit = 4
  BufSiz = 2
  CanFail = FALSE
INVARIANT
  OrderReadsBack
