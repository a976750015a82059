SPECIFICATION Spec
CONSTANTS
  h1 = h1
  h2 = h2
  Handles = {h1, h2}
  Starts <- TwoStarts
  Modes <- TwoModes
  Speeds = {1, 2}
  Words = {8}
  Lens <- SomeLens
  LenLimit = 4
  BufSiz = 2
  CanFail = TRUE
SYMMETRY Symmetry
INVARIANTS
  CallsExact
  NoDescriptorLeaked
  PrintedInForce
PROPERTY
  LostUpdatesBounded
