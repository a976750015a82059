SPECIFICATION Spec
CONSTANTS
  s1 = s1
  s2 = s2
  Slots = {s1, s2}
  Kinds <- EveryKind
  Starts <- TwoStarts
  MaxElems = 2
  ElemSizes <- Widths
  Steps <- Amounts
  MaxEpoch = 1
SYMMETRY Symmetry
INVARIANTS
  ViewsInside
  SplitExact
PROPERTY
  NeverWidens
