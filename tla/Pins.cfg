SPECIFICATION Spec
CONSTANTS
  p1 = p1
  p2 = p2
  l1 = l1
  l2 = l2
  Pins = {p1, p2}
  Lines = {l1, l2}
  Fds = {0, 1}
  Configs <- SomeConfigs
  CanFail = TRUE
SYMMETRY Symmetry
INVARIANTS
  TypeOK
  HandleOwned
  NoHandleLeaked
  RecordedInEffect
  LevelAsAsked
PROPERTIES
  LostOnlyByThrowing
  ImplementsLeases
