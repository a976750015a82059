SPECIFICATION CopySpec
CONSTANTS
  p1 = p1
  p2 = p2
  l1 = l1
  l2 = l2
  Pins = {p1, p2}
  Lines = {l1, l2}
  Fds = {0, 1}
  Configs <- OneConfig
  CanFail = FALSE
INVARIANT
  OwnLineOnly
