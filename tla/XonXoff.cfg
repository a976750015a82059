SPECIFICATION Spec
CONSTANTS
  o1 = o1
  Objects = {o1}
  Fds = {0}
  CanFail = FALSE
  Requests <- SomeRequests
  Drivers <- SomeDrivers
  Probes = {0, 65, 127, 128, 255}
  Cells = 1
  Transfers = {}
  LenLimit = 4
  KernelMax = 2
  KernelMsgs = 2
  Accesses = {}
INVARIANT
  XonXoffStops
