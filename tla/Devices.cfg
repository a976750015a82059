SPECIFICATION Spec
CONSTANTS
  o1 = o1
  o2 = o2
  Objects = {o1, o2}
  Fds = {0, 1}
  CanFail = TRUE
  Requests <- SomeRequests
  Drivers <- SomeDrivers
  Probes = {0, 3, 10, 13, 17, 19, 31, 65, 127, 128, 145, 255}
  Cells = 2
  Transfers <- SomeTransfers
  LenLimit = 4
  KernelMax = 2
  KernelMsgs = 2
  Accesses <- SomeAccesses
SYMMETRY Symmetry
INVARIANTS
  TypeOK
  DescriptorsOwned
  SettingsAsAsked
  BytesUnchanged
  NarrowedFront
PROPERTY
  RegisterAccess
