SPECIFICATION FairSpec
CONSTANTS
  t1 = t1
  Threads = {t1}
  Ops <- SoleOps
  MaxSize = 4
  Timeouts <- PollTimeouts
  MsPerSec = 2
  IntMax = 3
  EmptyRead = "Again"
  CanFail = FALSE
  CanHangUp = TRUE
  OutCap = 2
  MaxArrivals = 4
INVARIANTS
  TypeOK
  BufferInside
  ReadAccounted
  TimeoutRespected
  ShortMeansTimedOut
  WaitedReadsSucceed
  WaitingStays
  WriteExact
PROPERTIES
  CallsRunDown
  CallsEndOrSpin
CHECK_DEADLOCK FALSE
