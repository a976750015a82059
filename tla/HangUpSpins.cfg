SPECIFICATION FairSpec
CONSTANTS
  t1 = t1
  Threads = {t1}
  Ops <- TimedReads
  MaxSize = 2
  Timeouts <- OneTimeout
  MsPerSec = 2
  IntMax = 3
  EmptyRead = "Again"
  CanFail = FALSE
  CanHangUp = TRUE
  OutCap = 1
  MaxArrivals = 2
PROPERTY
  BoundedCallsEnd
CHECK_DEADLOCK FALSE
