\* Short socket calls, no clock wrap; allocation may fail, the client may leave.
CONSTANTS
  t1 = t1
  t2 = t2
  Task = {t1, t2}
  NoTask = NoTask
  BufferSizes = {256, 512}
  Stalls = FALSE
  EarlyDeadline = FALSE
  HeapMayFail = TRUE
  ClientLeaves = TRUE
SPECIFICATION FairSpec
INVARIANTS
  SocketExclusive
  DriverExclusive
  LedExclusive
  OneTask
  NoNullClient
  ConfirmedMeansClosed
  StaleBufferEnds
PROPERTIES
  ImplementsOwnership
  LoopReturns
  DeadPeerNoticed
