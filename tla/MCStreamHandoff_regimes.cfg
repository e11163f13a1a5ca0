\* Every regime: calls may stall, the clock may wrap, allocation may fail.
CONSTANTS
  t1 = t1
  Task = {t1}
  NoTask = NoTask
  BufferSizes = {256}
  Stalls = TRUE
  EarlyDeadline = TRUE
  HeapMayFail = TRUE
  ClientLeaves = TRUE
SPECIFICATION Spec
INVARIANTS
  ServerOffSilent
PROPERTIES
  ImplementsContract
