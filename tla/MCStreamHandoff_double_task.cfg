\* A socket call that outlasts the 2 s join.
CONSTANTS
  t1 = t1
  t2 = t2
  Task = {t1, t2}
  NoTask = NoTask
  BufferSizes = {256}
  Stalls = TRUE
  EarlyDeadline = FALSE
  HeapMayFail = FALSE
  ClientLeaves = TRUE
SYMMETRY TaskSymmetry
SPECIFICATION Spec
INVARIANT
  OneTask
