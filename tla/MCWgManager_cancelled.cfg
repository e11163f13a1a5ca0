\* A cancellation between a task's last test and its end.
CONSTANTS
  h1 = h1
  h2 = h2
  d1 = d1
  Host = {h1, h2}
  NoHost = NoHost
  Task = {d1}
  NoTask = NoTask
  GenMod = 4
  Attempts = 2
  BackoffCap = 2
  DownWait = 2
  Window = TRUE
  Wraps = FALSE
  Edits = TRUE
SPECIFICATION Spec
INVARIANT
  TunnelMatches
