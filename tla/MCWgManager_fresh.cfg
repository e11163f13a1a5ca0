\* No cancellation between a task's last test and its end.
CONSTANTS
  h1 = h1
  h2 = h2
  d1 = d1
  d2 = d2
  Host = {h1, h2}
  NoHost = NoHost
  Task = {d1, d2}
  NoTask = NoTask
  GenMod = 4
  Attempts = 2
  BackoffCap = 2
  DownWait = 2
  Window = FALSE
  Wraps = FALSE
  Edits = TRUE
SPECIFICATION Spec
SYMMETRY Symmetry
INVARIANTS
  OneResolver
  TunnelMatches
