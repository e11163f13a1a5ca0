\* In every regime; liveness after the last outage and the last change.
CONSTANTS
  h1 = h1
  h2 = h2
  d1 = d1
  Host = {h1, h2}
  NoHost = NoHost
  Task = {d1}
  NoTask = NoTask
  GenMod = 2
  Attempts = 1
  BackoffCap = 2
  DownWait = 2
  Window = TRUE
  Wraps = TRUE
  Edits = TRUE
SPECIFICATION FairSpec
INVARIANTS
  QuietTunnel
  OffMeansDown
  ManagerInv
PROPERTIES
  TunnelRecovers
  OffEndsResolver
