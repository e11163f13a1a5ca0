\* Two limits and readings below, between and above them; two resets.
CONSTANTS
  NoReading = NoReading
  Temperature = {70, 83, 91}
  Requested = {80, 93}
  MinLimit = 30
  MaxLimit = 95
  LimitStep = 5
  DefaultLimit = 80
  MaxCrashes = 2
SPECIFICATION FairSpec
INVARIANTS
  FlashAgrees
  AcknowledgedFirst
  Armed
PROPERTIES
  HotStops
  ImplementsContract
