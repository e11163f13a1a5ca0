\* The same server; a pair that nothing destroys misleads the manager.
CONSTANTS
  a = a
  b = b
  Addr = {a, b}
  Nowhere = Nowhere
SPECIFICATION FairSpec

PROPERTIES
  ServerReached
