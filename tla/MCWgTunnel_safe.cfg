\* A server with two addresses, any of the three kinds of key.
CONSTANTS
  a = a
  b = b
  Addr = {a, b}
  Nowhere = Nowhere
SPECIFICATION FairSpec
INVARIANTS
  RouteComesHome
PROPERTIES
  FreedUnderCallback
  ServerReachedUnlessMisled
