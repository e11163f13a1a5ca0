\* Requests that fit and one that does not, cut and joined at will.
CONSTANTS
  MaxRequests = 3
  Sizes = {2, 5}
  BufferLimit = 4
  TaskLimit = 2
  Numbers = 3
  MaxFailures = 2
SPECIFICATION Spec
INVARIANTS
  TypeOK
  NoForeignRequest
  NoRequestLost
  NoMoreAnswers
  Gapless
PROPERTIES
  InputDrained
