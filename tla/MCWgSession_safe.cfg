\* Two handshakes of the device and one of the server cross each other, with
\* more packets than the replay window holds.
CONSTANTS
  MaxOurs = 2
  MaxTheirs = 1
  MaxSeq = 3
  WindowSize = 2
  BitmapBits = 3
  RekeyAfter = 1
  RekeySoon = 1
  RejectAfter = 2
  ResetAfter = 3
SPECIFICATION Spec
INVARIANTS
  OneSlot
  SharedKeys
  TwiceIsFirst
PROPERTIES
  OnlyTimeSilences
