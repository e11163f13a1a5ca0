\* The product wraps after 16 packets, a session lasts 11 minutes; the lower
\* rate is below the least automatic threshold.
CONSTANTS
  Rates = {1, 4}
  Limits = {1}
  Floor = 2
  Intervals = {1, 2}
  Milli = 2
  Word = 32
  CountWord = 4
  Longest = 11
SPECIFICATION Spec
INVARIANTS
  LowRateRecovered
PROPERTIES
  NoFalseAlarm
