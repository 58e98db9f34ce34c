SPECIFICATION Spec
CONSTANTS
  UnitsPerSecond = 2
  Moments <- MCMoments
INVARIANTS
  PayloadIsValid
  FastIsInTime
PROPERTIES
  WaitingNeverPays
CHECK_DEADLOCK FALSE
