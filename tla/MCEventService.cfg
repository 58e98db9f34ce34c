SPECIFICATION Spec
CONSTANTS
  UnitsPerSecond = 1
  d1 = d1
  d2 = d2
  d3 = d3
  f1 = f1
  x1 = x1
  a1 = a1
  Event = {d1, d2, d3, f1, x1}
  EventType <- MCEventType
  Analyst = {a1}
  AnalystOf <- MCAnalystOf
  Data <- TwoOfThree
  Worker = {w1, w2}
  Null = Null
  MaxCopies = 2
  MaxPublished = 5
  MaxFaults = 2
SYMMETRY Interchangeable
INVARIANTS
  ProfileSumsTheLedger
  OneBadge
  NothingIsForgotten
PROPERTIES
  CountsExactlyOnce
CHECK_DEADLOCK FALSE
