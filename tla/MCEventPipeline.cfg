SPECIFICATION FairSpec
CONSTANTS
  UnitsPerSecond = 1
  a1 = a1
  Event = {1, 2}
  Rows = 2
  Publisher = {p1, p2}
  Worker = {w1, w2}
  Null = Null
  Analyst = {a1}
  EventType <- MCEventType
  AnalystOf <- MCAnalystOf
  Data <- MCData
  MaxCopies = 3
  MaxPublished = 3
  MaxFaults = 1
INVARIANTS
  DuplicatesComeFromFaults
  SomebodyHasIt
PROPERTIES
  EventuallyCounted
CHECK_DEADLOCK FALSE
