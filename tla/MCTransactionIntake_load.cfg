SPECIFICATION Spec
CONSTANTS
  t1 = t1
  t2 = t2
  t3 = t3
  a1 = a1
  a2 = a2
  a3 = a3
  Null = Null
  Transaction = {t1, t2, t3}
  Analyst = {a1, a2, a3}
  Score <- OneScore
  Specialist <- BusySpecial
  Accuracy <- MCAccuracy
  Rank <- MCRank
  Profiles <- TwinsAndBusy
  Sync <- NoSync
  LastYear = 1
  MaxNumber = 3
SYMMETRY Interchangeable
INVARIANTS
  NoOverbooking
  CasesAreCounted
  LoadIsBalanced
CHECK_DEADLOCK FALSE
