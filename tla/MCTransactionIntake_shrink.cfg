SPECIFICATION Spec
CONSTANTS
  t1 = t1
  t2 = t2
  t3 = t3
  a1 = a1
  a2 = a2
  a3 = a3
  Null = Null
  Transaction = {t1}
  Analyst = {a1, a2}
  Score <- OneScore
  Specialist <- OneSpecial
  Accuracy <- MCAccuracy
  Rank <- MCRank
  Profiles <- Unequal
  Sync <- LessRoom
  LastYear = 1
  MaxNumber = 2
INVARIANTS
  NoOverbooking
CHECK_DEADLOCK FALSE
