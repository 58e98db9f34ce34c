SPECIFICATION FairSpec
CONSTANTS
  t1 = t1
  t2 = t2
  t3 = t3
  a1 = a1
  a2 = a2
  a3 = a3
  Null = Null
  Transaction = {t1, t2}
  Analyst = {a1, a2}
  Score <- MCScore
  Specialist <- OneSpecial
  Accuracy <- MCAccuracy
  Rank <- MCRank
  Profiles <- OneToJoin
  Sync <- Joining
  LastYear = 2
  MaxNumber = 1
INVARIANTS
  NumbersHaveNoGap
  NobodySlipsThrough
PROPERTIES
  EveryCreateEnds
  EveryScoringEnds
CHECK_DEADLOCK FALSE
