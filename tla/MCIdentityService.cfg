SPECIFICATION FairSpec
CONSTANTS
  Null = Null
  ana = ana  nia = nia  adm = adm  kim = kim  lee = lee
  g1 = g1  g2 = g2  e1 = e1  e2 = e2  e3 = e3  e4 = e4
  Session = {s1, s2}
  User = {ana, nia, adm, kim, lee}
  RoleOf <- MCRole
  GsmOf <- MCGsm
  EmailOf <- MCEmail
  Mixes <- MCMixes
  Inactive = {}
  RefreshLife = 1
  AccessLife = 1
  CodeLife = 1
  LockLife = 1
  LockThreshold = 2
  MaxFailed = 2
  MaxFaults = 1
INVARIANTS OneLiveTokenPerLogin ReuseEndsSessions MissesAreCounted CodesWorkOnce AuditTellsTheTruth
PROPERTY EveryRequestEnds
CHECK_DEADLOCK FALSE
