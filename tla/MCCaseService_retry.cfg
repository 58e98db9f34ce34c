SPECIFICATION FairSpec
CONSTANTS
  c1 = c1
  missing = missing
  a1 = a1
  a2 = a2
  owner = owner
  stranger = stranger
  boss = boss
  Null = Null
  CaseId = {c1, missing}
  Case = {c1}
  Analyst = {a1}
  Assignee = {a1, boss}
  Customer = {owner, stranger}
  Supervisor = {boss}
  Rating = {5}
  Session = {s1, s2}
  Owner <- MCOwner
  SlaDue <- MCSlaDue
  Scored <- OneScored
  Requests <- FewRequests
  MaxTime = 0
  MaxHistory = 4
  MaxRetries = 1
INVARIANTS
  OneDecisionEvent
  FeedbackFollowsClosure
  OneWayRequestsApplyOnce
PROPERTIES
  ImplementsLifecycle
  EveryRequestEnds
