SPECIFICATION Spec
CONSTANTS
  c1 = c1
  missing = missing
  a1 = a1
  a2 = a2
  owner = owner
  stranger = stranger
  boss = boss


  Null = Null
  CaseId = {c1, missing}
  Case = {c1}
  Analyst = {a1, a2}
  Assignee = {a1, a2, boss}
  Customer = {owner, stranger}
  Supervisor = {boss}
  Rating = {5}
  Session = {s1, s2}
  Owner <- MCOwner
  SlaDue <- MCSlaDue
  Scored <- OneScored
  Requests <- AllRequests
  MaxTime = 1
  MaxHistory = 6
  MaxRetries = 0
SYMMETRY Interchangeable
INVARIANTS
  TypeOK
  EventTellsTheCase
  HistoryTellsTheCase
PROPERTIES
  DecisionIsFinal
  AssignmentIsFinal
