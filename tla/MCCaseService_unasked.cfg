SPECIFICATION Spec
CONSTANTS
  c1 = c1
  missing = missing
  a1 = a1
  a2 = a2
  owner = owner
  stranger = stranger
  boss = boss


  Null = Null
  CaseId = {c1, missing}
  Case = {c1}
  Analyst = {a1}
  Assignee = {a1, boss}
  Customer = {owner, stranger}
  Supervisor = {boss}
  Rating = {5}
  Session = {s1}
  Owner <- MCOwner
  SlaDue <- MCSlaDue
  Scored <- OneScored
  Requests <- FewRequests
  MaxTime = 1
  MaxHistory = 4
  MaxRetries = 0
PROPERTIES
  AnsweredOnlyWhenAsked
