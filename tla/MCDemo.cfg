SPECIFICATION Spec
CONSTANTS
  Null = Null
  sup = sup  card = card  acc = acc  cust = cust  other = other
  t1 = t1  t2 = t2  t3 = t3  t4 = t4
  Analyst = {card, acc}
  Specialist = acc
  Staff = {sup, card, acc}
  Customer = cust
  Transaction = {t1, t2, t3, t4}
  OwnerOf <- MCOwner
  AccountOrder <- MCAccounts
  AnalystOrder <- MCAnalysts
  Deployments <- MCDeployments
  MaxLoad = 1
  MaxFaults = 1
INVARIANTS DrainedResetIsClean RunbookEndsReady AiComesBack
PROPERTY ResetTakesWhatIsTheDemos
SYMMETRY MCSymmetry
CHECK_DEADLOCK FALSE
