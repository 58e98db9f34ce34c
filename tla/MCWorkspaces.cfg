SPECIFICATION FairSpec
CONSTANTS
  Null = Null
  ana = ana
  rival = rival
  c1 = c1
  Case = {c1}
  Analyst = {ana, rival}
  Me = ana
  IdOrder <- MCIdOrder
  Earlier <- MCEarlier
  FirstDay = 6
  LastDay = 7
  Answers = {"BEN_YAPMADIM"}
  Verdicts = {"BLOKLANDI"}
  MaxAsks = 1
  Scenes <- MCScenes
INVARIANTS
  AnswersMeetAQuestion
  PointsComeWithTheirBadge
PROPERTIES
  PagesCatchUp
CHECK_DEADLOCK FALSE
