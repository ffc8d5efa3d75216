SPECIFICATION FairSpec
CONSTANTS
  f1 = f1
  f2 = f2
  f3 = f3
  Group <- ThreeAlerts
  Request = {r1}
  Patcher = {}
  Unstorable = {f3}
  Overlap = FALSE
  None = None
  MaxVersion = 3
  MaxRows = 3
  MaxDeaths = 1
INVARIANTS OneRowPerAlert AnsweredIsShown
PROPERTIES ShownInTheEnd TableIsBoard
