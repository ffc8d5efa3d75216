SPECIFICATION Spec
CONSTANTS
  f1 = f1
  f2 = f2
  f3 = f3
  Group <- OneAlert
  Request = {r1, r2}
  Patcher = {}
  Unstorable = {}
  Overlap = TRUE
  None = None
  MaxVersion = 3
  MaxRows = 2
  MaxDeaths = 0
INVARIANTS OneRowPerAlert
