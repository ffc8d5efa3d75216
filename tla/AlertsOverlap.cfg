SPECIFICATION Spec
CONSTANTS
  f1 = f1
  f2 = f2
  f3 = f3
  Group <- OneAlert
  Request = {r1, r2}
  Patcher = {p1, p2}
  Unstorable = {}
  Overlap = TRUE
  None = None
  MaxVersion = 2
  MaxRows = 3
  MaxDeaths = 0
SYMMETRY RequestSymmetry
INVARIANTS TypeOK RowsBounded
PROPERTIES OnlyPatchUnacks
CHECK_DEADLOCK FALSE
