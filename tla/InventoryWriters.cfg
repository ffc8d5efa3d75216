SPECIFICATION Spec
CONSTANTS
  User = {root, u1}
  Superuser = {root}
  None = None
  Device = {d1, d2}
  Text = {t1, t2}
  Entered = {"maintenance"}
  Request = {r1, r2}
  Check = {k1, k2}
  MaxRoles = 1
SYMMETRY Symmetry
INVARIANTS TypeOK EditsOutliveChecks StatusIsKnown RefreshChecksAll
PROPERTIES OnlyTheEntitledWrite OnlyPatchRevives
CHECK_DEADLOCK FALSE
