SPECIFICATION Spec
CONSTANTS
  Device = {d1}
  Config = {x}
  Check = {c1, c2}
  Promotion = {p1, p2}
  Kinds = {"snapshot"}
  None = None
  MaxSnapshots = 2
SYMMETRY CheckSymmetry
INVARIANTS OneGoldenPerDevice
