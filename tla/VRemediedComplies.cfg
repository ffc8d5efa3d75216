SPECIFICATION Spec
CONSTANTS
  Container = {web, worker}
  Seeded <- OneRule
  Name = {"http"}
  Text = {"http"}
  None = None
  MaxRules = 1
  MaxFailures = 0
  MaxStops = 0
  Web = web
  Worker = worker
  Device = {d1}
  Run = {k1}
  UserRule <- NoUserRule
  Filter <- AllOrFirst
  MaxEdits = 0
INVARIANTS RemediedComplies
CHECK_DEADLOCK FALSE
