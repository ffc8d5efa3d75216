SPECIFICATION FairSpec
CONSTANTS
  Container = {web, worker}
  Seeded <- OneRule
  Name = {"http", "own"}
  Text = {"http", "bad"}
  None = None
  MaxRules = 3
  MaxFailures = 1
  MaxStops = 1
  Web = web
  Worker = worker
  Device = {d1}
  Run = {k1}
  UserRule <- BadRegex
  Filter <- AllOrFirst
  MaxEdits = 2
INVARIANTS TypeOK ServesOnlyReady AuditMatchesChecks VerdictsAreHeard
CHECK_DEADLOCK FALSE
PROPERTIES SwitchKept RunEnds AllServe
