SPECIFICATION FairSpec
CONSTANTS
  Device = {d1}
  Config = {x, y}
  Check = {c1, c2}
  Promotion = {p1}
  Kinds = {"drift", "snapshot", "golden"}
  None = None
  MaxSnapshots = 2
INVARIANTS TypeOK ReportTruthful BaselineWasGolden GoldenHeld OneReportPerCheck
PROPERTIES TaskAnswered
