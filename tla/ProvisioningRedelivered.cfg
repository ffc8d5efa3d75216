SPECIFICATION Spec
CONSTANTS
  Job = {j1}
  Device = {d1}
  Template = {t1}
  good = good
  bad = bad
  Body <- MCBody
  BadBody <- MCBadBody
  None = None
  MaxDeliveries = 2
INVARIANTS TaskFindsJob SuccessIsSaved OnlyRenderedConfig AuditTrail StatusExplained
