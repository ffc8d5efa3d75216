SPECIFICATION FairSpec
CONSTANTS
  Job = {j1}
  Device = {d1, d2}
  Template = {t1}
  good = good
  bad = bad
  Body <- MCBody
  BadBody <- MCBadBody
  None = None
  MaxDeliveries = 1
INVARIANTS TypeOK
PROPERTIES StatusProgress QueuedJobSettles JobContract
