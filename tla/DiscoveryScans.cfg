SPECIFICATION FairSpec
CONSTANTS
  a1 = a1
  a2 = a2
  a3 = a3
  left = left
  right = right
  bad = bad
  Job = {j1, j2}
  Address = {a1, a2, a3}
  Name = {n1}
  UserName = {n1}
  Subnet = {left, right, bad}
  HostsOf <- MCHostsOf
  None = None
INVARIANTS TypeOK CountsHonest NoHostLeftOut
PROPERTIES NeverOverwrites ScanEnds
