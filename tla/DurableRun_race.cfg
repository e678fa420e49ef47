SPECIFICATION Spec
CONSTANTS
  u1 = u1
  u2 = u2
  u3 = u3
  a = a
  b = b
  c = c
  d = d
  Procs = {1, 2}
  Plan <- MCPlan
  Needs <- MCNeeds
  Results <- MCResults
  Bytes <- MCBytes
  MaxBytes = 3
  Walls = {1}
  MaxWall = 10
  RssSamples = {1}
  MaxRss = 1
  Cached = FALSE
  MaxCrashes = 1
  MaxDamage = 0
  MaxSequence = 6
  MaxAccounts = 3
PROPERTIES
  HistoryAppendOnly
