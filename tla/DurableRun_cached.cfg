SPECIFICATION FairSpec
CONSTANTS
  u1 = u1
  u2 = u2
  u3 = u3
  a = a
  b = b
  c = c
  d = d
  Procs = {1, 2}
  Plan <- MCPlan
  Needs <- MCNeeds
  Results <- MCResults
  Bytes <- MCBytes
  MaxBytes = 3
  Walls = {1}
  MaxWall = 10
  RssSamples = {1}
  MaxRss = 1
  Cached = TRUE
  MaxCrashes = 1
  MaxDamage = 1
  MaxSequence = 3
  MaxAccounts = 3
INVARIANTS
  GoldenLog
  ResultsAgree
PROPERTIES
  HistoryAppendOnly
  Completes
  DamageFailsClosed
