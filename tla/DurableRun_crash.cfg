SPECIFICATION Spec
CONSTANTS
  u1 = u1
  u2 = u2
  u3 = u3
  a = a
  b = b
  c = c
  d = d
  Procs = {1}
  Plan <- MCPlan
  Needs <- MCNeeds
  Results <- MCDrifting
  Bytes <- MCBytes
  MaxBytes = 3
  Walls = {0, 1}
  MaxWall = 3
  RssSamples = {1, 2}
  MaxRss = 1
  Cached = FALSE
  MaxCrashes = 3
  MaxDamage = 1
  MaxSequence = 3
  MaxAccounts = 6
INVARIANTS
  CheckpointInv
PROPERTIES
  ArtifactsImmutable
  CapacityExceededIsFinal
  LedgerSpec
