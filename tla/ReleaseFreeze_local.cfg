SPECIFICATION FairSpec
CONSTANTS
  p1 = p1
  p2 = p2
  w1 = w1
  b1 = b1
  b2 = b2
  NoFile = NoFile
  None = None
  RenamesOverEmpty = TRUE
  Freezers = {p1}
  Workspaces = {w1}
  Files = {1, 2}
  Bytes = {b1, b2}
  MaxEdits = 3
  MaxCrashes = 1
  MaxFaults = 2
INVARIANTS
  FreezeInv
  FailedFreezeLeavesNothing
PROPERTIES
  NeverOverwritten
  EventuallyFrozen
