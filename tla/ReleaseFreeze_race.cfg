SPECIFICATION Spec
CONSTANTS
  p1 = p1
  p2 = p2
  w1 = w1
  b1 = b1
  b2 = b2
  NoFile = NoFile
  None = None
  RenamesOverEmpty = FALSE
  Freezers = {p1, p2}
  Workspaces = {w1}
  Files = {1, 2}
  Bytes = {b1, b2}
  MaxEdits = 1
  MaxCrashes = 0
  MaxFaults = 0
PROPERTIES
  NeverOverwritten
