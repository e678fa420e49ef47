SPECIFICATION FairSpec
CONSTANTS
  u1 = u1
  u2 = u2
  ka = ka
  kb = kb
  kc = kc
  Units = {u1, u2}
  Chunks = {ka, kb, kc}
  Outputs <- MCDistinct
  Size <- MCSize
  ManifestSize = 1
  MaxBytes = 30
  Routes = {"bytes", "file"}
  MaxCrashes = 2
  MaxDamage = 0
PROPERTIES
  EveryUnitStored
