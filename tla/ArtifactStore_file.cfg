SPECIFICATION Spec
CONSTANTS
  u1 = u1
  u2 = u2
  ka = ka
  kb = kb
  kc = kc
  Units = {u1, u2}
  Chunks = {ka, kb, kc}
  Outputs <- MCDistinct
  Size <- MCSize
  ManifestSize = 1
  MaxBytes = 6
  Routes = {"file"}
  MaxCrashes = 0
  MaxDamage = 0
PROPERTIES
  RefusalIsReal
