SPECIFICATION Spec
CONSTANTS
  u1 = u1
  u2 = u2
  ka = ka
  kb = kb
  kc = kc
  Units = {u1, u2}
  Chunks = {ka, kb, kc}
  Outputs <- MCOutputs
  Size <- MCSize
  ManifestSize = 1
  MaxBytes = 7
  Routes = {"bytes", "file"}
  MaxCrashes = 3
  MaxDamage = 1
INVARIANTS
  TypeOK
  StoreInv
  CapacityInv
PROPERTIES
  PublishedSpec
