SPECIFICATION Spec
CONSTANTS
  s1 = s1
  s2 = s2
  h1 = h1
  w1 = w1
  w2 = w2
  r1 = r1
  NoWorker = NoWorker
  NoHolder = NoHolder
  NoEvent = NoEvent
  Procs = {s1, s2}
  Holders = {h1}
  Identity <- MCIdentity
  Requests = {r1}
  Workers = {w1, w2}
  Sources = {}
  Events = {}
  Sweeps = {}
  Providers = {}
  TimingFrozen = TRUE
  MaxGeneration = 2
  MaxBeats = 1
  MaxSequence = 2
  MaxAttempts = 1
SYMMETRY WorkerSymmetry
INVARIANTS
  OneWorkerPerRequest
