SPECIFICATION Spec
CONSTANTS
  Packets = {1, 2, 3}
  NoPacket = NoPacket
  Offered <- MCOffered
  PullRequests = {p1, p2}
  NotMerged = NotMerged
  Others = {x1}
  Changes <- MCChanges
  MaxRuns = 2
  MaxEdits = 1
  MaxUnobserved = 3
  Transactions = {t1}
  Observations = {o1, o2}
  Completers = {1, 2}
  NoJob = NoJob
  MaxStops = 1
INVARIANTS
  
  AdmissionInv
  CompletionInv
PROPERTIES
  QueueSteps
  MovedEndsLease
  EveryRunEnds
CHECK_DEADLOCK FALSE
