SPECIFICATION Spec
CONSTANTS
  c1 = c1
  c2 = c2
  Publishers = {1, 2}
  Directories <- MCDirectories
  Frozen <- MCFrozen
  NoObject = NoObject
  NoCall = NoCall
  MaxChanges = 2
  Appenders = {1, 2}
  Streams = {s1}
  NoEvent = NoEvent
  NoLedger = NoLedger
  MaxEvents = 3
  Recorders = {1, 2}
  EventIds = {e1, e2}
  Bodies = {b1, b2}
  NoProgrammeEvent = NoProgrammeEvent
  MaxLines = 2
  Operators = {1, 2}
  Contents = {c1, c2}
  Times = {t1}
  Missing = Missing
  Broken = Broken
  NoWrite = NoWrite
  MaxFiles = 2
  Committers = {1, 2}
  Payloads = {p1, p2}
  Absent = Absent
  Garbage = Garbage
  MaxCheckpoints = 2
  EpisodeFrames <- MCEpisodeFrames
  CallerFrames <- MCCallerFrames
  NoOwner = NoOwner
  Candidates = {k1, k2}
  Intervals <- MCIntervals
  NoEnd = NoEnd
  MaxCalls = 4
  Segments = {1, 2}
  Structures = {1, 2}
  Parents = {1, 2}
  NoFrame = NoFrame
  MaxFrames = 3
  Intakers = {1, 2}
  Profiles = {"RPS", "A1", "A2"}
  LastDay = 4
  TargetDays = 3
  WeekendDays = {3}
  Markets <- MCMarkets
  MaxDenials = 2
  NoIntake = NoIntake
  NoDirectory = NoDirectory
  Vacant = Vacant
  Recoverers = {1, 2}
  PinnedFiles = {1, 2}
  Versions = {1, 2}
  Acceptable <- MCAcceptable
  NoRecovery = NoRecovery
  NoInventory = NoInventory
  Torn = Torn
  MaxTouches = 1
  Atlases = {1, 2}
  Generations = {1, 2}
  SourceCommit <- MCSourceCommit
  AtlasFiles = {1, 2}
  LastMain = 2
  MaxPublications = 3
  NoPublication = NoPublication
  NoPointer = NoPointer
  TornPointer = TornPointer
  Stages = {1, 2, 3}
  Attempts <- MCAttempts
  StageSpecs = {1, 2}
  StageContents = {1, 2}
  OpaqueIds = {1}
  CacheKeys = {1}
  Artifacts <- MCArtifacts
  NoArtifact = NoArtifact
  NoContent = NoContent
  MaxResumeRecords = 3
  MaxCacheCalls = 4
  Exporters = {1, 2}
  ExportFiles = {1, 2}
  NoExport = NoExport
  Nowhere = Nowhere
  MaxExports = 2
  MaxExportDirectories = 3
INVARIANTS
  JournalInv
  GenesisInv
  RecordsInv
  LineageInv
  RemoteInv
  EpisodeInv
  SourceInv
  AtlasInv
  ResumeInv
  ExportInv
PROPERTY
  FrozenImmutable
CHECK_DEADLOCK FALSE
