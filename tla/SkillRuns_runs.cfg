SPECIFICATION FairSpec
CONSTANTS
  tick = tick
  engine = engine
  None = None
  Caller <- Callers
  Tick = tick
  Minute = 1
  Limits <- OneLimit
  MaxNow = 1
  MaxRecords = 2
  MaxEdits = 1
  MaxFaults = 1
INVARIANTS
  GrantsBounded
  NoStaleDependencies
  AckedIsDurable
PROPERTIES
  DisturbedOnlyByChange
  EveryRunEnds
CHECK_DEADLOCK FALSE
