SPECIFICATION FairSpec
CONSTANTS
  None = None
  Empty = Empty
  Feeling = {"calm", "joy"}
  Calm = "calm"
  NoFeeling = NoFeeling
  Top = 4
  Baseline = 1
  Threshold = 1
  Name = {"Mira"}
  Skill = {"draw"}
  Base <- Tables
  Vector <- VectorTables
  MaxUpdates = 2
  MaxKills = 2
  MaxRuns = 2
INVARIANTS
  LossOnlyByTear
  VectorTablesThere
PROPERTY
  ShutdownEnds
CHECK_DEADLOCK FALSE
