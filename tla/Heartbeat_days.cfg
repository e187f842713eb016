SPECIFICATION FairHeartbeat
CONSTANTS
  Unparsed = Unparsed
  User = {u1, u2}
  Day = 8
  Default = 1
  Shortest = 1
  Longest = 8
  QuietSettings <- Settings
  FirstQuiet <- Night
  ConfigQuiet <- Night
  MaxBusy = 1
  MaxChanges = 1
  MaxRestarts = 1
INVARIANTS
  SleepsOnceUndisturbed
  OnlyOversleptIsMissed
PROPERTY
  LoopSurvives
CHECK_DEADLOCK FALSE
