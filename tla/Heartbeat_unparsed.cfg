SPECIFICATION FairHeartbeat
CONSTANTS
  Unparsed = Unparsed
  User = {u1}
  Day = 8
  Default = 1
  Shortest = 1
  Longest = 2
  QuietSettings <- OnlyUnparsed
  FirstQuiet <- Night
  ConfigQuiet <- Night
  MaxBusy = 1
  MaxChanges = 1
  MaxRestarts = 0
CHECK_DEADLOCK FALSE
PROPERTY
  HeartbeatGoesOn
