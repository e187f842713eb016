SPECIFICATION HeartbeatSpec
CONSTANTS
  Unparsed = Unparsed
  User = {u1}
  Day = 8
  Default = 1
  Shortest = 1
  Longest = 8
  QuietSettings <- NoSettings
  FirstQuiet <- Night
  ConfigQuiet <- Night
  MaxBusy = 1
  MaxChanges = 0
  MaxRestarts = 0
CHECK_DEADLOCK FALSE
INVARIANT
  NoWindowIsMissed
