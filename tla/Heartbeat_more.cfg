SPECIFICATION FairHeartbeat
CONSTANTS
  Unparsed = Unparsed
  User = {u1, u2}
  Day = 8
  Default = 1
  Shortest = 1
  Longest = 2
  QuietSettings <- Settings
  FirstQuiet <- Night
  ConfigQuiet <- Noon
  MaxBusy = 1
  MaxChanges = 1
  MaxRestarts = 1
INVARIANTS
  HeartbeatTypeOK
PROPERTY
  BothKindsOfTick
\* Each of these in their place is violated:
\*   INVARIANT SleepsOncePerWindow
\*   PROPERTY QuietInQuietHours
\*   PROPERTY ConfiguredHoursAreQuiet
CHECK_DEADLOCK FALSE
