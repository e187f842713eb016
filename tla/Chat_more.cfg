SPECIFICATION FairSpec
CONSTANTS
  None = None
  Message = {1, 2}
  History = 1
  Keep = 1
  Day = 2
  Quiet <- QuietHours
  MaxNow = 2
  MaxFaults = 1
INVARIANTS
  TypeOK
  FailedExchangeIsNotSaved
  StoredSurvives
CHECK_DEADLOCK FALSE
