SPECIFICATION Spec
CONSTANTS
  None = None
  Message = {1}
  History = 2
  Keep = 2
  Day = 3
  Quiet <- QuietHours
  MaxNow = 4
  MaxFaults = 0
CHECK_DEADLOCK FALSE
PROPERTY
  EveryDayIsReviewed
