SPECIFICATION Spec
CONSTANTS
  None = None
  Message = {1, 2}
  History = 4
  Keep = 4
  Day = 3
  Quiet <- QuietHours
  MaxNow = 0
  MaxFaults = 0
CHECK_DEADLOCK FALSE
PROPERTY
  PriorExchangeInPrompt
