SPECIFICATION FairSpec
CONSTANTS
  tick = tick
  engine = engine
  None = None
  Caller <- Callers
  Tick = tick
  Minute = 1
  Limits <- OneLimit
  MaxNow = 1
  MaxRecords = 1
  MaxEdits = 1
  MaxFaults = 1
INVARIANTS
  TypeOK
  NoChildLeft
PROPERTY
  EveryWaiterEnters
\* Each of these in their place is violated:
\*   PROPERTY ResultIsReturned
CHECK_DEADLOCK FALSE
