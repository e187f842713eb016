SPECIFICATION FairSpec
CONSTANTS
  None = None
  Message = {1, 2}
  History = 1
  Keep = 1
  Day = 2
  Quiet <- QuietHours
  MaxNow = 2
  MaxFaults = 1
INVARIANTS
  AnswerFollowsQuestion
  TrimKeepsHistory
PROPERTY
  EveryReplyIsStored
CHECK_DEADLOCK FALSE
