SPECIFICATION FairSpec
CONSTANTS
  None = None
  MaxEntries = 2
  Ttl = 1
  MaxTemperatures = {2, 3}
  Callers <- Groups
INVARIANTS
  RetryToldWhy
PROPERTIES
  AnswersAreFresh
  PoisonPasses
