SPECIFICATION FairSpec
CONSTANTS
  None = None
  MaxEntries = 2
  Ttl = 1
  MaxTemperatures = {2, 3}
  Callers <- Groups
INVARIANTS
  TypeOK
  FallbackIsLast
PROPERTY
  CallsEnd
\* Each of these in their place is violated:
\*   INVARIANT NoEmptyReply
\*   PROPERTY OddIsRetried
\*   PROPERTY EveryRetryAsks
