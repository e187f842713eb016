SPECIFICATION FairAdapter
CONSTANTS
  Nothing = Nothing
  User = {"ann", "bob"}
  Receiver <- Slots
  Chat = {"hall", "den", "shut"}
  Closed = {"shut"}
  CacheMax = 1
  Scenario <- Platforms
INVARIANTS
  AdapterTypeOK
  NothingVanishes
  RunningIsRegistered
PROPERTY
  TypingEnds
\* Each of these in their place is violated:
\*   INVARIANT RunsUntilStopped
\*   PROPERTY SpeechDegrades
\*   PROPERTY TypingOnlyWhileProcessed
CHECK_DEADLOCK FALSE
