SPECIFICATION FairAdapter
CONSTANTS
  Nothing = Nothing
  User = {"ann", "bob"}
  Receiver <- Slots
  Chat = {"hall", "den", "shut"}
  Closed = {"shut"}
  CacheMax = 1
  Scenario <- Platforms
INVARIANTS
  HeardOnceInOrder
  AnswerStaysWithUser
PROPERTIES
  VoiceForVoice
  SpeechIsTaken
CHECK_DEADLOCK FALSE
