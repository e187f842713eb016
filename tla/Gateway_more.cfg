SPECIFICATION FairSpec
CONSTANTS
  a1 = a1
  a2 = a2
  n1 = n1
  n2 = n2
  None = None
  Adapter = {a1}
  Name = {n1}
  NameOf <- OneName
  Trusted = {a1}
  Socket = {s1, s2}
  Message = {1, 2}
  Sender <- TwoOfOne
  ReplyType <- ChatThenCommand
  MaxFaults = 1
INVARIANTS
  TypeOK
  AnswersComeHome
\* Each of these in their place is violated:
\*   INVARIANT AnswersAreShown
\*   PROPERTY ListeningIsReachable
CHECK_DEADLOCK FALSE
