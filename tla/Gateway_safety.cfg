SPECIFICATION Spec
CONSTANTS
  a1 = a1
  a2 = a2
  n1 = n1
  n2 = n2
  None = None
  Adapter = {a1, a2}
  Name = {n1, n2}
  NameOf <- OwnNames
  Trusted = {a1}
  Socket = {s1, s2, s3}
  Message = {1, 2}
  Sender <- TwoOfOne
  ReplyType <- ChatThenCommand
  MaxFaults = 2
SYMMETRY Sockets
INVARIANTS
  RegisteredIsServed
  InOrder
PROPERTY
  DeliverySpec
CHECK_DEADLOCK FALSE
