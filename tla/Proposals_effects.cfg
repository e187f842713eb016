SPECIFICATION Spec
CONSTANTS
  p1 = p1
  p2 = p2
  u1 = u1
  u2 = u2
  Proposal = {p1, p2}
  User = {u1, u2}
  SystemUser = SystemUser
  NoProposal = NoProposal
  Owner <- OwnerPair
  KindOf <- KindsWithEffect
  Asked <- AskedValid
  MaxCrashes = 1
INVARIANTS
  ConsentBeforeHandling
  HandledOncePerLife
  VerdictStands
  ExecutedTookEffect
PROPERTY
  LifecycleSpec
