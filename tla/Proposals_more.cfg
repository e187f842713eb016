SPECIFICATION Spec
CONSTANTS
  p1 = p1
  p2 = p2
  u1 = u1
  u2 = u2
  Proposal = {p1, p2}
  User = {u1, u2}
  SystemUser = SystemUser
  NoProposal = NoProposal
  Owner <- OneOwner
  KindOf <- KindsRecorded
  Asked <- AskedValid
  MaxCrashes = 1
INVARIANTS
  TypeOK
  ConsentBeforeHandling
  HandledOncePerLife
  VerdictStands
  ExecutedTookEffect
PROPERTY
  LifecycleSpec
\* Each of these in their place is violated:
\*   INVARIANT ApprovalIsActedOn
\*   INVARIANT RejectionIsFinal
\*   INVARIANT ValidSkillInstalls
