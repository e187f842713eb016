SPECIFICATION FairSpec
CONSTANTS
  p1 = p1
  p2 = p2
  u1 = u1
  u2 = u2
  Proposal = {p1, p2}
  User = {u1}
  SystemUser = SystemUser
  NoProposal = NoProposal
  Owner <- OneOwner
  KindOf <- KindsRecorded
  Asked <- AskedValid
  MaxCrashes = 1
PROPERTIES
  ApprovedIsResolved
  StaleIsExpired
