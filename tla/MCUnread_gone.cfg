SPECIFICATION Spec

CONSTANTS
  m1 = m1
  m2 = m2
  u1 = u1
  u2 = u2
  Messages = {m1}
  Poison = {}
  Copies = 1
  Nodes = {n1, n2}
  MaxDeliver = 2
  StreamAge = 1
  InboxAge = 2
  RepublishAge = 1
  MaxClock = 0
  MaxFailures = 3
  MaxCrashes = 0
  Users <- MCUsers
  SenderOf <- MCSenderOf

INVARIANTS
  NeverSilentlyGone

CHECK_DEADLOCK FALSE
