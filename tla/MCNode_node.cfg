CONSTANTS
  alice = alice
  r1 = r1
  Sockets = {s1}
  Users = {alice}
  Owner <- MCOwner
  Requests = {r1}
  Askers <- MCAskers
  SendBuffer = 1
  BroadcastBuffer = 1
  MaxFrames = 2
SPECIFICATION FairSpec
INVARIANTS
  TypeOK
  NoPanic
  MapIsExact
  KeptMeansComplete
  ReadyMeansWhole
  ClosedIsUnused
  RelayOutlivesRequests
PROPERTIES
  ShutdownEnds
  NoSocketLingers
