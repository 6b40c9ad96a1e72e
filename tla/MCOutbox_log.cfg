SPECIFICATION FairSpec

CONSTANTS
  Rooms = {c1}
  Senders = {s1}
  Keys = {k1}
  NoKey = NoKey
  Handlers = {h1}
  Nodes = {n1, n2}
  Nobody = Nobody
  BatchSize = 1
  MaxSeq = 2
  MaxId = 2
  MaxCopies = 1
  MaxStops = 1

INVARIANTS
  NothingForgotten

PROPERTIES
  ImplementsLog
  OutboxDrains

CHECK_DEADLOCK FALSE
