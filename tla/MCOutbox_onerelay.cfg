SPECIFICATION Spec

CONSTANTS
  Rooms = {c1}
  Senders = {s1}
  Keys = {}
  NoKey = NoKey
  Handlers = {h1}
  Nodes = {n1, n2}
  Nobody = Nobody
  BatchSize = 2
  MaxSeq = 2
  MaxId = 3
  MaxCopies = 1
  MaxStops = 0

INVARIANTS
  OneNodeDrains

CHECK_DEADLOCK FALSE
