SPECIFICATION Spec

CONSTANTS
  Rooms = {c1}
  Senders = {s1}
  Keys = {k1}
  NoKey = NoKey
  Handlers = {h1, h2}
  Nodes = {n1, n2}
  Nobody = Nobody
  BatchSize = 2
  MaxSeq = 2
  MaxId = 3
  MaxCopies = 2
  MaxStops = 0

SYMMETRY NodeSymmetry

INVARIANTS
  TypeOK
  SeqGapFree
  RepliesHold
  FirstCopyOrder
  IInv

CHECK_DEADLOCK FALSE
