CONSTANTS
  alice = alice
  n1 = n1
  n2 = n2
  Users = {alice}
  Nodes = {n1, n2}
  TicksPerSecond = 2
  TTL = 5
  Beat = 3
  BeatTimeout = 1
  AskTimeout = 1
  Linger = 1
  MaxTime = 14
  MaxMoves = 3
SYMMETRY NodeSymmetry
SPECIFICATION Spec
CHECK_DEADLOCK FALSE
INVARIANTS TypeOK NoBlink NoGhost
PROPERTY PruneInvisible
