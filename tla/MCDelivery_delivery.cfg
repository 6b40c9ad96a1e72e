CONSTANTS
  n1 = n1
  n2 = n2
  Nodes = {n1, n2}
  Clustered = TRUE
  DefaultPageSize = 1
  MaxPageSize = 1
  GapLimit = 2
  HistoryLimit = 1
  Buffer = 1
  MaxSeq = 2
  MaxFaults = 1
SYMMETRY NodeSymmetry
SPECIFICATION Spec
CHECK_DEADLOCK FALSE
INVARIANTS
  TypeOK
  HolesHaveACause
  PagesLeaveNoHole
  FillLosesNothing
