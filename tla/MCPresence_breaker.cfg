SPECIFICATION FairSpec

CONSTANTS
  beat = beat
  page1 = page1
  page2 = page2
  Callers = {beat, page1, page2}
  Threshold = 2
  OpenFor = 2
  MaxAttempts = 2
  MaxFailures = 4
  MaxCancels = 1
  Timeout <- MCTimeout

INVARIANTS
  TypeOK
  OneProbe
  ClosedByCount

PROPERTIES
  WaitsAfterFailure
  RecoversIfProbeStays
