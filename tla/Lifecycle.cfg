SPECIFICATION FairSpec

CONSTANTS
  Callers = {c1, c2}
  WorkerCount = 2
  DefaultTimeout = 1
  Configs <- MCConfigs
  MaxStarts = 2
  c1 = c1
  c2 = c2

CHECK_DEADLOCK FALSE

INVARIANTS
  NoOrphans
  HealthyIsServing
  PanicNeedsOverlap

PROPERTIES
  ForcedInTime
  StopIsQuiet
  StopReturns
