SPECIFICATION Spec

CONSTANTS
  BackoffBase = 1
  BackoffMax = 1
  StuckThreshold = 1
  TicksPerSecond = 1
  Retention = 1
  CleanStatuses = {"PUBLISHED", "DEAD"}
  AgeCap = 2
  Msgs = {1}
  Procs = {p1, p2}
  Slots = {s1}
  MaxAttempts = {3}
  FaultKinds = {}
  MaxFaults = 0
  MaxStops = 0
  Permanent = TRUE
  SlowPublish = TRUE
  LateRestart = FALSE
  p1 = p1
  p2 = p2
  s1 = s1

INVARIANTS
  FailedIsRetryable
