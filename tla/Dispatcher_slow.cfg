SPECIFICATION Spec

CONSTANTS
  BackoffBase = 1
  BackoffMax = 1
  StuckThreshold = 1
  TicksPerSecond = 1
  Retention = 1
  CleanStatuses = {"PUBLISHED", "DEAD"}
  AgeCap = 2
  Msgs = {1, 2}
  Procs = {p1, p2}
  Slots = {s1}
  MaxAttempts = {1, 3}
  FaultKinds = {"crash", "revive", "fetch", "update"}
  MaxFaults = 1
  MaxStops = 0
  Permanent = TRUE
  SlowPublish = TRUE
  LateRestart = FALSE
  p1 = p1
  p2 = p2
  s1 = s1

SYMMETRY Symmetry

INVARIANTS
  PublishedWasSent
  LossIsBounded
  RetryLimit
  GormAgrees

PROPERTIES
  SettledIsFinal
  KeepsPromise
