SPECIFICATION FairSpec

CONSTANTS
  BackoffBase = 1
  BackoffMax = 1
  StuckThreshold = 1
  TicksPerSecond = 1
  Retention = 1
  CleanStatuses = {"PUBLISHED", "DEAD"}
  AgeCap = 2
  Msgs = {1}
  Procs = {p1}
  Slots = {s1}
  MaxAttempts = {3}
  FaultKinds = {"crash"}
  MaxFaults = 1
  MaxStops = 0
  Permanent = TRUE
  SlowPublish = FALSE
  LateRestart = FALSE
  p1 = p1
  s1 = s1

PROPERTIES
  PublishingIsTransient
