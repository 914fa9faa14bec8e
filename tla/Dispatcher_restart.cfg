SPECIFICATION FairSpec

CONSTANTS
  BackoffBase = 1
  BackoffMax = 1
  StuckThreshold = 1
  TicksPerSecond = 1
  Retention = 1
  CleanStatuses = {}
  AgeCap = 2
  Msgs = {1, 2}
  Procs = {p1, p2}
  Slots = {s1}
  MaxAttempts = {3}
  FaultKinds = {"crash"}
  MaxFaults = 1
  MaxStops = 1
  Permanent = TRUE
  SlowPublish = FALSE
  LateRestart = TRUE
  p1 = p1
  p2 = p2
  s1 = s1

INVARIANTS
  HeldIsPublishing
  ExclusiveOwner
  FailedIsRetryable
  CrashIsRepaired

PROPERTIES
  EventuallySettled
