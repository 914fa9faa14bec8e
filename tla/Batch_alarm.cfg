SPECIFICATION MCSpec

CONSTANTS
  QueueOf <- TwoQueues
  BackoffBase = 1
  BackoffMax = 1
  StuckThreshold = 1
  TicksPerSecond = 1
  Retention = 1
  CleanStatuses = {"PUBLISHED", "DEAD"}
  AgeCap = 2
  Msgs = {1}
  Procs = {p1}
  Slots = {s1}
  MaxAttempts = {3}
  FaultKinds = {"update"}
  MaxFaults = 1
  MaxStops = 0
  SlowPublish = FALSE
  LateRestart = FALSE
  BatchSize = 2
  Queues = {0, 1}
  TooLarge = {}
  p1 = p1
  s1 = s1

INVARIANTS
  AlarmedIsDead
