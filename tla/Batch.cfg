SPECIFICATION MCFairSpec

CONSTANTS
  QueueOf <- TwoQueues
  BackoffBase = 1
  BackoffMax = 1
  StuckThreshold = 1
  TicksPerSecond = 1
  Retention = 1
  CleanStatuses = {"PUBLISHED", "DEAD"}
  AgeCap = 2
  Msgs = {1, 2}
  Procs = {p1}
  Slots = {s1, s2}
  MaxAttempts = {3}
  FaultKinds = {"crash", "revive", "fetch", "update"}
  MaxFaults = 1
  MaxStops = 1
  SlowPublish = TRUE
  LateRestart = FALSE
  BatchSize = 2
  Queues = {0, 1}
  TooLarge = {2}
  p1 = p1
  s1 = s1
  s2 = s2

INVARIANTS
  PublishedWasSent
  ReportedIsPublished
  LossIsBounded
  TimelyIsOwned

PROPERTIES
  KeepsPromise
  TimelyIsSettled
