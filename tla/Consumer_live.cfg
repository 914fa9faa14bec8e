SPECIFICATION FairSpec

CONSTANTS
  Visibility = 1
  Copies = {1, 2}
  Events = {1, 2}
  EventOf <- OneEach
  KindOf <- AutoAndTx
  NewEvents = {}
  UnknownTypes = "fallback"
  UniqueWork = FALSE
  Fifo = TRUE
  MaxNumberOfMessages = 2
  MessageConcurrency = 1
  MaxAttempts = 2
  Procs = {p1, p2}
  Slots = {s1}
  InboxRetention = 0
  EarlyPurge = FALSE
  SlowHandler = FALSE
  FaultKinds = {"crash", "receive", "handler", "delete"}
  MaxFaults = 1
  MaxStops = 1
  MaxReceives = 4
  p1 = p1
  p2 = p2
  s1 = s1

INVARIANTS
  NoConcurrentHandling
  AtMostOnce

PROPERTIES
  EventuallyHandled
  StopCompletes
