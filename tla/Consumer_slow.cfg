SPECIFICATION Spec

CONSTANTS
  Visibility = 1
  Copies = {1, 2}
  Events = {1, 2}
  EventOf <- OneEach
  KindOf <- BareAndTx
  NewEvents = {1}
  UnknownTypes = "error"
  UniqueWork = TRUE
  Fifo = FALSE
  MaxNumberOfMessages = 2
  MessageConcurrency = 2
  MaxAttempts = 2
  Procs = {p1, p2}
  Slots = {s1}
  InboxRetention = 1
  EarlyPurge = TRUE
  SlowHandler = TRUE
  FaultKinds = {"crash", "receive", "handler", "delete"}
  MaxFaults = 1
  MaxStops = 1
  MaxReceives = 2
  p1 = p1
  p2 = p2
  s1 = s1

SYMMETRY Symmetry

INVARIANTS
  NothingLost
  CompletedIsDone
  AtMostOnce

PROPERTIES
  ImplementsReception
