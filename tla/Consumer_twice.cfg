SPECIFICATION Spec

CONSTANTS
  Visibility = 1
  Copies = {2, 3}
  Events = {2}
  EventOf <- Duplicated
  KindOf <- AutoAndTx
  NewEvents = {}
  UnknownTypes = "error"
  UniqueWork = FALSE
  Fifo = FALSE
  MaxNumberOfMessages = 2
  MessageConcurrency = 1
  MaxAttempts = 2
  Procs = {p1, p2}
  Slots = {s1}
  InboxRetention = 1
  EarlyPurge = FALSE
  SlowHandler = FALSE
  FaultKinds = {"crash", "receive", "handler", "delete"}
  MaxFaults = 0
  MaxStops = 0
  MaxReceives = 3
  p1 = p1
  p2 = p2
  s1 = s1

SYMMETRY Symmetry

INVARIANTS
  AtMostOnce
