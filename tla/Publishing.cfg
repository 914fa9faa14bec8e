SPECIFICATION Spec

CONSTANTS
  EventTypes <- MCEventTypes
  Patterns <- MCPatterns
  TypeOf <- MCTypeOf
  WorkerID <- SameID
  Queues = {q1, q2}
  DefaultQueue = q1
  NoQueue = NoQueue
  Workers = {w1, w2}
  Durations = {1, 2}
  Msgs = {1, 2, 3}
  TooLarge = {2}
  BatchSize = 2
  MaxFetches = 2
  MaxRegistrations = 2
  q1 = q1
  q2 = q2
  w1 = w1
  w2 = w2

SYMMETRY Symmetry

CHECK_DEADLOCK FALSE

INVARIANTS
  LongestPrefixWins
  ExtremesAreExact
  ReportedWasAccepted
  CountsAddUp

PROPERTIES
  EveryMessageIsAnswered
