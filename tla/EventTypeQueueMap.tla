-------------------------- MODULE EventTypeQueueMap --------------------------
(***************************************************************************)
(* The routing table of contrib/sqs/publisher.go. Event types and prefixes *)
(* are sequences, because what is matched is their beginning. Each method  *)
(* holds the lock from its first statement to its last, so each is one     *)
(* step.                                                                   *)
(***************************************************************************)
EXTENDS Integers, Sequences, SequencesExt

CONSTANTS
  EventTypes,    \* the event types of messages, as sequences
  Patterns,      \* the prefixes that are registered, as sequences
  Queues,        \* queue URLs
  DefaultQueue,  \* the argument of NewEventTypeQueueMap
  NoQueue        \* no entry

Strings == Seq(STRING)

ASSUME RouterAssumption ==
  /\ EventTypes \subseteq Strings
  /\ Patterns \subseteq Strings
  /\ DefaultQueue \in Queues
  /\ NoQueue \notin Queues

VARIABLES
  routes,     \* the exact routes, NoQueue where there is none
  prefixes,   \* the prefix routes in the order of the slice
  registered  \* history: the last queue that each prefix was registered with

routerVars == <<routes, prefixes, registered>>

PrefixRoute == [prefix : Patterns, queueURL : Queues]

RouterTypeOK ==
  /\ routes \in [EventTypes -> Queues \cup {NoQueue}]
  /\ prefixes \in Seq(PrefixRoute)
  /\ registered \in [Patterns -> Queues \cup {NoQueue}]

NewEventTypeQueueMap ==
  /\ routes = [t \in EventTypes |-> NoQueue]
  /\ prefixes = <<>>
  /\ registered = [p \in Patterns |-> NoQueue]

Register(eventType, queueURL) ==
  /\ routes' = [routes EXCEPT ![eventType] = queueURL]
  /\ UNCHANGED <<prefixes, registered>>

\* The slice without the first entry for the prefix.
Without(prefix) ==
  LET i == SelectInSeq(prefixes, LAMBDA r : r.prefix = prefix)
  IN  IF i = 0 THEN prefixes ELSE RemoveAt(prefixes, i)

\* Insert before the first entry with a shorter prefix, else at the end.
Insert(s, route) ==
  LET i == SelectInSeq(s, LAMBDA r : Len(route.prefix) > Len(r.prefix))
  IN  IF i = 0 THEN Append(s, route) ELSE InsertAt(s, i, route)

\* Mutant: the entry is appended, so that the order is that of registration.
AppendPrefix(prefix, queueURL) ==
  /\ prefixes' = Append(Without(prefix), [prefix |-> prefix, queueURL |-> queueURL])
  /\ registered' = [registered EXCEPT ![prefix] = queueURL]
  /\ UNCHANGED routes

RegisterPrefix(prefix, queueURL) ==
  /\ prefixes' = Insert(Without(prefix), [prefix |-> prefix, queueURL |-> queueURL])
  /\ registered' = [registered EXCEPT ![prefix] = queueURL]
  /\ UNCHANGED routes

QueueURL(eventType) ==
  LET i == SelectInSeq(prefixes, LAMBDA r : IsPrefix(r.prefix, eventType))
  IN  IF routes[eventType] # NoQueue THEN routes[eventType]
      ELSE IF i # 0 THEN prefixes[i].queueURL
      ELSE DefaultQueue

-----------------------------------------------------------------------------
(* Properties *)

\* The prefixes that have been registered and that the event type begins with.
Matching(eventType) ==
  {p \in Patterns : registered[p] # NoQueue /\ IsPrefix(p, eventType)}

\* q is where the documented priority sends the event type: exact match, longest
\* registered prefix, default queue.
Rule(eventType, q) ==
  \/ routes[eventType] # NoQueue /\ q = routes[eventType]
  \/ /\ routes[eventType] = NoQueue
     /\ \E p \in Matching(eventType) :
          /\ q = registered[p]
          /\ \A o \in Matching(eventType) : Len(o) <= Len(p)
  \/ /\ routes[eventType] = NoQueue
     /\ Matching(eventType) = {}
     /\ q = DefaultQueue

\* In whatever order prefixes are registered, and registered again with another
\* queue, QueueURL follows "exact match > longest prefix match > default queue".
LongestPrefixWins == \A t \in EventTypes : Rule(t, QueueURL(t))
=============================================================================
