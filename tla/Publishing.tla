----------------------------- MODULE Publishing -----------------------------
(***************************************************************************)
(* The way of a batch through the instrumented batch dispatcher of         *)
(* examples/app/cmd/dispatcher-bench: a worker fetches, RecordFetch is     *)
(* called, MultiBatchPublisher of contrib/sqs/publisher.go looks up the    *)
(* queue of each message, sends one request per queue concurrently and     *)
(* returns, and RecordPublish is called. The routing table may be changed  *)
(* at any time. What the outbox table does with the results is the subject *)
(* of BatchDispatcher; here a message whose publishing failed is simply    *)
(* fetched again.                                                          *)
(***************************************************************************)
EXTENDS EventTypeQueueMap, Metrics

CONSTANTS
  Msgs,
  TypeOf,            \* the event_type of a message
  TooLarge,          \* the messages whose payload exceeds MaxSQSMessageSize
  BatchSize,
  MaxFetches,        \* bound on fetches
  MaxRegistrations   \* bound on changes of the routing table

ASSUME PublishingAssumption ==
  /\ IsFiniteSet(Msgs)
  /\ TypeOf \in [Msgs -> EventTypes]
  /\ TooLarge \subseteq Msgs
  /\ BatchSize \in Nat \ {0}
  /\ MaxFetches \in Nat
  /\ MaxRegistrations \in Nat

VARIABLES
  registrations,  \* changes of the routing table so far
  waiting,        \* the messages to fetch
  batch,          \* the messages a worker has fetched and not finished
  queueOf,        \* the queue that was looked up for a message of a batch
  result,         \* the PublishResult of a message of a batch
  accepted,       \* history: what the queues have accepted
  finished        \* history: the messages that were reported as published

callVars == <<waiting, batch, queueOf, result, accepted, finished>>
vars == <<routes, prefixes, registered, registrations, total, minTxn, maxTxn,
          workerStats, step, loaded, fetch, taken, waiting, batch, queueOf, result,
          accepted, finished>>

\* "unset": the zero value, neither Success nor Error.
Results == {"unset", "ok", "retryable", "permanent"}

TypeOK ==
  /\ RouterTypeOK
  /\ MetricsTypeOK
  /\ registrations \in 0..MaxRegistrations
  /\ waiting \subseteq Msgs
  /\ batch \in [Workers -> SUBSET Msgs]
  /\ queueOf \in [Msgs -> Queues \cup {NoQueue}]
  /\ result \in [Msgs -> Results]
  /\ accepted \subseteq Msgs \X Queues
  /\ finished \subseteq Msgs

Init ==
  /\ NewEventTypeQueueMap
  /\ NewMetricsCollector
  /\ registrations = 0
  /\ waiting = Msgs
  /\ batch = [w \in Workers |-> {}]
  /\ queueOf = [m \in Msgs |-> NoQueue]
  /\ result = [m \in Msgs |-> "unset"]
  /\ accepted = {}
  /\ finished = {}

Configure ==
  /\ registrations < MaxRegistrations
  /\ registrations' = registrations + 1
  /\ \E q \in Queues : \/ \E t \in EventTypes : Register(t, q)
                       \/ \E p \in Patterns : RegisterPrefix(p, q)
  /\ UNCHANGED <<metricsVars, callVars>>

Idle(w) == step[w] = "idle" /\ batch[w] = {}

\* The fetch returns, with messages, with none, or with an error, which is
\* recorded like an empty fetch.
FetchLockAndMarkPublishing(w) ==
  /\ Idle(w)
  /\ total["fetches"] < MaxFetches
  /\ \E S \in SUBSET waiting, d \in Durations :
       /\ Cardinality(S) <= BatchSize
       /\ batch' = [batch EXCEPT ![w] = S]
       /\ waiting' = waiting \ S
       /\ RecordFetch(w, d, Cardinality(S))
  /\ UNCHANGED <<routerVars, registrations, queueOf, result, accepted, finished>>

\* RecordFetch has returned and PublishBatch has been called.
Publishes(w) == step[w] = "idle" /\ batch[w] # {}

Unrouted(w) == {m \in batch[w] : queueOf[m] = NoQueue}

\* The loop that groups the messages looks each one up on its own.
Route(w, m) ==
  /\ Publishes(w)
  /\ m \in Unrouted(w)
  /\ queueOf' = [queueOf EXCEPT ![m] = QueueURL(TypeOf[m])]
  /\ UNCHANGED <<routerVars, registrations, metricsVars, waiting, batch, result,
                 accepted, finished>>

Group(w, q) == {m \in batch[w] : queueOf[m] = q}

\* The goroutine of a group has been started and has not written its results.
Sending(w, q) ==
  /\ Publishes(w)
  /\ Unrouted(w) = {}
  /\ Group(w, q) # {}
  /\ \A m \in Group(w, q) : result[m] = "unset"

\* Mutant: only the first message of a group gets the error of a request.
FailFirst(G, ok) ==
  result' = [m \in Msgs |-> IF m \in G
                            THEN IF m \in TooLarge THEN "permanent"
                                 ELSE IF m \in ok THEN "ok"
                                 ELSE IF \A n \in G : m <= n THEN "retryable" ELSE "unset"
                            ELSE result[m]]

\* Mutant: an entry that is not listed as failed counts as sent.
OkUnlessFailed(G, ok) ==
  result' = [m \in Msgs |-> IF m \in G
                            THEN IF m \in TooLarge THEN "permanent" ELSE "ok"
                            ELSE result[m]]

\* Write the results of a group of which the messages in ok were accepted.
Answer(G, ok) ==
  result' = [m \in Msgs |-> IF m \in G
                            THEN IF m \in TooLarge THEN "permanent"
                                 ELSE IF m \in ok THEN "ok" ELSE "retryable"
                            ELSE result[m]]

\* publishBatchToQueueWithLock: the oversized messages are left out. The request
\* is answered per entry (an entry the answer does not mention counts as refused),
\* or fails as a whole after some entries may have been accepted.
PublishBatchToQueue(w, q) ==
  /\ Sending(w, q)
  /\ \E ok, stored \in SUBSET (Group(w, q) \ TooLarge) :
       /\ ok = stored \/ ok = {}
       /\ Answer(Group(w, q), ok)
       /\ accepted' = accepted \cup {<<m, q>> : m \in stored}
  /\ UNCHANGED <<routerVars, registrations, metricsVars, waiting, batch, queueOf,
                 finished>>

\* Mutant: what failed the size check is not counted.
CountSent(w, kind) == Cardinality({m \in batch[w] \ TooLarge : result[m] \in kind})

Count(w, kind) == Cardinality({m \in batch[w] : result[m] \in kind})

\* All groups are done, PublishBatch returns, and the wrapper counts the results.
\* The worker then records them: what was not published is fetched again, unless
\* it never can be.
PublishBatch(w) ==
  /\ Publishes(w)
  /\ Unrouted(w) = {}
  /\ \A q \in Queues : ~Sending(w, q)
  /\ RecordPublish(Count(w, {"ok"}), Count(w, Results \ {"ok"}))
  /\ finished' = finished \cup {m \in batch[w] : result[m] = "ok"}
  /\ waiting' = waiting \cup {m \in batch[w] : result[m] \in {"retryable", "unset"}}
  /\ batch' = [batch EXCEPT ![w] = {}]
  /\ queueOf' = [m \in Msgs |-> IF m \in batch[w] THEN NoQueue ELSE queueOf[m]]
  /\ result' = [m \in Msgs |-> IF m \in batch[w] THEN "unset" ELSE result[m]]
  /\ UNCHANGED <<routerVars, registrations, accepted>>

Record(w) == Recording(w) /\ UNCHANGED <<routerVars, registrations, callVars>>

Next ==
  \/ Configure
  \/ \E w \in Workers :
       \/ FetchLockAndMarkPublishing(w)
       \/ Record(w)
       \/ \E m \in Msgs : Route(w, m)
       \/ \E q \in Queues : PublishBatchToQueue(w, q)
       \/ PublishBatch(w)

Spec == Init /\ [][Next]_vars

-----------------------------------------------------------------------------
(* Properties *)

\* When PublishBatch returns, no message is without a verdict, whatever the split
\* into groups and however each request ended.
EveryMessageIsAnswered ==
  [][\A w \in Workers : batch[w] # {} /\ batch'[w] = {}
       => \A m \in batch[w] : result[m] # "unset"]_vars

\* A message that was reported as published has been accepted by a queue, and no
\* oversized message was ever sent.
ReportedWasAccepted ==
  /\ \A m \in finished : \E q \in Queues : <<m, q>> \in accepted
  /\ \A a \in accepted : a[1] \notin TooLarge

\* The messages in the hands of a worker, the workers that RecordFetch has not yet
\* entered in workerStats, and the fetches that are entered there, by id and number.
InHand == UNION {batch[w] : w \in Workers}
Late == {w \in Workers : step[w] # "idle"}
Entered == UNION {{i} \X (1..workerStats[i].fetches) : i \in Ids}

\* The counters account for every message: what was fetched is counted once as a
\* success or a failure or is still in the hands of a worker, and the sums per
\* worker id add up to the totals.
CountsAddUp ==
  /\ total["rows"] = total["success"] + total["failure"] + Cardinality(InHand)
  /\ total["success"] = Cardinality(finished)
  /\ total["fetches"] = Cardinality(Late) + Cardinality(Entered)
=============================================================================
