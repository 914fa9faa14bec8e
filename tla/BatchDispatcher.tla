--------------------------- MODULE BatchDispatcher ---------------------------
(***************************************************************************)
(* core/batch_dispatcher.go with the batch publishers of                   *)
(* contrib/sqs/publisher.go. A worker fetches up to BatchSize messages,    *)
(* MultiBatchPublisher sends them in one request per queue, concurrently,  *)
(* and processBatch then records the failures one by one and all successes *)
(* with one statement. With a single queue this is BatchPublisher.         *)
(***************************************************************************)
EXTENDS OutboxProcess, FiniteSets

CONSTANTS
  Slots,        \* the workers of one process
  BatchSize,
  Queues,       \* queue URLs
  QueueOf,      \* what the router returns for the event_type of a message
  TooLarge,     \* the messages whose payload exceeds MaxSQSMessageSize
  SlowPublish   \* whether a batch may outlast StuckThreshold

Workers == Procs \X Slots

ASSUME BatchAssumption ==
  /\ IsFiniteSet(Slots) /\ IsFiniteSet(Msgs)
  /\ BatchSize \in Nat \ {0}
  /\ QueueOf \in [Msgs -> Queues]
  /\ TooLarge \subseteq Msgs
  /\ SlowPublish \in BOOLEAN

VARIABLES
  batch,     \* the messages that a worker has fetched and not finished
  snap,      \* the attempt_count of each, as read by the fetch
  res,       \* the PublishResult of each
  reported,  \* history: the messages that OnPublishSuccess was called for
  alarmed    \* history: the messages that OnMessageDead was called for

workerVars == <<batch, snap, res, reported, alarmed>>
vars == <<rows, proc, reviving, sent, tries, faults, stops, batch, snap, res,
          reported, alarmed>>

\* "none": no answer yet; "done": a failure that has been dealt with
Failures == {"retryable", "permanent"}
Results == {"none", "ok", "done"} \cup Failures

TypeOK ==
  /\ ProcessTypeOK
  /\ batch \in [Workers -> SUBSET Msgs]
  /\ snap \in [Workers -> [Msgs -> Nat]]
  /\ res \in [Workers -> [Msgs -> Results]]
  /\ reported \in SUBSET Msgs
  /\ alarmed \in SUBSET Msgs

Init ==
  /\ ProcessInit
  /\ batch = [w \in Workers |-> {}]
  /\ snap = [w \in Workers |-> [m \in Msgs |-> 0]]
  /\ res = [w \in Workers |-> [m \in Msgs |-> "none"]]
  /\ reported = {}
  /\ alarmed = {}

Idle(w) == batch[w] = {}

WorkersOf(p) == {w \in Workers : w[1] = p}

-----------------------------------------------------------------------------
(* Fetch and publish *)

\* The rows the fetch statement takes: the oldest ones that are ENQUEUED.
OldestBatch(S) ==
  LET waiting == {m \in Msgs : rows[m].status = "ENQUEUED"}
  IN  /\ S # {}
      /\ S \subseteq waiting
      /\ \A m \in S, n \in waiting \ S : m < n
      /\ \/ Cardinality(S) = BatchSize
         \/ S = waiting /\ Cardinality(S) < BatchSize

MarkPublishing(S) ==
  rows' = [m \in Msgs |-> IF m \in S THEN Fetched(rows[m]) ELSE rows[m]]

FetchLockAndMarkPublishing(w) ==
  /\ proc[w[1]] = "up"
  /\ Idle(w)
  /\ \E S \in SUBSET Msgs :
       /\ OldestBatch(S)
       /\ MarkPublishing(S)
       /\ batch' = [batch EXCEPT ![w] = S]
       /\ snap' = [snap EXCEPT ![w] = [m \in Msgs |-> IF m \in S THEN rows[m].attempt
                                                                 ELSE 0]]
       /\ tries' = [m \in Msgs |-> IF m \in S THEN tries[m] + 1 ELSE tries[m]]
  /\ UNCHANGED <<proc, reviving, sent, faults, stops, res, reported, alarmed>>

\* The statement commits but the worker gets an error instead of the rows.
FetchLost(w) ==
  /\ proc[w[1]] # "down"
  /\ Idle(w)
  /\ Fault("fetch")
  /\ \E S \in SUBSET Msgs : OldestBatch(S) /\ MarkPublishing(S)
  /\ UNCHANGED <<proc, reviving, sent, tries, stops, workerVars>>

\* The messages of the batch that go to queue q, and those among them that pass
\* the size check and are put into the request.
Group(w, q) == {m \in batch[w] : QueueOf[m] = q}
Entries(w, q) == Group(w, q) \ TooLarge

Unanswered(w, q) == Group(w, q) # {} /\ \A m \in Group(w, q) : res[w][m] = "none"

\* Write the results of a group of which the messages in ok were accepted.
Answer(w, q, ok) ==
  LET result(m) == IF m \in TooLarge THEN "permanent"
                   ELSE IF m \in ok THEN "ok" ELSE "retryable"
  IN  res' = [res EXCEPT ![w] = [m \in Msgs |-> IF m \in Group(w, q) THEN result(m)
                                                                     ELSE res[w][m]]]

\* SendMessageBatch answers: each entry is accepted or refused. An entry that
\* the answer does not mention counts as refused.
BatchAnswered(w, q) ==
  /\ Unanswered(w, q)
  /\ \E ok \in SUBSET Entries(w, q) : Answer(w, q, ok) /\ sent' = sent \cup ok
  /\ UNCHANGED <<rows, proc, reviving, tries, faults, stops, batch, snap, reported,
                 alarmed>>

\* SendMessageBatch fails as a whole. What it had sent may have been accepted.
BatchFailed(w, q) ==
  /\ Unanswered(w, q)
  /\ Entries(w, q) # {}
  /\ Answer(w, q, {})
  /\ \E S \in SUBSET Entries(w, q) : sent' = sent \cup S
  /\ UNCHANGED <<rows, proc, reviving, tries, faults, stops, batch, snap, reported,
                 alarmed>>

-----------------------------------------------------------------------------
(* Record the results *)

\* The messages of a batch that are still to be recorded.
Open(w) == {m \in batch[w] : res[w][m] # "done"}

\* PublishBatch has returned: every group has been answered.
Returned(w) == ~Idle(w) /\ \A m \in batch[w] : res[w][m] # "none"

\* A failure has been dealt with.
Done(w, m) == res' = [res EXCEPT ![w][m] = "done"]

\* Mutant: the limit is compared with the attempt that has just failed.
WillExceedOneLater(w, m) == snap[w][m] >= rows[m].max

WillExceedMaxAttemptsAfterFailure(w, m) == snap[w][m] + 1 >= rows[m].max

GivesUp(w, m) == res[w][m] = "permanent" \/ WillExceedMaxAttemptsAfterFailure(w, m)

\* handlePublishFailure calls OnMessageDead whenever it gives up, whether or not
\* the update took effect.
DeadHook(w, m) == alarmed' = IF GivesUp(w, m) THEN alarmed \cup {m} ELSE alarmed

HandlePublishFailure(w, m) ==
  /\ Returned(w)
  /\ m \in batch[w]
  /\ res[w][m] \in Failures
  /\ IF GivesUp(w, m)
     THEN UpdateTo(m, Dead(rows[m]))
     ELSE \E d \in Jittered(rows[m].attempt) : UpdateTo(m, Failed(rows[m], d))
  /\ Done(w, m)
  /\ DeadHook(w, m)
  /\ UNCHANGED <<proc, reviving, sent, tries, faults, stops, batch, snap, reported>>

\* The update fails with another error: it is logged, the row stays as it is.
FailureUpdateError(w, m) ==
  /\ Returned(w)
  /\ m \in batch[w]
  /\ res[w][m] \in Failures
  /\ Fault("update")
  /\ Done(w, m)
  /\ DeadHook(w, m)
  /\ UNCHANGED <<rows, proc, reviving, sent, tries, stops, batch, snap, reported>>

Release(w) ==
  /\ batch' = [batch EXCEPT ![w] = {}]
  /\ snap' = [snap EXCEPT ![w] = [m \in Msgs |-> 0]]
  /\ res' = [res EXCEPT ![w] = [m \in Msgs |-> "none"]]

Successes(w) == {m \in batch[w] : res[w][m] = "ok"}

FailuresHandled(w) == Returned(w) /\ \A m \in batch[w] : res[w][m] \notin Failures

\* Mutant: the successes of a batch with failures are not recorded.
UpdateBatchIfAllSucceeded(w) ==
  /\ FailuresHandled(w)
  /\ rows' = [m \in Msgs |->
                IF /\ m \in Successes(w)
                   /\ rows[m].status = "PUBLISHING"
                   /\ Successes(w) = batch[w]
                THEN Published(rows[m]) ELSE rows[m]]
  /\ reported' = reported \cup Successes(w)
  /\ Release(w)
  /\ UNCHANGED <<proc, reviving, sent, tries, faults, stops, alarmed>>

\* Mutant: the whole batch is recorded as published.
UpdateBatchRegardless(w) ==
  /\ Returned(w)
  /\ rows' = [m \in Msgs |-> IF m \in batch[w] /\ rows[m].status = "PUBLISHING"
                             THEN Published(rows[m]) ELSE rows[m]]
  /\ reported' = reported \cup batch[w]
  /\ Release(w)
  /\ UNCHANGED <<proc, reviving, sent, tries, faults, stops, alarmed>>

\* Mutant: the number of updated rows is not compared with that of the successes.
UpdateBatchUncounted(w) ==
  /\ FailuresHandled(w)
  /\ rows' = [m \in Msgs |->
                IF m \in Successes(w) /\ rows[m].status = "PUBLISHING"
                THEN Published(rows[m]) ELSE rows[m]]
  /\ reported' = reported \cup Successes(w)
  /\ Release(w)
  /\ UNCHANGED <<proc, reviving, sent, tries, faults, stops, alarmed>>

\* One statement for all successes. OnPublishSuccess is called only if it has
\* updated all of them. Without successes the statement is skipped.
UpdateBatchToPublished(w) ==
  /\ FailuresHandled(w)
  /\ rows' = [m \in Msgs |->
                IF m \in Successes(w) /\ rows[m].status = "PUBLISHING"
                THEN Published(rows[m]) ELSE rows[m]]
  /\ reported' = IF \A m \in Successes(w) : rows[m].status = "PUBLISHING"
                 THEN reported \cup Successes(w) ELSE reported
  /\ Release(w)
  /\ UNCHANGED <<proc, reviving, sent, tries, faults, stops, alarmed>>

UpdateBatchError(w) ==
  /\ FailuresHandled(w)
  /\ Successes(w) # {}
  /\ Fault("update")
  /\ Release(w)
  /\ UNCHANGED <<rows, proc, reviving, sent, tries, stops, reported, alarmed>>

-----------------------------------------------------------------------------
(* The end of a process, and time *)

Exit(p) ==
  /\ proc[p] = "stopping"
  /\ \A w \in WorkersOf(p) : Idle(w)
  /\ Down(p)
  /\ UNCHANGED <<rows, sent, tries, faults, stops, workerVars>>

InFlight(p) ==
  UNION {{m \in batch[w] \ TooLarge : res[w][m] = "none"} : w \in WorkersOf(p)}

\* A request that is on its way to the broker may still arrive.
Crash(p) ==
  /\ proc[p] # "down"
  /\ Fault("crash")
  /\ Down(p)
  /\ \E S \in SUBSET InFlight(p) : sent' = sent \cup S
  /\ batch' = [w \in Workers |-> IF w[1] = p THEN {} ELSE batch[w]]
  /\ snap' = [w \in Workers |-> IF w[1] = p THEN [m \in Msgs |-> 0] ELSE snap[w]]
  /\ res' = [w \in Workers |-> IF w[1] = p THEN [m \in Msgs |-> "none"] ELSE res[w]]
  /\ UNCHANGED <<rows, tries, stops, reported, alarmed>>

\* Unless SlowPublish, a worker is done with a message within StuckThreshold.
Tick ==
  /\ \/ SlowPublish
     \/ \A w \in Workers : \A m \in Open(w) : rows[m].age < StuckThreshold
  /\ AgeRows
  /\ UNCHANGED workerVars

-----------------------------------------------------------------------------

Work(w) ==
  \/ FetchLockAndMarkPublishing(w)
  \/ \E q \in Queues : BatchAnswered(w, q) \/ BatchFailed(w, q)
  \/ \E m \in Msgs : HandlePublishFailure(w, m)
  \/ UpdateBatchToPublished(w)

Next ==
  \/ ProcessNext /\ UNCHANGED workerVars
  \/ \E p \in Procs : Exit(p) \/ Crash(p)
  \/ \E w \in Workers :
       \/ Work(w)
       \/ FetchLost(w)
       \/ \E m \in Msgs : FailureUpdateError(w, m)
       \/ UpdateBatchError(w)
  \/ Tick

Spec == Init /\ [][Next]_vars

-----------------------------------------------------------------------------
(* Properties *)

\* A message is PUBLISHING, and no other worker works on it, until the worker that
\* fetched it has recorded its result. (A failure that is recorded early may be
\* requeued and fetched again while the rest of its batch is still to be recorded.)
BatchesAreOwned ==
  \A w \in Workers : \A m \in Open(w) :
    /\ rows[m].status = "PUBLISHING"
    /\ \A v \in Workers \ {w} : m \notin Open(v)

\* The messages that are PUBLISHING and that no worker has still to record.
Unattended ==
  {m \in Msgs : rows[m].status = "PUBLISHING" /\ \A w \in Workers : m \notin Open(w)}

\* A fault, be it a crash or a failed database call, leaves at most the batches of the
\* workers of one process behind, and nothing else leaves any message: not a batch that
\* failed in part, not one that was recovered under its worker's hands, and not a
\* graceful stop.
LossIsBounded == Cardinality(Unattended) <= faults * (Cardinality(Slots) * BatchSize)

\* What a killed process leaves behind is not forgotten: until it is recovered, there is
\* a recovery to come that will find it old enough.
CrashIsRepaired == \A m \in Unattended : AwaitsRecovery(m)

\* OnPublishSuccess has been called only for messages that are recorded as
\* published, also when some of a batch were recovered before it was recorded.
ReportedIsPublished ==
  \A m \in reported : rows[m].status \in {"PUBLISHED", "DELETED"}

\* OnMessageDead has been called only for messages that were marked DEAD.
AlarmedIsDead ==
  \A m \in alarmed : rows[m].status \in {"DEAD", "DELETED"}
=============================================================================
