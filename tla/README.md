# Verification of o4x

TLA+ specifications of o4x, a transactional outbox for Go with SQS as the broker:
an application writes messages into an outbox table in its own transactions, a
dispatcher publishes them, a consumer service receives them and calls handlers,
and an inbox table lets a handler recognise an event it has completed. The modules
are translated from the code under `src/`; TLC checks them on small instances and
TLAPS proves the most important results for every value of the constants.

1. [The system](#the-system)
2. [Modules](#modules)
3. [Runs](#runs)
4. [Proofs](#proofs)
5. [Where the code and its documentation disagree](#where-the-code-and-its-documentation-disagree)
6. [What is left out](#what-is-left-out)
7. [Plan](#plan)

## The system

| part | state | operations |
| --- | --- | --- |
| outbox table, `contrib/pgx/repo.go`, `contrib/gorm/repo.go` | per row: status, attempt_count, max_attempts, next_retry_at, updated_at | Insert, FetchAndLockToPublishing, FetchBatch, UpdateToPublished, UpdateBatchToPublished, UpdateToFailed, UpdateToDead, RequeueFailed, ReviveStuckPublishing, DeleteOlderThan |
| dispatcher, `core/dispatcher.go`, `core/worker.go` | the message in a worker's hands, running, pendingShutdown | Start, Stop, processOne, handlePublishFailure, the requeue ticker, the recovery at start |
| batch dispatcher, `core/batch_dispatcher.go` | the batch in a worker's hands and the answers per entry | the same, with PublishBatch grouped by queue |
| shutdown, `core/shutdown.go` | two timers | GracefulShutdown, cleanup contexts |
| publishers, `contrib/sqs/publisher.go` | the routing table, the results of a batch | Register, RegisterPrefix, QueueURL, PublishBatch with a goroutine per queue |
| consumer, `contrib/sqs/consumer/service.go`, `handler.go` | batches, receipt handles, semaphore, registered handlers | Start, Stop, poll, processMessage, the router's Handle, handleFailure, deleteMessage |
| inbox, `contrib/pgx/inbox_repo.go`, `contrib/gorm/inbox_repo.go` | completed events | IsProcessed, Complete, DeleteOlderThan |
| example application, `examples/app/internal` | orders, inventory, users | CreateOrder, ConfirmOrder, RegisterUser, UpdateUser; event handlers |
| instrumentation, `examples/app/internal/instrumentation` | shared counters and extremes | RecordFetch, RecordPublish and the wrappers that call them |

The application inserts; one or more dispatcher processes, with several workers
each, compete for the rows with `FOR UPDATE SKIP LOCKED`; the broker accepts a
message and may lose the answer; the consumer receives a message, perhaps more than
once, and calls the handler of its event type, which may ask the inbox.

What makes this hard:

- A worker fetches in one transaction, publishes without any lock, and records the
  verdict in another statement. Meanwhile the recovery of another process may have
  taken the row for stuck, and it may have been requeued, fetched, published or
  given up. Every update is guarded by `status = 'PUBLISHING'` only, which is also
  true of a row that somebody else has fetched since.
- A process may die at any point. What it held stays PUBLISHING until a recovery,
  which runs once per start and only for rows older than a threshold.
- A batch is split over queues that fail independently, and its results are
  recorded with several statements.
- SQS delivers at least once, hides a received message for a limited time, and
  counts every receive; a receipt handle goes stale with the next receive.
- Work and inbox record may or may not be in one transaction.
- Start and Stop leave their mutex before they are done.
- Business transactions hold row locks and connections while they wait for others.
- The routing table may change while a batch is being split, and the results of
  concurrent requests are written back by position.
- During a rollout some consumer processes know an event type and some do not.

Correct means, in short: an accepted message is published or declared dead, never
silently lost, and is not called published unless the broker has it; the retry limit
is kept; a verdict is final; one worker at a time has a message as long as
publishing is faster than the threshold; a consumer deletes only what was handled or
given up; an inbox record stands for work that was done; a business change and its
message exist together; Stop ends, and a Stop that does not give up on its workers
leaves none of them at work. `PROJECT.json` lists the hazards line by line with the
properties that cover them.

## Modules

| module | models |
| --- | --- |
| `OutboxTable` | one row of the outbox and every SQL statement of the pgx repository as an operator on a row |
| `GormTable` | the same statements, each with its WHERE clause, read from the GORM repository |
| `OutboxProcess` | what both dispatchers share: processes that start, stop, crash, recover and requeue; EXTENDS `OutboxTable` |
| `Dispatcher` | the single-message workers; EXTENDS `OutboxProcess` |
| `BatchDispatcher` | the batch workers, the queues and the hooks; EXTENDS `OutboxProcess` |
| `Delivery` | the promise of the outbox to the application: the abstract specification that both dispatchers implement |
| `EventTypeQueueMap` | the routing table of the publishers, with the documented priority as reference |
| `Metrics` | the collector that the workers of an instrumented dispatcher share |
| `Publishing` | a batch on its way through fetch, routing, one request per queue and counting; EXTENDS `EventTypeQueueMap` and `Metrics` |
| `Lifecycle` | one dispatcher or consumer object whose Start and Stop are called by several goroutines, GracefulShutdown, and the health status |
| `SqsQueue` | one message in SQS, external: what `service.go` relies on |
| `Consumer` | the consumer service, the event type router, the handlers and the inbox; EXTENDS `SqsQueue` |
| `Reception` | the promise of the consumer to the producer of a message: the abstract specification that `Consumer` implements |
| `Application` | the transactions of the example application |
| `MC...` | the instances for TLC: queues, kinds of handlers, requests, symmetry |
| `OutboxProcessProofs`, `DispatcherProofs`, `BatchDispatcherProofs`, `LifecycleProofs`, `PublishingProofs`, `ConsumerProofs`, `ConsumerOnceProofs`, `ApplicationProofs` | theorems and proofs |

Definitions keep the names of the methods they model. An operator that a comment
calls a mutant is the same method with a plausible mistake; it is used nowhere in
the specifications, only to see that a property notices the mistake.

### Outbox and dispatchers

A row is a record. `age` is the time since `updated_at`, saturating at `AgeCap`, and
`retry` the time left until `next_retry_at`: time is relative, so that the state
space is finite without a bound on the clock. `Jittered(a)` is the set of delays
that `LEAST(base * 2^attempt_count, max) * (0.5 + random() * 0.5)` can give.
`StuckSeconds` is the threshold as the statement of `ReviveStuckPublishing` uses it,
cut to whole seconds.

A worker of `Dispatcher` goes through "idle", publishing, and one state per answer
of the publisher. `processOne` is split exactly where other processes can
interfere: the fetch (one transaction), the call of the publisher, which the broker
may accept with or without the answer arriving, and the update that records the
verdict. The worker remembers the attempt_count it read (`snap`), because the code
decides between FAILED and DEAD from that copy and not from the row. After Stop a
worker still records its verdict, as `createCleanupContext` provides. A crash ends
all workers of a process; a request that was on its way to the broker may still
arrive.

`BatchDispatcher` fetches up to `BatchSize` rows, publishes per queue, and records
the failures one by one and then the successes with one statement. Rows that were
recovered meanwhile are not counted by that statement, and then no success is
reported. Messages in `TooLarge` are refused by the publisher before sending.

`GormTable` has each statement as a function of the row, or of the table, that leaves
alone what its WHERE clause does not match. `GormAgrees` compares that with what the
pgx statement does to the same row, in every status: a verdict that comes late is
refused by both repositories.

`Delivery` has a phase per message and the set of messages that the broker has. The
refinement mapping takes ENQUEUED, PUBLISHING and FAILED to "pending". Delivering
is allowed in every phase but "new": a slow publisher can outlive the verdict.

### Publishing

Event types and prefixes are sequences, because what is matched is their beginning.
`RegisterPrefix` removes the entry of the prefix and inserts the new one before the
first shorter prefix, as the slice code does; `QueueURL` takes the first entry that
matches. The reference, `Rule`, looks at the history `registered` and not at the
slice. In `Publishing` a worker looks up each message of its batch on its own, and a
registration may come in between; then each queue's goroutine writes the results of
its group in one step. Before that step the goroutine has written the oversized
messages under the same mutex, and nobody reads the results until all are done, so
the two are one. A request is answered entry by entry, or fails as a whole after the
queue may have taken some entries.

`Metrics` has the additions of one call as one step and the load and the swap of each
compare-and-swap loop as separate ones. Two workers share one id, as they do in
`dispatcher-bench`.

### Life cycle

The object is a dispatcher or the consumer service: the same fields and methods with
different constructors. `NewDispatcher` replaces a ForceTimeout that is too short and
refuses negative values; `NewService` replaces zeros only. OnForceShutdown ends the
process, as the default does, or returns, as the comment in `core/dispatcher.go:30`
allows; a configuration says which. Each Start that goes through begins a generation
of workers with a context of its own, derived from the one that the caller gives to
Start: the caller may cancel that one at any time (`CancelParent`), which makes the
workers return and tells nobody else. The parts of Start and Stop under the mutex are
single steps; the starting of each worker (`wg.Add`), the cancelling, the goroutine
with `wg.Wait`, and the two timeouts are steps of their own. `Wake` has the panic that
`sync.WaitGroup` raises when it is used again before a wait has returned. The
goroutine with `wg.Wait` belongs to the generation and not to the call, because it
outlives a Stop that returns from OnForceShutdown. The goroutine of the recovery at
start is not part of this model: it is not in the WaitGroup, and since it has the
caller's context Stop does not cancel it (`core/dispatcher.go:179`). In
`OutboxProcess` it is the step `Revive`. Time passes in ticks while somebody waits,
and not past a timer that is due.

### Consumer

A worker receives up to `MaxNumberOfMessages`, works on up to `MessageConcurrency`
of them at a time (one with a FIFO queue), and a handler is a few steps, because
the clock and other workers run between them. The handlers of the example come in
three kinds: "tx" (inbox check, work and completion in one transaction), "auto" (one
statement or call each) and "bare" (no inbox). A message is received again when its
visibility timeout is over; it is given up, hook called and deleted, when the
receive count has reached `MaxAttempts`. `Route` is the lookup of the router: a process
that runs the old release has no handler for `NewEvents`, and `UnknownTypes` says
whether Handle then returns an error, nil, or calls a fallback that logs and returns
nil as the one of `examples/app/cmd/consumer` does. Receipt handles are receive counts; a
delete with an old handle may or may not work.

`Reception` knows of a message whether it is unsent, queued or deleted, of an event
whether its work was done, and which messages have an excuse: given up with the hook,
or ignored by the policy. A message is deleted only after the work or with an excuse,
and work and excuses are never taken back. The refinement mapping forgets workers,
inbox, receipts and time. Handling is allowed after the deletion as well: a slow
handler can outlive its message.

### Application

A request is a sequence of statements of a READ COMMITTED transaction. Row locks
follow from the statements that open transactions have executed, and effects show at
the commit. `ConfirmOrder` reads the order with a second connection while its
transaction holds one, as `GetByID` does; connections come from a pool of
`PoolSize`. A commit may take effect and its answer be lost.

## Runs

Each run is a configuration of an `MC` module: `tlc -config <run>.cfg <module>`.

| run | module | instance | shows |
| --- | --- | --- | --- |
| `Dispatcher_slow` | `MCDispatcher` | 2 processes, 2 messages with limits 1 or 3, 1 fault of any kind, publishers slower than the threshold | `PublishedWasSent`, `LossIsBounded`, `RetryLimit`, `SettledIsFinal`, `KeepsPromise` (refinement of `Delivery`), `GormAgrees` |
| `Dispatcher_restart` | `MCDispatcher` | 2 processes, 2 messages, 1 crash, 1 stop, publishers within the threshold, late restart, fair | `HeldIsPublishing`, `ExclusiveOwner`, `FailedIsRetryable`, `CrashIsRepaired`, `EventuallySettled` |
| `Batch` | `MCBatchDispatcher` | 1 process with 2 workers, 2 messages in 2 queues, one too large, 1 fault, 1 stop; a deployment with slow publishers, restarts at any time and faults of every kind, and a timely one, fair | both: `PublishedWasSent`, `ReportedIsPublished`, `LossIsBounded`, `KeepsPromise`; the timely one: `TimelyIsOwned`, `TimelyIsSettled` |
| `Publishing` | `MCPublishing` | 2 workers, 3 messages of 2 event types, one too large, 2 queues, 3 prefixes, 2 registrations, 2 fetches | `LongestPrefixWins`, `ExtremesAreExact`, `ReportedWasAccepted`, `CountsAddUp`, `EveryMessageIsAnswered` |
| `Lifecycle` | `MCLifecycle` | 2 callers, 2 workers, 2 starts, dispatcher and consumer with three configurations, fair | `NoOrphans`, `ForcedInTime`, `HealthyIsServing`, `PanicNeedsOverlap`, `StopIsQuiet`, `StopReturns` |
| `Consumer_slow` | `MCConsumer` | 2 processes on a standard queue, 2 messages in parallel, slow handlers, 1 fault, 1 stop, inbox cleaned up early, an event type that only the new release knows | `NothingLost`, `CompletedIsDone`, `AtMostOnce`, `ImplementsReception` (refinement of `Reception`) |
| `Consumer_live` | `MCConsumer` | 2 processes on a FIFO queue, handlers within the visibility timeout, 1 fault, 1 stop, fair | `NoConcurrentHandling`, `AtMostOnce`, `EventuallyHandled`, `StopCompletes` |
| `Application` | `MCApplication` | 8 requests: 3 orders for a stock that covers 2, a double confirmation, a registration, 2 updates; 2 connections | `ReservedIsPending`, `NeverOversold`, `EventPerChange`, `OnlyThePoolBlocks` |
| `Dispatcher_crash`, `Dispatcher_stale`, `Batch_alarm`, `Consumer_twice` | | as small as possible | a statement of the documentation that the code does not keep, see [below](#where-the-code-and-its-documentation-disagree) |

### Bounds

- Messages: two, so that one can be overtaken by the other, and so that a batch can
  succeed in part. The statements treat rows independently of each other.
- Processes and workers: two actors are enough for one to recover, fetch or receive
  what the other has. `Batch` has them in one process, the other runs in two, so
  that one can crash while the other goes on. With a slow publisher the recovery of
  the same process, late after its start, takes rows of a batch. Batches of several
  processes are covered by the proofs.
- `MaxAttempts` 3 allows exactly one retry (attempt_count starts at 1), 1 gives a
  message that cannot be retried at all.
- Time: threshold, backoff, retention and visibility are one tick each, ages
  saturate at two. What is compared is only whether a limit has been reached or
  passed. With a backoff of one tick the jitter leaves a delay of one tick; the proofs
  have every backoff and every delay that the jitter can give.
- `MaxFaults`, `MaxStops`, `MaxReceives`, `MaxStarts` bound how often something
  happens in one behaviour. In `Consumer_live`, where every message is to be handled
  in the end, `MaxReceives` is MaxAttempts + faults + stops, which no message can
  need to exceed.
- `Lifecycle` has timeouts of one and two ticks: the default, with an OnForceShutdown
  that returns; a ForceTimeout shorter than the ShutdownTimeout; and a negative value,
  which only the consumer takes. Two starts are enough for a Stop that has given up to
  leave a goroutine in `wg.Wait` that meets the workers of the next generation.
- `Application` has two connections, so that the two confirmations can exhaust the pool.
- `Publishing` has prefixes of length 0, 1 and 2 that all match one event type, so
  that two registrations can come in either order and one prefix can be replaced;
  more registrations are left to the proof. Two fetches are enough for the loads and
  swaps of two workers to cross. It ends when the fetches are used up.
- `Consumer_slow` has one fault and one stop; any number of them is covered by the
  proofs of its properties. It has the default policy for unknown types. The other two
  differ in one step, the answer of the router, and `NothingIsLost` is proved for all three;
  `Consumer_live` has no new event types, which keeps its liveness check small.
- `Dispatcher_restart` has no cleanup job, which only shortens what happens to
  settled messages.
- Symmetry (processes, slots, interchangeable requests) is used in runs without
  liveness properties only.

Deadlock is checked except in `Application`, where all requests come to an end,
in `Lifecycle`, where the process may have ended, and in `Publishing`, where the
fetches are bounded.

### Environment

Some properties hold only in an environment that the documentation asks for; it is
a constant, and the run says which:

- `SlowPublish = FALSE`: a worker is done with a message before it is older than the
  stuck threshold. `SlowHandler = FALSE`: a batch is handled within the visibility
  timeout.
- `LateRestart = TRUE`: a process starts only when no PUBLISHING row is younger than
  the threshold.
- `EarlyPurge = FALSE`, `EarlyCleanup = FALSE`: inbox and outbox rows are kept for
  as long as a redelivery or a repeated request can come.
- `QuantityOf` is positive. No code of the example checks the quantity of an order; with
  a negative one `Reserve` would lower the reservations and `NeverOversold` would say
  nothing.

With `EarlyCleanup = TRUE` TLC finds `EventPerChange` violated.

### Fairness

Weak fairness of single steps, as goroutines of a running process get to run:
workers, requeue ticker, recovery goroutine, the end of a process that was stopped,
the restart of a process that is down (a supervisor restarts it), and the clock.
Nothing forces a publisher or a handler to succeed, nor a fault to happen.
`Dispatcher_restart` leaves out failed database calls ("fetch", "update"), which
strand a message as described [below](#where-the-code-and-its-documentation-disagree),
and so does the timely deployment of `Batch`, the only one there that fairness is assumed
of. In the other deployment `LossIsBounded` says how much a failed call or a crash can
strand. In `Lifecycle` nothing is assumed of a busy worker, nor of those who decide to
call Start or Stop or to cancel a context.

## Proofs

All proofs are for arbitrary sets of messages, processes, workers, callers, requests
and any bounds, under the named assumptions on the constants in the modules that
declare them (numbers are natural, bounds not zero, `AgeCap` beyond every threshold;
messages of a consumer or a batch, and the workers of a process, are finite sets).
`CrashesAreRepaired` assumes `LateRestart` and no fault but crashes, and three theorems
about the application assume `~EarlyCleanup`.

| theorem | module | states |
| --- | --- | --- |
| `TypeCorrect` | both dispatchers, `LifecycleProofs`, `ConsumerProofs`, `ApplicationProofs` | the type invariant |
| `PublishedOnlyIfSent` | both dispatchers | `PublishedWasSent` |
| `RetriesAreLimited` | both dispatchers | `RetryLimit` |
| `SettledStaysSettled` | both dispatchers | `SettledIsFinal` |
| `LossIsLimited` | both dispatchers | `LossIsBounded` |
| `CrashesAreRepaired` | both dispatchers | with late restarts and crashes as the only faults: `CrashIsRepaired` |
| `PromiseIsKept` | both dispatchers | the dispatcher implements `Delivery` |
| `TimelyWorkersAreSafe`, `OwnersAreExclusive`, `FailuresAreRetried` | `DispatcherProofs` | with publishers within a threshold of whole seconds: `HeldIsPublishing`, `ExclusiveOwner`, `FailedIsRetryable` |
| `TimelyBatchesAreSafe` | `BatchDispatcherProofs` | the same for batches: `BatchesAreOwned`, `FailedIsRetryable` |
| `ReportsAreTrue` | `BatchDispatcherProofs` | `ReportedIsPublished` |
| `RepositoriesAgree` | `DispatcherProofs` | `GormAgrees` |
| `RoutingIsCorrect` | `PublishingProofs` | `LongestPrefixWins` |
| `ExtremesAreKept` | `PublishingProofs` | `ExtremesAreExact` |
| `ReportsAreBacked` | `PublishingProofs` | `ReportedWasAccepted` |
| `EveryBatchIsAnswered` | `PublishingProofs` | `EveryMessageIsAnswered` |
| `NothingIsMiscounted` | `PublishingProofs` | `CountsAddUp` |
| `NobodyIsOrphaned` | `LifecycleProofs` | `NoOrphans` |
| `StoppedIsQuiet` | `LifecycleProofs` | `StopIsQuiet` |
| `ForceIsOnTime` | `LifecycleProofs` | `ForcedInTime` |
| `HealthIsHonest` | `LifecycleProofs` | `HealthyIsServing` |
| `ReuseIsSafe` | `LifecycleProofs` | `PanicNeedsOverlap` |
| `NothingIsLost` | `ConsumerProofs` | `NothingLost` |
| `InboxIsTrue` | `ConsumerProofs` | `CompletedIsDone` |
| `TimeoutExcludes` | `ConsumerOnceProofs` | with handlers within the visibility timeout: `NoConcurrentHandling` |
| `WorkIsDoneOnce` | `ConsumerOnceProofs` | under `OnceConditions`: `AtMostOnce` |
| `ReceptionIsKept` | `ConsumerProofs` | the consumer implements `Reception` |
| `StockCoversReservations` | `ApplicationProofs` | reserved never exceeds quantity |
| `ChangeHasItsMessage` | `ApplicationProofs` | without early cleanup: `EventPerChange` |
| `ReservationsArePending`, `NothingIsOversold` | `ApplicationProofs` | without early cleanup: `ReservedIsPending`, `NeverOversold` |
| `LocksBlockNobody` | `ApplicationProofs` | `Standstill => PoolIsExhausted`, the first half of `OnlyThePoolBlocks` |

**Dispatchers.** `OutboxProcessProofs` characterises what any step does to one row:
it stays, or makes one of a few moves, each with its effect on status, attempt_count
and history (`ProcessRowMove`). Both dispatchers show that their own steps make the
same moves (`NextRowMove`), and the safety theorems follow row by row. The inductive
invariant `Inv` adds to each property what makes it inductive: a worker that is
about to record a success holds a message the broker has (`AcceptedWasSent`; for
batches `OkWasSent` and `CleanResults`), because the update may hit a row that
somebody else fetched meanwhile; and the number of attempts is tied to
attempt_count in every status, which gives the retry limit. `PromiseIsKept` needs
in addition that what a worker holds was inserted (`HeldInserted`, `BatchInserted`),
since `Delivery` delivers no message that was not accepted.

**What faults leave behind.** A message is unattended if it is PUBLISHING and no worker
will record its result. `WorkAttends` shows that no step of a worker makes a message
unattended: no statement but the fetch makes a row PUBLISHING, and a worker lets go of a
message only with a statement after which the row is not PUBLISHING, whether the
statement found the row it meant or one that somebody else had fetched meanwhile (for
batches this needs `CleanResults`, so that a fresh batch starts without results).
`FaultLeaves` adds what each fault does: it leaves a set no larger than the workers of a
process, or their batches. `LossIsBounded` then is inductive with the finiteness of the
set (`LossGrows`; for batches also `BatchFits`, that no batch exceeds its size, and
`UnionBound`), and needs no assumption on time: without a fault nothing is left
behind, and a fault can strand `WorkerCount * BatchSize` messages at most.

`CrashIsRepaired` is the safety side of "the recovery on restart leads to a retry". A
message that a crash left behind awaits a recovery: some process is down, or is about to
recover and the message is already old enough (`AwaitsRecovery`). A late start is what
carries it from the one to the other: a process that starts later than the threshold
finds every row older than that (`ProcessNextAwaits`), and its recovery takes them
all. The run `Dispatcher_crash` shows that it fails without the late start; failed
database calls strand messages in a process that stays up, and nothing recovers those.

**Ownership.** Under `~SlowPublish` and a threshold of whole seconds, `Owned` says of
each busy worker that its row is PUBLISHING, is not older than the threshold, has the
attempt_count the worker read, and is nobody else's. Age is the point: the recovery
takes rows strictly older than the threshold, so no step of another actor can touch
the row, so the copy of attempt_count is not stale and FAILED is never final.

**Life cycle.** `NoOrphans` speaks of workers; it is not inductive because Start may
yet start workers of a generation. `Owned` says the same of every generation that
has begun, whether its workers exist or not. `Quiet` says that a Stop that waits has
cancelled its generation, and that no worker of it is busy once the WaitGroup let
the Stop go; a cancelled generation fetches nothing, so this stays true when Start
adds more workers of it. `Timely` bounds each timer by the limit that is due next,
and for a dispatcher needs `NewDispatcher` to have made ForceTimeout at least
ShutdownTimeout (`Consistent`); for the consumer `WaitLimit` says what the
uncorrected values lead to. `Traced` says that a Stop leaves pendingShutdown set,
which is what makes the health status honest. `Staffed` accounts for the workers of a
generation: one that has returned had its context cancelled, by a Stop or by the
caller, and one that is missing is about to be started; with `Traced` this leaves the
caller as the only reason why a healthy component lacks workers. `Separate` says that
a goroutine in `wg.Wait` belongs to a Stop that waits or has given up, and that, as
long as no Start overlaps with a Stop and none has given up, no worker is alive when a
waiter is released.

**Repositories.** `DispatcherProofs` compares each statement of `GormTable` with the one of
`OutboxTable` on an arbitrary well-typed row in any status, WHERE clause and effect
together (`SameOnEveryRow`), and the fetch on an arbitrary table (`SameFetch`), and
combines this with the type invariant of the dispatcher.

**Publishing.** `RouterInv` says that the slice is ordered by falling length without
duplicate prefixes (`Ordered`) and holds exactly the latest registrations
(`Current`); the first match is then the longest, because two prefixes of one event
type with the same length are equal. `Improves` says that what a worker is about to
swap in is better than what it loaded, so that a swap that succeeds moves the extreme
in the right direction. `Grouped` says that the messages of a group are answered
together, so that a batch in which no group is being sent has no message left.
`CountsInv` adds to `CountsAddUp` that a finished message is neither waiting nor in
anybody's hands, so that no success is counted twice, and that the sets that are
counted are finite; the sums are cardinalities of disjoint unions.

**Consumer.** `Backed` says of each handler stage what the tables contain: outside a
transaction the work is there before the inbox record, and a message is handled
successfully only if its work is there or it was ignored on purpose. With
`CompletedIsDone` and `NothingLost` it is inductive under every interleaving; no
assumption on time is needed. `ExclusiveInv` says that what a worker holds is in
flight, and rests on the visibility timeout. For `AtMostOnce` there are two
arguments. With a unique key, at most one transaction of an event is past its work,
and only before the work has taken effect (`UniqueInv`). With the inbox alone, an
event whose transaction is under way has neither record nor effect (`InboxInv`); this
needs `ExclusiveInv`, an inbox that is kept as long as copies are left, and a FIFO
queue or one copy per event. `Consumer_twice` shows that the last condition cannot be
dropped. `ReceptionIsKept` needs of these only `Backed`, and that what a worker holds
was sent (`SentInv`): it holds with slow handlers, stale receipts and any number of
faults.

**Application.** `Claim` says that what an open transaction has found still holds
(the stock it reserves, the reservation it uses up, the order it has read), `Alone`
that no two open transactions have changed the row of a product; both follow from
the locks, and give that reservations never exceed the stock. `KeysInv` says that a
key that is no longer in the outbox belongs to requests that are over, and that a key
being inserted belongs to one transaction. So a commit always emits its message for
the first time, and `EventPerChange` is inductive. The sums over orders are
cardinalities of sets of units (`Units`), which the library's theorems about finite
sets can add and subtract (`TotalAdd`, `TotalRemove`). `BooksInv` says that stock and
reservations match these sums; a commit changes both sides alike because of
`CommitFinds`: the order it creates is not there and the order it confirms is pending.
`LocksBlockNobody` looks at who could be waited for. A request that waits for a
row or a key waits for a request that is further on, and a request that
holds an inventory row waits for a key at most; only `ConfirmOrder` waits
for a second connection, before it has locked anything. So if no open request can go
on, all of them are confirmations that have just begun, and no connection is free. The
argument needs no reachability: it holds for every combination of stages.

Only model-checked: the liveness properties (`EventuallySettled`, `TimelyIsSettled`,
`StopReturns`, `EventuallyHandled`, `StopCompletes`), and the second half of
`OnlyThePoolBlocks`, that `Ready` says exactly when a request's next statement is
ENABLED: the provers support neither fairness nor ENABLED.

## Where the code and its documentation disagree

Four runs show it on a behaviour that TLC finds.

- `Dispatcher_crash`: a process is killed while publishing and restarted before the
  threshold has passed. `ReviveStuckPublishing` runs once, finds the row too young,
  and the message stays PUBLISHING until the next restart. `README.md:110` of the
  repository says that the recovery on restart leads to a retry.
- `Dispatcher_stale`: a publisher outlasts the threshold and fails after its message
  was revived, requeued and fetched again. The worker decides for FAILED from its
  copy of attempt_count, the row is counted up to max_attempts, and RequeueFailed
  never takes it. `core/model.go:23` calls FAILED retryable.
- `Batch_alarm`: the update to DEAD fails, `OnMessageDead` is called all the same,
  and the message is published later. `core/hooks.go:25` says the hook is called when
  the message is marked DEAD; `core/worker.go:190` returns before it.
- `Consumer_twice`: two SQS messages of one event (the dispatcher published it
  twice) are handled at the same time. Both transactions see no inbox record, both
  work, and the second `Complete` does nothing on conflict, so both commit.
  `core/inbox_repository.go:103` says that the final deduplication happens there.

Seen while modelling, without a run of its own:

- A message is given up after max_attempts - 1 calls of Publish, since attempt_count
  starts at 1; `schema/schema.go:48` calls the column the maximum number of publish
  attempts.
- `ReviveStuckPublishing` cuts its threshold to whole seconds
  (`contrib/pgx/repo.go:484`). With 1.5 s, rows are revived after 1 s; ownership is
  proved for whole seconds only. A threshold under a second becomes zero.
- The batch dispatcher does not call `OnPublishSuccess` when only part of the
  successes could be recorded (`core/batch_dispatcher.go:386`).
- After a failed message, the loop over a FIFO batch goes on with the next one
  (`contrib/sqs/consumer/service.go:297`), so later messages of the group take
  effect before the retry of the failed one. `README.md:576` promises the order per
  group.
- The receive count of SQS, which decides about giving up, also counts receives
  whose answer was lost and messages skipped by Stop.
- `DeleteMessage` uses the context that Stop cancels: a message handled during the
  shutdown comes again.
- `pendingShutdown` is never reset: a dispatcher that is stopped and started again
  reports a pending shutdown for good, and `IsHealthy` is false. `core/health.go:20`
  says "initiated but not completed". The health status errs on the safe side:
  `HealthyIsServing` would fail if Start simply cleared the flag, while an earlier
  Stop is still waiting.
- The context of the workers derives from the context given to Start. When the caller
  cancels that context, as the tests do before they call Stop
  (`core/dispatcher_test.go:536`,
  `contrib/sqs/consumer/service_test.go:371`), the workers return while `running` stays
  set: until Stop is called, `IsHealthy` is true and `WorkerCount` unchanged with no
  worker left. `core/health.go:9` and `:17` say "whether the component is currently
  running" and "the number of active workers". `HealthyIsServing` names this as its only
  exception.
- With an OnForceShutdown that returns, which `core/dispatcher.go:31` offers "to disable
  forced shutdown", Stop returns while workers are busy and leaves a goroutine in
  `wg.Wait`. If the object is started again and the old workers finish then, this
  goroutine panics although no two calls overlap. `StopIsQuiet` and `PanicNeedsOverlap`
  except a Stop that has given up, and TLC finds both violated without the exception.
- Start that overlaps with Stop can make `wg.Wait` panic, and makes Stop wait for
  workers of the new generation; the `Lifecycle` model has both, and
  `PanicNeedsOverlap` says that the overlap, or a Stop that gave up, is necessary.
- The consumer's `NewService` does not adjust a ForceTimeout shorter than the
  ShutdownTimeout, as `NewDispatcher` does: the forced end then comes with the
  ShutdownTimeout. It takes negative values, too.
- A failed database call of a worker is logged and the worker goes on. What it had
  fetched stays PUBLISHING until a process is restarted; `LossIsBounded` limits how much
  that is.
- `ConfirmOrder` begins a transaction and then reads the order through the pool
  (`examples/app/internal/repository/order.go:50`). As many confirmations as the pool has
  connections wait for each other until the context of one of them is cancelled, and
  every other request waits with them. The run `Application` reaches this;
  `OnlyThePoolBlocks` says that it is the only way for all requests to wait.
- `README.md:623` of the repository says of prefixes "checked in registration order". The
  code keeps them by falling length and takes the longest that matches, as its comments
  say (`contrib/sqs/publisher.go:151`, `:183`, `:212`); `LongestPrefixWins` states what
  the comments say.
- A consumer of the old release deletes messages of a new event type unhandled if it
  ignores unknown types or has a fallback that returns nil, as the example has
  (`examples/app/cmd/consumer/main.go:192`). With the default it fails them, and gives
  them up after MaxAttempts receives. `docs/deployment.md:45` says "Existing consumers
  are unaffected by new event types" and allows any order of deployment.
- `TypedHandler` returns a permanent error for a payload it cannot decode, since
  "retrying won't fix malformed data" (`contrib/sqs/consumer/handler.go:119`); the
  consumer service does not distinguish it and retries up to MaxAttempts.
- `dispatcher-bench` logs its final metrics before it stops the dispatcher
  (`examples/app/cmd/dispatcher-bench/main.go`), so that they leave out what the
  workers finish during the shutdown. `GetFetchStats` reads its counters one after the
  other, so that a fetch may be in one of them and not yet in another.
- `ConfirmOrder` never looks at the status of the order. A second confirmation fails
  at the unique key of the outbox message only, so it goes through once that row has
  been cleaned up.
- Quantities of orders are not validated: a negative one raises what is available.
- With MaxAttempts 0 the pgx repository inserts 0 and the GORM repository 10.

## What is left out

- SQL itself. A statement is atomic, `FOR UPDATE SKIP LOCKED` gives a row to one
  transaction, READ COMMITTED is row locks until the commit. The fetch takes the
  oldest row; that it may skip a row locked by a fetch that is rolled back later is
  not modelled.
- A request to the broker that outlives its process arrives at the moment of the
  crash. The failures of a batch are recorded in any order.
- The parallel loop of the consumer may start one more message after Stop, since
  `select` chooses between two ready channels; that is in the model.
- Payloads, and messages of other producers. A message whose outbox_id cannot be
  parsed gets the zero event id (`contrib/sqs/consumer/service.go:432`), which it
  would share with all such messages in the inbox; the dispatchers of this repository
  always set it.
- In `BatchDispatcher` the queue of a message is a constant, `QueueOf`; the table that
  decides it is in `Publishing`, where in turn a failed message is just fetched again.
  The two are not composed: the outbox table relies on one verdict per message, which
  is `EveryMessageIsAnswered`, and on a success being true, `ReportedWasAccepted`.
- Likewise dispatcher and consumer meet in the queue only. `Consumer` lets the
  producer send several copies of one event at any time, in the order of their
  numbers, which is what `Delivery` allows a dispatcher to do; a specification of
  both together is not written. `Reception` begins where `Delivery` ends, with the
  message that was sent.
- `SendNotification` inserts two rows with fresh keys in one transaction, which waits
  for nothing and which nothing waits for. It touches no row
  that another request of `Application` touches, so it is left out.
- Text: DDL generation, redaction and truncation of error messages, logging, HTTP.
- `CanRetry`, `ShouldMarkDead`, `CalculateNextRetryAt` and `ReleaseReservation`,
  which nothing calls.
- The sums of durations and averages of the metrics, `pg_metrics.go`, benchmarks and
  the wiring of the example programs.

`PROJECT.json` lists every component with the reason.

## Plan

Done, in this order: the table, both dispatchers and `Delivery` with their proofs;
the GORM repository against pgx; the queue and the consumer; the application; the
life cycle with its proofs; the routing table, the publishers and the metrics with
their proofs; the consumer service and the health status in the life cycle; the event
router; the proofs of the consumer, of the GORM repository and of the application;
`Reception`; the sums of `Publishing` and `Application`; how many messages a fault can
leave behind and that the recovery repairs a crash, for every value of the constants.

Next: the path from end to end for one message, with `Delivery` standing for the
dispatcher and `Reception` for the consumer.
