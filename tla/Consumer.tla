------------------------------ MODULE Consumer ------------------------------
(***************************************************************************)
(* contrib/sqs/consumer/service.go with the router of handler.go, the      *)
(* handlers of the example application and the inbox table, whose          *)
(* statements are the same in contrib/pgx/inbox_repo.go and                *)
(* contrib/gorm/inbox_repo.go: processes with workers that receive batches *)
(* from one queue, call the handler for each message, and delete it or     *)
(* leave it to the visibility timeout. A process may run an old release    *)
(* that has no handler for a new event type.                               *)
(*                                                                         *)
(* A handler is a few steps, because other workers and the clock run       *)
(* between them. Three kinds of handlers occur: "tx" checks the inbox,     *)
(* works and completes in one transaction (OrderConfirmedHandler,          *)
(* UserRegisteredHandler); "auto" does the same with a statement or call   *)
(* each (NotificationEmailHandler and its like); "bare" uses no inbox      *)
(* (OrderCreatedHandler, UserUpdatedHandler).                              *)
(***************************************************************************)
EXTENDS SqsQueue, Integers, FiniteSets

CONSTANTS
  Copies,          \* SQS messages; numbers, in the order in which they are sent
  Events,          \* outbox ids
  EventOf,         \* the outbox_id attribute of a message
  KindOf,          \* the kind of the handler of an event
  NewEvents,       \* events of a type that only the new release has a handler for
  UnknownTypes,    \* what the router does with a type that has no handler
  UniqueWork,      \* whether the work of a handler is keyed by the event id
  Fifo,            \* whether the queue is a FIFO queue (with one message group)
  MaxNumberOfMessages,
  MessageConcurrency,
  MaxAttempts,
  Procs,           \* consumer processes
  Slots,           \* the workers of one process
  InboxRetention,  \* the olderThan argument of the inbox's DeleteOlderThan
  EarlyPurge,      \* whether it is shorter than the retention period of the queue
  SlowHandler,     \* whether a batch may outlast the visibility timeout
  FaultKinds,      \* what can go wrong: a subset of AllFaults
  MaxFaults,       \* bound on the number of faults
  MaxStops,        \* bound on graceful stops
  MaxReceives      \* bound on the receives of one message

Workers == Procs \X Slots
AllFaults == {"crash", "receive", "handler", "delete"}
NoRecord == -1

ASSUME ConsumerAssumption ==
  /\ Copies \subseteq Nat
  /\ IsFiniteSet(Copies)
  /\ EventOf \in [Copies -> Events]
  /\ KindOf \in [Events -> {"tx", "auto", "bare"}]
  /\ NewEvents \subseteq Events
  /\ UnknownTypes \in {"error", "ignore", "fallback"}
  /\ {UniqueWork, Fifo, EarlyPurge, SlowHandler} \subseteq BOOLEAN
  /\ MaxNumberOfMessages \in Nat \ {0}
  /\ MessageConcurrency \in Nat \ {0}
  /\ Fifo => MessageConcurrency = 1
  /\ MaxAttempts \in Nat \ {0}
  /\ InboxRetention \in Nat
  /\ FaultKinds \subseteq AllFaults
  /\ {MaxFaults, MaxStops, MaxReceives} \subseteq Nat

VARIABLES
  queue,    \* the SQS queue
  proc,     \* "down", "up", or "stopping" once Stop has cancelled the context
  release,  \* "old" or "new": the program that the process runs
  todo,     \* the messages of its batch that a worker has yet to start
  stage,    \* where processMessage is, for a worker and a message
  receipt,  \* the receive count, and the handle, that the worker got
  inbox,    \* the age of the inbox record of an event, or NoRecord
  work,     \* how often the work for an event has been done, up to 2
  dead,     \* history: the messages that OnMessageDead was called for
  ignored,  \* history: the messages that the router answered without a handler
  faults,   \* crashes and failed calls so far
  stops     \* graceful stops so far

queueVars == <<queue, receipt>>
tableVars == <<inbox, work>>
procVars == <<proc, release>>
history == <<dead, ignored>>
vars == <<queue, proc, release, todo, stage, receipt, inbox, work, dead, ignored, faults, stops>>

\* Inside Handle: "check", IsProcessed is next; "work", the work is next;
\* "complete", Complete is next; "commit" and "recommit", the commit is next, of a
\* transaction that has inserted the inbox record or has found one. After Handle:
\* "ok" and "failed".
Handling == {"check", "work", "complete", "commit", "recommit"}
Stages == {"none", "ok", "failed"} \cup Handling

\* The messages that worker w is processing.
Active(w) == {c \in Copies : stage[w][c] # "none"}

TypeOK ==
  /\ queue \in [Copies -> Entry]
  /\ proc \in [Procs -> {"down", "up", "stopping"}]
  /\ release \in [Procs -> {"old", "new"}]
  /\ todo \in [Workers -> SUBSET Copies]
  /\ stage \in [Workers -> [Copies -> Stages]]
  /\ receipt \in [Workers -> [Copies -> 0..MaxReceives]]
  /\ \A w \in Workers : \A c \in todo[w] \cup Active(w) : receipt[w][c] > 0
  /\ inbox \in [Events -> NoRecord..InboxRetention + 1]
  /\ work \in [Events -> 0..2]
  /\ dead \in SUBSET Copies
  /\ ignored \in SUBSET Copies
  /\ faults \in 0..MaxFaults
  /\ stops \in 0..MaxStops

Init ==
  /\ queue = [c \in Copies |-> Unsent]
  /\ proc = [p \in Procs |-> "down"]
  /\ release = [p \in Procs |-> "old"]
  /\ todo = [w \in Workers |-> {}]
  /\ stage = [w \in Workers |-> [c \in Copies |-> "none"]]
  /\ receipt = [w \in Workers |-> [c \in Copies |-> 0]]
  /\ inbox = [e \in Events |-> NoRecord]
  /\ work = [e \in Events |-> 0]
  /\ dead = {}
  /\ ignored = {}
  /\ faults = 0
  /\ stops = 0

WorkersOf(p) == {w \in Workers : w[1] = p}
Idle(w) == todo[w] = {} /\ Active(w) = {}
Goto(w, c, s) == stage' = [stage EXCEPT ![w][c] = s]

\* A fault of kind k happens.
Fault(k) ==
  /\ k \in FaultKinds
  /\ faults < MaxFaults
  /\ faults' = faults + 1

-----------------------------------------------------------------------------
(* The producer: the outbox dispatcher sends a message, and may send another *)
(* copy of the same event *)

Send(c) ==
  /\ queue[c].state = "unsent"
  /\ \A d \in Copies : d < c => queue[d].state # "unsent"
  /\ queue' = [queue EXCEPT ![c] = Queued]
  /\ UNCHANGED <<procVars, todo, stage, receipt, tableVars, history, faults, stops>>

-----------------------------------------------------------------------------
(* Workers: pollAndProcess *)

\* What a receive may return. A FIFO queue returns messages in order, and none
\* while one of them is in flight.
Batch(S) ==
  /\ S # {}
  /\ Cardinality(S) <= MaxNumberOfMessages
  /\ \A c \in S : Receivable(queue[c]) /\ queue[c].count < MaxReceives
  /\ Fifo => \A d \in Copies : queue[d].state = "queued"
               => queue[d].hidden = 0 /\ (d \in S \/ \A c \in S : c < d)

\* Mutant: the receive asks for no visibility timeout.
TakeAndLeaveVisible(S) ==
  queue' = [c \in Copies |-> IF c \in S THEN [Received(queue[c]) EXCEPT !.hidden = 0]
                                      ELSE queue[c]]

TakeFromQueue(S) ==
  queue' = [c \in Copies |-> IF c \in S THEN Received(queue[c]) ELSE queue[c]]

ReceiveMessage(w) ==
  /\ proc[w[1]] = "up"
  /\ Idle(w)
  /\ \E S \in SUBSET Copies :
       /\ Batch(S)
       /\ TakeFromQueue(S)
       /\ todo' = [todo EXCEPT ![w] = S]
       /\ receipt' = [receipt EXCEPT ![w] = [c \in Copies |->
                         IF c \in S THEN queue[c].count + 1 ELSE 0]]
  /\ UNCHANGED <<procVars, stage, tableVars, history, faults, stops>>

\* The answer of the queue is lost, or the context is cancelled while it is on
\* its way: the messages are in flight, but no worker has them.
ReceiveLost(w) ==
  /\ proc[w[1]] # "down"
  /\ Idle(w)
  /\ Fault("receive")
  /\ \E S \in SUBSET Copies : Batch(S) /\ TakeFromQueue(S)
  /\ UNCHANGED <<procVars, todo, stage, receipt, tableVars, history, stops>>

\* The order of a batch is the queue's.
NextOfBatch(w, c) == c \in todo[w] /\ (Fifo => \A d \in todo[w] : c <= d)

\* The router of process p has a handler for the type of c.
Registered(p, c) == release[p] = "new" \/ EventOf[c] \notin NewEvents

\* The fallback of the example's consumer logs the message and returns nil, which is
\* what UnknownEventTypeIgnore does. Without either, Handle returns an error.
Ignores(p, c) == ~Registered(p, c) /\ UnknownTypes # "error"

\* Mutant: the router returns nil for every unknown type.
RouteOrIgnore(p, c) ==
  IF ~Registered(p, c) THEN "ok" ELSE IF KindOf[EventOf[c]] = "bare" THEN "work" ELSE "check"

\* EventTypeRouter.Handle: where processMessage is once a handler has been looked up.
Route(p, c) ==
  IF Registered(p, c)
  THEN IF KindOf[EventOf[c]] = "bare" THEN "work" ELSE "check"
  ELSE IF Ignores(p, c) THEN "ok" ELSE "failed"

\* The loop of pollAndProcess takes the next message and calls Handle, once
\* fewer than MessageConcurrency messages are being processed. A parallel loop that
\* has passed its check of the context may still start one message after Stop: its
\* select may choose the semaphore over the cancelled context.
StartMessage(w, c) ==
  /\ proc[w[1]] = "up" \/ MessageConcurrency > 1
  /\ NextOfBatch(w, c)
  /\ Cardinality(Active(w)) < MessageConcurrency
  /\ todo' = [todo EXCEPT ![w] = IF proc[w[1]] = "up" THEN @ \ {c} ELSE {}]
  /\ Goto(w, c, Route(w[1], c))
  /\ ignored' = IF Ignores(w[1], c) THEN ignored \cup {c} ELSE ignored
  /\ UNCHANGED <<queueVars, procVars, tableVars, dead, faults, stops>>

\* The rest of the batch is skipped because of the shutdown.
SkipRest(w) ==
  /\ proc[w[1]] = "stopping"
  /\ todo[w] # {}
  /\ todo' = [todo EXCEPT ![w] = {}]
  /\ UNCHANGED <<queueVars, procVars, stage, tableVars, history, faults, stops>>

-----------------------------------------------------------------------------
(* Handlers *)

InTransaction(c) == KindOf[EventOf[c]] = "tx"

\* Another open transaction has inserted a row with the same key: an insert of
\* that key waits for its end.
Locked(w, c, stages) ==
  \E v \in Workers : \E d \in Copies :
    <<v, d>> # <<w, c>> /\ EventOf[d] = EventOf[c] /\ InTransaction(d)
                         /\ stage[v][d] \in stages

IsProcessed(w, c) ==
  /\ stage[w][c] = "check"
  /\ Goto(w, c, IF inbox[EventOf[c]] # NoRecord THEN "ok" ELSE "work")
  /\ UNCHANGED <<queueVars, procVars, todo, tableVars, history, faults, stops>>

\* The work for the event of c takes effect; "again" tells whether it does so when
\* it has been done before.
Worked(c, again) ==
  work' = [work EXCEPT ![EventOf[c]] = IF @ = 0 THEN 1 ELSE IF again THEN 2 ELSE @]

Record(c) == inbox' = [inbox EXCEPT ![EventOf[c]] = IF @ = NoRecord THEN 0 ELSE @]

\* Mutant: the rows that the work inserts have a key of their own.
DoWorkWithFreshKey(w, c) ==
  /\ stage[w][c] = "work"
  /\ InTransaction(c)
  /\ Goto(w, c, "complete")
  /\ UNCHANGED <<queueVars, procVars, todo, tableVars, history, faults, stops>>

\* Inside a transaction the work shows at the commit, and an insert with a key
\* that is there already is an error.
DoWorkTx(w, c) ==
  /\ stage[w][c] = "work"
  /\ InTransaction(c)
  /\ UniqueWork => ~Locked(w, c, {"complete", "commit", "recommit"})
  /\ Goto(w, c, IF UniqueWork /\ work[EventOf[c]] > 0 THEN "failed" ELSE "complete")
  /\ UNCHANGED <<queueVars, procVars, todo, tableVars, history, faults, stops>>

\* A call of an external API, or a statement of its own.
DoWork(w, c) ==
  /\ stage[w][c] = "work"
  /\ ~InTransaction(c)
  /\ Worked(c, ~UniqueWork)
  /\ Goto(w, c, IF KindOf[EventOf[c]] = "bare" THEN "ok" ELSE "complete")
  /\ UNCHANGED <<queueVars, procVars, todo, inbox, history, faults, stops>>

\* Mutant: the inbox record is inserted with the pool instead of the transaction.
CompleteOutsideTx(w, c) ==
  /\ stage[w][c] = "complete"
  /\ InTransaction(c)
  /\ Record(c)
  /\ Goto(w, c, "recommit")
  /\ UNCHANGED <<queueVars, procVars, todo, work, history, faults, stops>>

\* Mutant: the handler forgets to call Complete.
CompleteForgotten(w, c) ==
  /\ stage[w][c] = "complete"
  /\ InTransaction(c)
  /\ Goto(w, c, "recommit")
  /\ UNCHANGED <<queueVars, procVars, todo, tableVars, history, faults, stops>>

\* INSERT ... ON CONFLICT DO NOTHING, within the transaction.
CompleteTx(w, c) ==
  /\ stage[w][c] = "complete"
  /\ InTransaction(c)
  /\ ~Locked(w, c, {"commit"})
  /\ Goto(w, c, IF inbox[EventOf[c]] = NoRecord THEN "commit" ELSE "recommit")
  /\ UNCHANGED <<queueVars, procVars, todo, tableVars, history, faults, stops>>

Complete(w, c) ==
  /\ stage[w][c] = "complete"
  /\ ~InTransaction(c)
  /\ Record(c)
  /\ Goto(w, c, "ok")
  /\ UNCHANGED <<queueVars, procVars, todo, work, history, faults, stops>>

Commit(w, c) ==
  /\ stage[w][c] \in {"commit", "recommit"}
  /\ Worked(c, TRUE)
  /\ IF stage[w][c] = "commit" THEN Record(c) ELSE UNCHANGED inbox
  /\ Goto(w, c, "ok")
  /\ UNCHANGED <<queueVars, procVars, todo, history, faults, stops>>

\* Handle returns an error, and an open transaction is rolled back.
HandlerFails(w, c) ==
  /\ stage[w][c] \in Handling
  /\ Goto(w, c, "failed")
  /\ UNCHANGED <<queueVars, procVars, todo, tableVars, history, faults, stops>>

\* The work, or the commit, takes effect but Handle gets an error.
AnswerLost(w, c) ==
  /\ \/ stage[w][c] = "work" /\ ~InTransaction(c) /\ UNCHANGED inbox
     \/ stage[w][c] = "commit" /\ Record(c)
     \/ stage[w][c] = "recommit" /\ UNCHANGED inbox
  /\ Fault("handler")
  /\ Worked(c, InTransaction(c) \/ ~UniqueWork)
  /\ Goto(w, c, "failed")
  /\ UNCHANGED <<queueVars, procVars, todo, history, stops>>

-----------------------------------------------------------------------------
(* Workers: the rest of processMessage *)

\* Mutant: MaxAttempts is not compared.
GivesUpNever(w, c) == FALSE

GivesUp(w, c) == receipt[w][c] >= MaxAttempts

\* processMessage is done with c.
Finish(w, c) ==
  /\ Goto(w, c, "none")
  /\ receipt' = [receipt EXCEPT ![w][c] = 0]

\* The message is to be deleted: it was handled, or it is given up.
Deletes(w, c) == stage[w][c] = "ok" \/ (stage[w][c] = "failed" /\ GivesUp(w, c))

\* Mutant: OnMessageDead is not called.
DeadHookForgotten(w, c) == UNCHANGED dead

DeadHook(w, c) == dead' = IF stage[w][c] = "failed" THEN dead \cup {c} ELSE dead

DeleteMessage(w, c) ==
  /\ proc[w[1]] = "up"
  /\ Deletes(w, c)
  /\ DeadHook(w, c)
  /\ \E e \in AfterDelete(queue[c], receipt[w][c]) : queue' = [queue EXCEPT ![c] = e]
  /\ Finish(w, c)
  /\ UNCHANGED <<procVars, todo, tableVars, ignored, faults, stops>>

\* Mutant: DeleteMessage is called until it succeeds, which it never does after Stop.
DeleteErrorRetried(w, c) ==
  /\ Deletes(w, c)
  /\ UNCHANGED vars

\* DeleteMessage returns an error, which is logged or ignored; the request may
\* have reached the queue. The call uses the context that Stop cancels, so that
\* after Stop it always fails.
DeleteError(w, c) ==
  /\ Deletes(w, c)
  /\ IF proc[w[1]] = "stopping" THEN UNCHANGED faults ELSE Fault("delete")
  /\ DeadHook(w, c)
  /\ \E e \in {queue[c]} \cup AfterDelete(queue[c], receipt[w][c]) :
       queue' = [queue EXCEPT ![c] = e]
  /\ Finish(w, c)
  /\ UNCHANGED <<procVars, todo, tableVars, ignored, stops>>

\* handleFailure leaves the message to the visibility timeout.
LeaveForRetry(w, c) ==
  /\ stage[w][c] = "failed"
  /\ ~GivesUp(w, c)
  /\ Finish(w, c)
  /\ UNCHANGED <<queue, procVars, todo, tableVars, history, faults, stops>>

-----------------------------------------------------------------------------
(* Processes, the inbox cleanup, and time *)

\* A process is started with the program it ran before or, where there is a new one,
\* with that.
Start(p) ==
  /\ proc[p] = "down"
  /\ proc' = [proc EXCEPT ![p] = "up"]
  /\ \E r \in {release[p]} \cup {"new" : e \in NewEvents} : release' = [release EXCEPT ![p] = r]
  /\ UNCHANGED <<queueVars, todo, stage, tableVars, history, faults, stops>>

Stop(p) ==
  /\ proc[p] = "up"
  /\ stops < MaxStops
  /\ stops' = stops + 1
  /\ proc' = [proc EXCEPT ![p] = "stopping"]
  /\ UNCHANGED <<queueVars, release, todo, stage, tableVars, history, faults>>

Exit(p) ==
  /\ proc[p] = "stopping"
  /\ \A w \in WorkersOf(p) : Idle(w)
  /\ proc' = [proc EXCEPT ![p] = "down"]
  /\ UNCHANGED <<queueVars, release, todo, stage, tableVars, history, faults, stops>>

\* The process is killed; its open transactions are rolled back.
Crash(p) ==
  /\ proc[p] # "down"
  /\ Fault("crash")
  /\ proc' = [proc EXCEPT ![p] = "down"]
  /\ todo' = [w \in Workers |-> IF w[1] = p THEN {} ELSE todo[w]]
  /\ stage' = [w \in Workers |-> IF w[1] = p THEN [c \in Copies |-> "none"] ELSE stage[w]]
  /\ receipt' = [w \in Workers |-> IF w[1] = p THEN [c \in Copies |-> 0] ELSE receipt[w]]
  /\ UNCHANGED <<queue, release, tableVars, history, stops>>

Purgeable(e) ==
  /\ inbox[e] > InboxRetention
  /\ EarlyPurge \/ \A c \in Copies : EventOf[c] = e => queue[c].state = "deleted"

\* The application's cleanup job for the inbox.
DeleteOlderThan ==
  /\ \E e \in Events : Purgeable(e)
  /\ inbox' = [e \in Events |-> IF Purgeable(e) THEN NoRecord ELSE inbox[e]]
  /\ UNCHANGED <<queueVars, procVars, todo, stage, work, history, faults, stops>>

Held(w) == todo[w] \cup Active(w)

\* Unless SlowHandler, a worker is done with its batch before it becomes visible.
Tick ==
  /\ SlowHandler \/ \A w \in Workers : \A c \in Held(w) : queue[c].hidden > 1
  /\ queue' = [c \in Copies |-> Waited(queue[c])]
  /\ inbox' = [e \in Events |-> IF inbox[e] \in 0..InboxRetention THEN inbox[e] + 1
                                                               ELSE inbox[e]]
  /\ UNCHANGED <<procVars, todo, stage, receipt, work, history, faults, stops>>

-----------------------------------------------------------------------------

HandlerStep(w, c) ==
  \/ IsProcessed(w, c)
  \/ DoWorkTx(w, c)
  \/ DoWork(w, c)
  \/ CompleteTx(w, c)
  \/ Complete(w, c)
  \/ Commit(w, c)

EndOfMessage(w, c) == DeleteMessage(w, c) \/ DeleteError(w, c) \/ LeaveForRetry(w, c)

Next ==
  \/ \E c \in Copies : Send(c)
  \/ \E w \in Workers :
       \/ ReceiveMessage(w)
       \/ ReceiveLost(w)
       \/ SkipRest(w)
       \/ \E c \in Copies :
            \/ StartMessage(w, c)
            \/ HandlerStep(w, c)
            \/ HandlerFails(w, c)
            \/ AnswerLost(w, c)
            \/ EndOfMessage(w, c)
  \/ \E p \in Procs : Start(p) \/ Stop(p) \/ Exit(p) \/ Crash(p)
  \/ DeleteOlderThan
  \/ Tick

Spec == Init /\ [][Next]_vars

\* Time passes, and a process that is down is started again. Loops run on: the worker
\* polls, takes what it received, and Handle returns, with or without an error.
Fairness ==
  /\ WF_vars(Tick)
  /\ \A p \in Procs : WF_vars(Start(p)) /\ WF_vars(Exit(p))
  /\ \A w \in Workers :
       /\ WF_vars(ReceiveMessage(w))
       /\ WF_vars(SkipRest(w))
       /\ WF_vars(\E c \in Copies : StartMessage(w, c))
       /\ \A c \in Copies : WF_vars(HandlerStep(w, c)) /\ WF_vars(EndOfMessage(w, c))

FairSpec == Spec /\ Fairness

-----------------------------------------------------------------------------
(* Properties *)

\* A message leaves the queue only when the work for its event has taken effect,
\* OnMessageDead has been called, or the router was told to ignore types it does not
\* know: no crash, lost answer, stale receipt, duplicate or process that still runs
\* the old release makes the service delete a message nobody has handled.
NothingLost ==
  \A c \in Copies : queue[c].state = "deleted"
                    => work[EventOf[c]] > 0 \/ c \in dead \cup ignored

Promise == INSTANCE Reception WITH
  mail <- [c \in Copies |-> queue[c].state],
  done <- {e \in Events : work[e] > 0},
  excused <- dead \cup ignored

\* The service keeps its promise to the producer: whatever receives, handlers, deletes
\* with stale handles, crashes and cleanups do, work follows a send and is never taken
\* back, and a message is gone for good only after its work or with an excuse.
ImplementsReception == Promise!Spec

\* An inbox record exists only for an event whose work has taken effect, so that
\* IsProcessed never makes a handler skip work that was rolled back or never done.
CompletedIsDone == \A e \in Events : inbox[e] # NoRecord => work[e] > 0

\* The work of a transactional handler takes effect at most once per event, whatever
\* is delivered again: by the unique key of the work, or by the inbox alone.
AtMostOnce == \A e \in Events : KindOf[e] = "tx" => work[e] < 2

\* The visibility timeout keeps a message from being processed twice at the same
\* time, by two workers of any processes, and with a FIFO queue no two workers have
\* messages of the group at the same time.
NoConcurrentHandling ==
  \A v, w \in Workers : v # w => /\ Held(v) \cap Held(w) = {}
                                 /\ Fifo => Held(v) = {} \/ Held(w) = {}

\* Every message that is sent is eventually handled or given up, and leaves the
\* queue, through crashes, failing handlers and lost deletes.
EventuallyHandled ==
  \A c \in Copies : queue[c].state = "queued" ~> queue[c].state = "deleted"

\* Stop ends: the workers finish the messages they have started and drop the rest.
StopCompletes == \A p \in Procs : proc[p] = "stopping" ~> proc[p] = "down"
=============================================================================
