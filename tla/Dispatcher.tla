------------------------------ MODULE Dispatcher ------------------------------
(***************************************************************************)
(* core/dispatcher.go and core/worker.go over the outbox table: several    *)
(* dispatcher processes, each with the same number of workers, a requeue   *)
(* worker and the recovery goroutine that Start launches. A worker's       *)
(* processOne is four steps, because other processes and the clock run     *)
(* between them: the fetch statement, the call to Publisher.Publish, its   *)
(* outcome, and the statement that records it.                             *)
(***************************************************************************)
EXTENDS OutboxProcess, FiniteSets

CONSTANTS
  Slots,        \* the workers of one process (WorkerCount of them)
  Permanent,    \* whether the publisher can return a PermanentError
  SlowPublish   \* whether Publish may outlast StuckThreshold

NoMsg == 0

Workers == Procs \X Slots

ASSUME DispatcherAssumption ==
  /\ IsFiniteSet(Slots)
  /\ {Permanent, SlowPublish} \subseteq BOOLEAN

VARIABLES
  pc,    \* where a worker is in processOne
  held,  \* the message it fetched
  snap   \* the attempt_count it read when it fetched the message

workerVars == <<pc, held, snap>>
vars == <<rows, proc, reviving, pc, held, snap, sent, tries, faults, stops>>

\* "publishing": inside Publish; the other three: Publish has returned
Recording == {"accepted", "retryable", "permanent"}
PCs == {"idle", "publishing"} \cup Recording

TypeOK ==
  /\ ProcessTypeOK
  /\ pc \in [Workers -> PCs]
  /\ held \in [Workers -> Msgs \cup {NoMsg}]
  /\ snap \in [Workers -> Nat]

Init ==
  /\ ProcessInit
  /\ pc = [w \in Workers |-> "idle"]
  /\ held = [w \in Workers |-> NoMsg]
  /\ snap = [w \in Workers |-> 0]

Idle(w) == pc[w] = "idle"

WorkersOf(p) == {w \in Workers : w[1] = p}

-----------------------------------------------------------------------------
(* The end of a process *)

\* Every worker has returned from Run: Stop returns and the process exits.
Exit(p) ==
  /\ proc[p] = "stopping"
  /\ \A w \in WorkersOf(p) : Idle(w)
  /\ Down(p)
  /\ UNCHANGED <<rows, workerVars, sent, tries, faults, stops>>

\* The process is killed, or OnForceShutdown exits after ForceTimeout. A
\* request that is on its way to the broker may still arrive.
Crash(p) ==
  /\ proc[p] # "down"
  /\ Fault("crash")
  /\ Down(p)
  /\ \E S \in SUBSET {held[w] : w \in {v \in WorkersOf(p) : pc[v] = "publishing"}} :
       sent' = sent \cup S
  /\ pc' = [w \in Workers |-> IF w[1] = p THEN "idle" ELSE pc[w]]
  /\ held' = [w \in Workers |-> IF w[1] = p THEN NoMsg ELSE held[w]]
  /\ snap' = [w \in Workers |-> IF w[1] = p THEN 0 ELSE snap[w]]
  /\ UNCHANGED <<rows, tries, stops>>

-----------------------------------------------------------------------------
(* Workers: processOne *)

\* The row the fetch statement takes: the oldest one that is ENQUEUED.
Oldest(m) ==
  /\ rows[m].status = "ENQUEUED"
  /\ \A n \in Msgs : rows[n].status = "ENQUEUED" => m <= n

FetchAndLockToPublishing(w) ==
  /\ proc[w[1]] = "up"
  /\ Idle(w)
  /\ \E m \in Msgs :
       /\ Oldest(m)
       /\ rows' = [rows EXCEPT ![m] = Fetched(rows[m])]
       /\ held' = [held EXCEPT ![w] = m]
       /\ snap' = [snap EXCEPT ![w] = rows[m].attempt]
       /\ tries' = [tries EXCEPT ![m] = @ + 1]
  /\ pc' = [pc EXCEPT ![w] = "publishing"]
  /\ UNCHANGED <<proc, reviving, sent, faults, stops>>

\* The statement commits but the worker gets an error instead of the row: the
\* connection broke, or the context was cancelled while it waited.
FetchLost(w) ==
  /\ proc[w[1]] # "down"
  /\ Idle(w)
  /\ Fault("fetch")
  /\ \E m \in Msgs : Oldest(m) /\ rows' = [rows EXCEPT ![m] = Fetched(rows[m])]
  /\ UNCHANGED <<proc, reviving, workerVars, sent, tries, stops>>

\* Publish returns nil.
PublishAccepted(w) ==
  /\ pc[w] = "publishing"
  /\ pc' = [pc EXCEPT ![w] = "accepted"]
  /\ sent' = sent \cup {held[w]}
  /\ UNCHANGED <<rows, proc, reviving, held, snap, tries, faults, stops>>

\* Publish returns an error for which IsRetryable holds. When the answer of
\* the broker was lost the message has been accepted nevertheless.
PublishRetryable(w) ==
  /\ pc[w] = "publishing"
  /\ pc' = [pc EXCEPT ![w] = "retryable"]
  /\ sent' \in {sent, sent \cup {held[w]}}
  /\ UNCHANGED <<rows, proc, reviving, held, snap, tries, faults, stops>>

\* Publish returns a PermanentError before anything was sent.
PublishPermanent(w) ==
  /\ Permanent
  /\ pc[w] = "publishing"
  /\ pc' = [pc EXCEPT ![w] = "permanent"]
  /\ UNCHANGED <<rows, proc, reviving, held, snap, sent, tries, faults, stops>>

\* processOne returns; the worker polls again.
Release(w) ==
  /\ pc' = [pc EXCEPT ![w] = "idle"]
  /\ held' = [held EXCEPT ![w] = NoMsg]
  /\ snap' = [snap EXCEPT ![w] = 0]

\* Mutant: a failure is recorded as a success.
UpdateToPublishedAlways(w) ==
  /\ pc[w] \in Recording
  /\ UpdateTo(held[w], Published(rows[held[w]]))
  /\ Release(w)
  /\ UNCHANGED <<proc, reviving, sent, tries, faults, stops>>

UpdateToPublished(w) ==
  /\ pc[w] = "accepted"
  /\ UpdateTo(held[w], Published(rows[held[w]]))
  /\ Release(w)
  /\ UNCHANGED <<proc, reviving, sent, tries, faults, stops>>

\* Mutant: the limit is compared with the attempt that has just failed.
WillExceedOneLater(w) == snap[w] >= rows[held[w]].max

\* The decision uses the attempt_count read by the fetch, the statement
\* increments the one in the row. No statement changes max_attempts.
WillExceedMaxAttemptsAfterFailure(w) == snap[w] + 1 >= rows[held[w]].max

\* Mutant: a permanent error is logged and nothing is recorded.
HandleFailureIfRetryable(w) ==
  /\ pc[w] \in {"retryable", "permanent"}
  /\ IF pc[w] = "permanent"
     THEN UNCHANGED rows
     ELSE IF WillExceedMaxAttemptsAfterFailure(w)
     THEN UpdateTo(held[w], Dead(rows[held[w]]))
     ELSE \E d \in Jittered(rows[held[w]].attempt) :
            UpdateTo(held[w], Failed(rows[held[w]], d))
  /\ Release(w)
  /\ UNCHANGED <<proc, reviving, sent, tries, faults, stops>>

HandlePublishFailure(w) ==
  /\ pc[w] \in {"retryable", "permanent"}
  /\ IF pc[w] = "permanent" \/ WillExceedMaxAttemptsAfterFailure(w)
     THEN UpdateTo(held[w], Dead(rows[held[w]]))
     ELSE \E d \in Jittered(rows[held[w]].attempt) :
            UpdateTo(held[w], Failed(rows[held[w]], d))
  /\ Release(w)
  /\ UNCHANGED <<proc, reviving, sent, tries, faults, stops>>

\* The update fails with another error: processOne returns it and the row
\* stays as it is.
UpdateError(w) ==
  /\ pc[w] \in Recording
  /\ Fault("update")
  /\ Release(w)
  /\ UNCHANGED <<rows, proc, reviving, sent, tries, stops>>

-----------------------------------------------------------------------------
(* Time *)

\* Unless SlowPublish, a worker is done with a message within StuckThreshold.
Tick ==
  /\ SlowPublish \/ \A w \in Workers : ~Idle(w) => rows[held[w]].age < StuckThreshold
  /\ AgeRows
  /\ UNCHANGED workerVars

-----------------------------------------------------------------------------

Work(w) ==
  \/ FetchAndLockToPublishing(w)
  \/ PublishAccepted(w)
  \/ PublishRetryable(w)
  \/ PublishPermanent(w)
  \/ UpdateToPublished(w)
  \/ HandlePublishFailure(w)

Next ==
  \/ ProcessNext /\ UNCHANGED workerVars
  \/ \E p \in Procs : Exit(p) \/ Crash(p)
  \/ \E w \in Workers : Work(w) \/ FetchLost(w) \/ UpdateError(w)
  \/ Tick

Spec == Init /\ [][Next]_vars

\* Timers fire, goroutines that can run do run, calls return, time passes, and
\* a process that is down is started again by its supervisor.
Fairness ==
  /\ WF_vars(Tick)
  /\ \A p \in Procs : /\ WF_vars(Start(p) /\ UNCHANGED workerVars)
                      /\ WF_vars(Revive(p) /\ UNCHANGED workerVars)
                      /\ WF_vars(RequeueFailed(p) /\ UNCHANGED workerVars)
                      /\ WF_vars(Exit(p))
  /\ \A w \in Workers : WF_vars(Work(w))

FairSpec == Spec /\ Fairness

-----------------------------------------------------------------------------
(* Properties *)

\* The message of a worker that has not finished processOne is PUBLISHING: it
\* was not recovered, requeued or settled by somebody else under its hands.
HeldIsPublishing ==
  \A w \in Workers : ~Idle(w) => rows[held[w]].status = "PUBLISHING"

\* No message is in the hands of two workers at once.
ExclusiveOwner ==
  \A v, w \in Workers : v # w /\ held[v] = held[w] => held[v] = NoMsg

\* The messages that are PUBLISHING and in no worker's hands.
Unattended ==
  {m \in Msgs : rows[m].status = "PUBLISHING"
                  /\ \A w \in Workers : Idle(w) \/ held[w] # m}

\* A fault leaves at most one message per worker of a process behind, and nothing else
\* leaves any: not a graceful stop, and not a worker that records its result late, on a
\* row that another one has fetched meanwhile.
LossIsBounded == Cardinality(Unattended) <= faults * Cardinality(Slots)

\* What a killed process leaves behind is not forgotten: until it is recovered, there is
\* a recovery to come that will find it old enough.
CrashIsRepaired == \A m \in Unattended : AwaitsRecovery(m)
=============================================================================
