---------------------------- MODULE OutboxProcess ----------------------------
(***************************************************************************)
(* What core/dispatcher.go and core/batch_dispatcher.go have in common:    *)
(* processes over one outbox table that are started and stopped, crash,    *)
(* recover stuck messages once after a start and requeue failed ones. The  *)
(* workers, which fetch and publish, are added by Dispatcher and by        *)
(* BatchDispatcher; the actions of this module leave them alone.           *)
(***************************************************************************)
EXTENDS OutboxTable

CONSTANTS
  Msgs,         \* outbox ids; m < n when created_at of m is before that of n
  Procs,        \* dispatcher processes
  MaxAttempts,  \* the max_attempts values that inserts use
  FaultKinds,   \* what can go wrong: a subset of AllFaults
  MaxFaults,    \* bound on the number of faults
  MaxStops,     \* bound on graceful stops
  LateRestart   \* whether a process starts only when no PUBLISHING row is
                \* younger than the threshold

AllFaults == {"crash", "revive", "fetch", "update"}

ASSUME ProcessAssumption ==
  /\ Msgs \subseteq Nat \ {0}
  /\ MaxAttempts \subseteq Nat \ {0}
  /\ FaultKinds \subseteq AllFaults
  /\ MaxFaults \in Nat
  /\ MaxStops \in Nat
  /\ LateRestart \in BOOLEAN

VARIABLES
  rows,      \* the outbox table
  proc,      \* "down", "up", or "stopping" once Stop has cancelled the context
  reviving,  \* whether the goroutine of Start has yet to call the recovery
  sent,      \* history: the messages the broker has accepted
  tries,     \* history: how many times the publisher was about to be called
  faults,    \* crashes and database errors so far
  stops      \* graceful stops so far

processVars == <<rows, proc, reviving, sent, tries, faults, stops>>

ProcessTypeOK ==
  /\ rows \in [Msgs -> Row]
  /\ proc \in [Procs -> {"down", "up", "stopping"}]
  /\ reviving \in [Procs -> BOOLEAN]
  /\ sent \in SUBSET Msgs
  /\ tries \in [Msgs -> Nat]
  /\ faults \in 0..MaxFaults
  /\ stops \in 0..MaxStops

ProcessInit ==
  /\ rows = [m \in Msgs |-> Absent]
  /\ proc = [p \in Procs |-> "down"]
  /\ reviving = [p \in Procs |-> FALSE]
  /\ sent = {}
  /\ tries = [m \in Msgs |-> 0]
  /\ faults = 0
  /\ stops = 0

-----------------------------------------------------------------------------
(* The application *)

\* Insert, seen at the commit of the business transaction it is part of.
Insert(m) ==
  /\ rows[m].status = "NONE"
  /\ \E k \in MaxAttempts : rows' = [rows EXCEPT ![m] = InsertedRow(k)]
  /\ UNCHANGED <<proc, reviving, sent, tries, faults, stops>>

\* The application's cleanup job.
DeleteOlderThan ==
  /\ \E m \in Msgs : Deletable(rows[m])
  /\ rows' = [m \in Msgs |-> IF Deletable(rows[m]) THEN Deleted(rows[m])
                                                   ELSE rows[m]]
  /\ UNCHANGED <<proc, reviving, sent, tries, faults, stops>>

-----------------------------------------------------------------------------
(* Processes: Start, the recovery goroutine, the requeue worker, Stop *)

\* A fault of kind k happens.
Fault(k) ==
  /\ k \in FaultKinds
  /\ faults < MaxFaults
  /\ faults' = faults + 1

\* The environment's choice of when to start a process.
MayStart == LateRestart => \A m \in Msgs : rows[m].status = "PUBLISHING"
                                              => Stuck(rows[m])

\* Mutant: AutoRecover is left at its zero value.
StartWithoutRecovery(p) ==
  /\ proc[p] = "down"
  /\ MayStart
  /\ proc' = [proc EXCEPT ![p] = "up"]
  /\ UNCHANGED <<rows, reviving, sent, tries, faults, stops>>

\* Start; AutoRecover is on, so the recovery goroutine is launched.
Start(p) ==
  /\ proc[p] = "down"
  /\ MayStart
  /\ proc' = [proc EXCEPT ![p] = "up"]
  /\ reviving' = [reviving EXCEPT ![p] = TRUE]
  /\ UNCHANGED <<rows, sent, tries, faults, stops>>

\* The goroutine runs once, under the context given to Start, which Stop does
\* not cancel.
Revive(p) ==
  /\ reviving[p]
  /\ reviving' = [reviving EXCEPT ![p] = FALSE]
  /\ \E d \in [Msgs -> 0..BackoffMax] :
       /\ \A m \in Msgs : IF Stuck(rows[m]) THEN d[m] \in Jittered(rows[m].attempt)
                                            ELSE d[m] = 0
       /\ rows' = [m \in Msgs |-> IF Stuck(rows[m]) THEN Revived(rows[m], d[m])
                                                    ELSE rows[m]]
  /\ UNCHANGED <<proc, sent, tries, faults, stops>>

\* ReviveStuckPublishing returns an error, which is logged and not retried.
ReviveError(p) ==
  /\ reviving[p]
  /\ Fault("revive")
  /\ reviving' = [reviving EXCEPT ![p] = FALSE]
  /\ UNCHANGED <<rows, proc, sent, tries, stops>>

\* A tick of runRequeueWorker that finds an eligible row. A statement that is
\* under way when Stop cancels the context may still commit.
RequeueFailed(p) ==
  /\ proc[p] # "down"
  /\ \E m \in Msgs : Requeueable(rows[m])
  /\ rows' = [m \in Msgs |-> IF Requeueable(rows[m]) THEN Requeued(rows[m])
                                                     ELSE rows[m]]
  /\ UNCHANGED <<proc, reviving, sent, tries, faults, stops>>

\* Stop cancels the workers' context and waits for them.
Stop(p) ==
  /\ proc[p] = "up"
  /\ stops < MaxStops
  /\ stops' = stops + 1
  /\ proc' = [proc EXCEPT ![p] = "stopping"]
  /\ UNCHANGED <<rows, reviving, sent, tries, faults>>

\* The process is gone, and its recovery goroutine with it.
Down(p) ==
  /\ proc' = [proc EXCEPT ![p] = "down"]
  /\ reviving' = [reviving EXCEPT ![p] = FALSE]

ProcessNext ==
  \/ \E m \in Msgs : Insert(m)
  \/ DeleteOlderThan
  \/ \E p \in Procs :
       \/ Start(p)
       \/ Revive(p)
       \/ ReviveError(p)
       \/ RequeueFailed(p)
       \/ Stop(p)

-----------------------------------------------------------------------------
(* What the workers use *)

\* Mutant: the update by id is unconditional.
UpdateToAnyStatus(m, r) == rows' = [rows EXCEPT ![m] = r]

\* An update of m by id that is conditional on PUBLISHING. When no row matches
\* the repository returns ErrInvalidStatus, which the workers only log.
UpdateTo(m, r) ==
  rows' = IF rows[m].status = "PUBLISHING" THEN [rows EXCEPT ![m] = r] ELSE rows

\* Time passes.
AgeRows ==
  /\ rows' = [m \in Msgs |-> Aged(rows[m])]
  /\ UNCHANGED <<proc, reviving, sent, tries, faults, stops>>

-----------------------------------------------------------------------------
(* Properties of the table, whatever kind of workers there are *)

\* A message is marked PUBLISHED only if the broker has accepted it, also when
\* a worker records its result on a row that another process has meanwhile
\* recovered, requeued and fetched again.
PublishedWasSent ==
  \A m \in Msgs : rows[m].status = "PUBLISHED" => m \in sent

\* The retry limit holds whatever workers, recoveries and restarts do:
\* attempt_count stays within max_attempts, and Publish is never called for a
\* message more than max_attempts times.
RetryLimit ==
  \A m \in Msgs : rows[m].status \in Statuses
                    => rows[m].attempt <= rows[m].max /\ tries[m] <= rows[m].max

\* A FAILED message can still be retried, as its status says.
FailedIsRetryable ==
  \A m \in Msgs : rows[m].status = "FAILED" => rows[m].attempt < rows[m].max

Settled == {"PUBLISHED", "DEAD", "DELETED"}

\* A settled message stays settled: no late update, requeue or recovery brings
\* it back, and no further attempt to publish it begins.
SettledIsFinal ==
  [][\A m \in Msgs : rows[m].status \in Settled
       => /\ rows'[m].status \in {rows[m].status, "DELETED"}
          /\ tries'[m] = tries[m]]_<<rows, tries>>

\* The part of a row that the application can rely on.
PhaseOf(status) ==
  CASE status = "NONE" -> "new"
    [] status \in {"ENQUEUED", "PUBLISHING", "FAILED"} -> "pending"
    [] status = "PUBLISHED" -> "published"
    [] status = "DEAD" -> "dead"
    [] status = "DELETED" -> "purged"

Promise == INSTANCE Delivery WITH
  phase <- [m \in Msgs |-> PhaseOf(rows[m].status)],
  delivered <- sent

\* The dispatcher keeps the promise of the outbox: every step of a worker, a
\* recovery or a requeue is a step that Delivery allows, or none at all.
KeepsPromise == Promise!Spec

\* A recovery that is still to come will find m stuck: a process is to be started, or
\* has been started and has not called ReviveStuckPublishing yet.
AwaitsRecovery(m) ==
  \E p \in Procs : proc[p] = "down" \/ (reviving[p] /\ Stuck(rows[m]))

\* Every message that was inserted is eventually published or given up.
EventuallySettled ==
  \A m \in Msgs : rows[m].status = "ENQUEUED" ~> rows[m].status \in Settled

\* A message does not stay PUBLISHING: if the process that fetched it is
\* killed, the recovery at restart moves it on.
PublishingIsTransient ==
  \A m \in Msgs : rows[m].status = "PUBLISHING" ~> rows[m].status # "PUBLISHING"
=============================================================================
