------------------------ MODULE BatchDispatcherProofs ------------------------
(***************************************************************************)
(* Theorems about BatchDispatcher, for every batch size, any number of     *)
(* messages, queues, processes and workers, and publishers of any          *)
(* slowness.                                                               *)
(***************************************************************************)
EXTENDS BatchDispatcher, OutboxProcessProofs

-----------------------------------------------------------------------------
(* Type correctness *)

LEMMA InitType == Init => TypeOK
  BY ProcessInitType DEF Init, TypeOK, Results

\* What a worker reads from a row, and writes into it, is well typed.
LEMMA WorkerRows ==
  ASSUME ProcessTypeOK, NEW m \in Msgs
  PROVE  /\ rows[m] \in Row
         /\ rows[m].attempt \in Nat
         /\ rows[m].max \in Nat
         /\ Fetched(rows[m]) \in Row
         /\ Published(rows[m]) \in Row
         /\ Dead(rows[m]) \in Row
         /\ \A d \in Jittered(rows[m].attempt) :
              d \in 0..BackoffMax /\ Failed(rows[m], d) \in Row
<1>1. rows[m] \in Row
  BY DEF ProcessTypeOK
<1>2. rows[m].attempt \in Nat /\ rows[m].max \in Nat
  BY <1>1 DEF Row
<1>3. /\ Fetched(rows[m]) \in Row
      /\ Published(rows[m]) \in Row
      /\ Dead(rows[m]) \in Row
  BY <1>1, RowTypes, TableAssumption DEF TableAssumption
<1>4. \A d \in Jittered(rows[m].attempt) :
        d \in 0..BackoffMax /\ Failed(rows[m], d) \in Row
  BY <1>1, <1>2, JitteredRange, RowTypes
<1> QED
  BY <1>1, <1>2, <1>3, <1>4

\* Every step keeps the types.
LEMMA NextType == TypeOK /\ [Next]_vars => TypeOK'
<1> SUFFICES ASSUME TypeOK, [Next]_vars PROVE TypeOK'
  OBVIOUS
<1>0. ProcessTypeOK
  BY DEF TypeOK
<1>1. CASE (ProcessNext \/ AgeRows) /\ UNCHANGED workerVars
  BY <1>0, <1>1, ProcessNextType DEF TypeOK, workerVars
<1>2. ASSUME NEW p \in Procs, Exit(p) PROVE TypeOK'
  BY <1>2 DEF Exit, Down, TypeOK, ProcessTypeOK, workerVars
<1>3. ASSUME NEW p \in Procs, Crash(p) PROVE TypeOK'
  <2>1. faults' \in 0..MaxFaults
    BY <1>0, <1>3, FaultType DEF Crash
  <2>2. sent' \in SUBSET Msgs
    <3>1. InFlight(p) \subseteq Msgs
      BY DEF InFlight, TypeOK, WorkersOf
    <3> QED
      BY <1>3, <3>1 DEF Crash, TypeOK, ProcessTypeOK
  <2>3. proc' \in [Procs -> {"down", "up", "stopping"}] /\ reviving' \in [Procs -> BOOLEAN]
    BY <1>3 DEF Crash, Down, TypeOK, ProcessTypeOK
  <2>4. /\ batch' \in [Workers -> SUBSET Msgs]
        /\ snap' \in [Workers -> [Msgs -> Nat]]
        /\ res' \in [Workers -> [Msgs -> Results]]
    BY <1>3 DEF Crash, TypeOK, Results
  <2> QED
    BY <1>3, <2>1, <2>2, <2>3, <2>4 DEF Crash, TypeOK, ProcessTypeOK
<1>4. ASSUME NEW S \in SUBSET Msgs, MarkPublishing(S) PROVE rows' \in [Msgs -> Row]
  BY <1>0, <1>4, WorkerRows DEF MarkPublishing
<1>5. ASSUME NEW w \in Workers, FetchLockAndMarkPublishing(w) PROVE TypeOK'
  <2>1. PICK S \in SUBSET Msgs :
          /\ MarkPublishing(S)
          /\ batch' = [batch EXCEPT ![w] = S]
          /\ snap' = [snap EXCEPT ![w] = [m \in Msgs |-> IF m \in S THEN rows[m].attempt
                                                                    ELSE 0]]
          /\ tries' = [m \in Msgs |-> IF m \in S THEN tries[m] + 1 ELSE tries[m]]
    BY <1>5, Zenon DEF FetchLockAndMarkPublishing
  <2>2. rows' \in [Msgs -> Row]
    BY <1>4, <2>1
  <2>3. [m \in Msgs |-> IF m \in S THEN rows[m].attempt ELSE 0] \in [Msgs -> Nat]
    BY <1>0, WorkerRows
  <2>4. /\ batch' \in [Workers -> SUBSET Msgs]
        /\ snap' \in [Workers -> [Msgs -> Nat]]
        /\ tries' \in [Msgs -> Nat]
    BY <2>1, <2>3 DEF TypeOK, ProcessTypeOK
  <2> QED
    BY <1>5, <2>2, <2>4 DEF FetchLockAndMarkPublishing, TypeOK, ProcessTypeOK
<1>6. ASSUME NEW w \in Workers, FetchLost(w) PROVE TypeOK'
  <2>1. rows' \in [Msgs -> Row]
    BY <1>4, <1>6 DEF FetchLost
  <2>2. faults' \in 0..MaxFaults
    BY <1>0, <1>6, FaultType DEF FetchLost
  <2> QED
    BY <1>6, <2>1, <2>2 DEF FetchLost, TypeOK, ProcessTypeOK, workerVars
<1>7. ASSUME NEW w \in Workers, NEW q \in Queues,
             BatchAnswered(w, q) \/ BatchFailed(w, q)
      PROVE  TypeOK'
  <2>1. Entries(w, q) \subseteq Msgs
    BY DEF Entries, Group, TypeOK
  <2>2. sent' \in SUBSET Msgs
    BY <1>7, <2>1 DEF BatchAnswered, BatchFailed, TypeOK, ProcessTypeOK
  <2>3. PICK ok : Answer(w, q, ok)
    BY <1>7 DEF BatchAnswered, BatchFailed
  <2>4. res' \in [Workers -> [Msgs -> Results]]
    BY <2>3 DEF Answer, TypeOK, Results, Failures
  <2> QED
    BY <1>7, <2>2, <2>4 DEF BatchAnswered, BatchFailed, TypeOK, ProcessTypeOK
<1>8. ASSUME NEW w \in Workers, NEW m \in Msgs, Done(w, m), DeadHook(w, m)
      PROVE  res' \in [Workers -> [Msgs -> Results]] /\ alarmed' \in SUBSET Msgs
  BY <1>8, SMT, Z3, Zenon DEF Done, DeadHook, TypeOK, Results
<1>9. ASSUME NEW w \in Workers, NEW m \in Msgs, HandlePublishFailure(w, m) PROVE TypeOK'
  <2>1. CASE UpdateTo(m, Dead(rows[m]))
    BY <1>0, <1>8, <1>9, <2>1, WorkerRows, UpdateToType, SMT, Z3, Zenon
       DEF HandlePublishFailure, TypeOK, ProcessTypeOK
  <2>2. ASSUME NEW d \in Jittered(rows[m].attempt), UpdateTo(m, Failed(rows[m], d))
        PROVE  TypeOK'
    BY <1>0, <1>8, <1>9, <2>2, WorkerRows, UpdateToType, SMT, Z3, Zenon
       DEF HandlePublishFailure, TypeOK, ProcessTypeOK
  <2> QED
    BY <1>9, <2>1, <2>2 DEF HandlePublishFailure
<1>10. ASSUME NEW w \in Workers, NEW m \in Msgs, FailureUpdateError(w, m) PROVE TypeOK'
  BY <1>0, <1>8, <1>10, FaultType DEF FailureUpdateError, TypeOK, ProcessTypeOK
<1>11. ASSUME NEW w \in Workers, Release(w)
       PROVE  /\ batch' \in [Workers -> SUBSET Msgs]
              /\ snap' \in [Workers -> [Msgs -> Nat]]
              /\ res' \in [Workers -> [Msgs -> Results]]
  BY <1>11 DEF Release, TypeOK, Results
<1>12. ASSUME NEW w \in Workers, UpdateBatchToPublished(w) PROVE TypeOK'
  <2>1. rows' \in [Msgs -> Row]
    BY <1>0, <1>12, WorkerRows DEF UpdateBatchToPublished
  <2>2. reported' \in SUBSET Msgs
    BY <1>12 DEF UpdateBatchToPublished, Successes, TypeOK
  <2> QED
    BY <1>11, <1>12, <2>1, <2>2 DEF UpdateBatchToPublished, TypeOK, ProcessTypeOK
<1>13. ASSUME NEW w \in Workers, UpdateBatchError(w) PROVE TypeOK'
  BY <1>0, <1>11, <1>13, FaultType DEF UpdateBatchError, TypeOK, ProcessTypeOK
<1>14. CASE UNCHANGED vars
  BY <1>14 DEF vars, TypeOK, ProcessTypeOK
<1> QED
  BY <1>1, <1>2, <1>3, <1>5, <1>6, <1>7, <1>9, <1>10, <1>12, <1>13, <1>14
     DEF Next, Work, Tick

\* Every reachable state of the batch dispatcher is well typed.
THEOREM TypeCorrect == Spec => []TypeOK
  BY InitType, NextType, PTL DEF Spec

-----------------------------------------------------------------------------
(* What a step can do to one row *)

\* A message whose result is a success has been accepted by the broker.
OkWasSent ==
  \A w \in Workers : \A m \in batch[w] : res[w][m] = "ok" => m \in sent

\* A worker without a batch has no results left from an earlier one.
CleanResults ==
  \A w \in Workers : \A m \in Msgs \ batch[w] : res[w][m] = "none"

\* The broker never gives a message back.
LEMMA SentGrows == TypeOK /\ [Next]_vars => sent \subseteq sent'
  BY ProcessNextHistory, ZenonT(30)
     DEF Next, vars, Work, Exit, Crash, FetchLockAndMarkPublishing, FetchLost,
         BatchAnswered, BatchFailed, HandlePublishFailure, FailureUpdateError,
         UpdateBatchToPublished, UpdateBatchError, Tick

\* How a step changes the batch and the results of one worker.
LEMMA WorkerMove ==
  ASSUME TypeOK, CleanResults, [Next]_vars, NEW w \in Workers
  PROVE  \/ batch'[w] = batch[w] /\ res'[w] = res[w]
         \/ /\ batch'[w] = {}
            /\ res'[w] = [m \in Msgs |-> "none"]
         \/ /\ batch[w] = {}
            /\ \A m \in batch'[w] : rows[m].status = "ENQUEUED"
            /\ res'[w] = res[w]
         \/ /\ batch'[w] = batch[w]
            /\ \A m \in Msgs : \/ res'[w][m] = res[w][m]
                               \/ m \in batch[w] /\ res'[w][m] # "ok"
                               \/ m \in batch[w] /\ m \in sent'
<1> DEFINE Goal == \/ batch'[w] = batch[w] /\ res'[w] = res[w]
                   \/ /\ batch'[w] = {}
                      /\ res'[w] = [m \in Msgs |-> "none"]
                   \/ /\ batch[w] = {}
                      /\ \A m \in batch'[w] : rows[m].status = "ENQUEUED"
                      /\ res'[w] = res[w]
                   \/ /\ batch'[w] = batch[w]
                      /\ \A m \in Msgs : \/ res'[w][m] = res[w][m]
                                         \/ m \in batch[w] /\ res'[w][m] # "ok"
                                         \/ m \in batch[w] /\ m \in sent'
<1> SUFFICES Goal
  OBVIOUS
<1> USE DEF TypeOK
<1>1. CASE UNCHANGED <<batch, res>>
  BY <1>1
<1>2. ASSUME NEW p \in Procs, Crash(p) PROVE Goal
  BY <1>2 DEF Crash
<1>3. ASSUME NEW v \in Workers, FetchLockAndMarkPublishing(v) PROVE Goal
  BY <1>3 DEF FetchLockAndMarkPublishing, OldestBatch, Idle
<1>4. ASSUME NEW v \in Workers, NEW q \in Queues, BatchAnswered(v, q) \/ BatchFailed(v, q)
      PROVE  Goal
  <2>1. PICK ok : Answer(v, q, ok) /\ ok \subseteq sent' /\ batch' = batch
    BY <1>4 DEF BatchAnswered, BatchFailed
  <2>2. \A m \in Msgs : \/ res'[v][m] = res[v][m]
                        \/ m \in batch[v] /\ res'[v][m] # "ok"
                        \/ m \in batch[v] /\ m \in sent'
    BY <2>1 DEF Answer, Group
  <2>3. w # v => res'[w] = res[w]
    BY <2>1 DEF Answer
  <2> QED
    BY <2>1, <2>2, <2>3
<1>5. ASSUME NEW v \in Workers, NEW n \in Msgs, n \in batch[v], Done(v, n), batch' = batch
      PROVE  Goal
  BY <1>5 DEF Done
<1>6. ASSUME NEW v \in Workers, Release(v) PROVE Goal
  BY <1>6 DEF Release
<1> QED
  BY <1>1, <1>2, <1>3, <1>4, <1>5, <1>6, ZenonT(30)
     DEF Next, vars, workerVars, Work, Exit, FetchLost, HandlePublishFailure,
         FailureUpdateError, UpdateBatchToPublished, UpdateBatchError, Tick

\* Results are written for the messages of the batch only, and "ok" only with
\* the acceptance of the broker.
LEMMA NextResults ==
  TypeOK /\ OkWasSent /\ CleanResults /\ [Next]_vars => OkWasSent' /\ CleanResults'
<1> SUFFICES ASSUME TypeOK, OkWasSent, CleanResults, [Next]_vars, NEW w \in Workers
             PROVE  /\ \A m \in batch'[w] : res'[w][m] = "ok" => m \in sent'
                    /\ \A m \in Msgs \ batch'[w] : res'[w][m] = "none"
  BY DEF OkWasSent, CleanResults
<1>1. TypeOK' /\ sent \subseteq sent'
  BY NextType, SentGrows
<1> QED
  BY <1>1, WorkerMove, SMTT(30), Z3T(30) DEF OkWasSent, CleanResults, TypeOK

\* No step does anything else to a row than RowMove says, whoever takes it.
LEMMA NextRowMove ==
  TypeOK /\ OkWasSent /\ [Next]_vars => \A m \in Msgs : RowMove(m)
<1> SUFFICES ASSUME TypeOK, OkWasSent, [Next]_vars, NEW m \in Msgs
             PROVE  RowMove(m)
  OBVIOUS
<1> USE DEF TypeOK
<1>1. CASE UNCHANGED <<rows, tries>>
  BY <1>1 DEF RowMove
<1>2. CASE ProcessNext \/ AgeRows
  BY <1>2, ProcessRowMove, Zenon
<1>3. ASSUME NEW w \in Workers, FetchLockAndMarkPublishing(w) PROVE RowMove(m)
  BY <1>3, ZenonT(30) DEF FetchLockAndMarkPublishing, MarkPublishing, OldestBatch, RowMove
<1>4. ASSUME NEW w \in Workers, FetchLost(w) PROVE RowMove(m)
  BY <1>4, Zenon DEF FetchLost, MarkPublishing, OldestBatch, RowMove
<1>5. ASSUME NEW w \in Workers, UpdateBatchToPublished(w) PROVE RowMove(m)
  BY <1>5 DEF UpdateBatchToPublished, Successes, OkWasSent, RowMove
<1>6. ASSUME NEW w \in Workers, NEW n \in Msgs, HandlePublishFailure(w, n)
      PROVE  RowMove(m)
  <2>1. tries' = tries
    BY <1>6 DEF HandlePublishFailure
  <2>2. rows[n].attempt \in Nat /\ rows[n].max \in Nat /\ snap[w][n] \in Nat
    BY DEF ProcessTypeOK, Row
  <2>3. CASE UpdateTo(n, Dead(rows[n]))
    BY <2>1, <2>3 DEF UpdateTo, ProcessTypeOK, RowMove
  <2>4. ASSUME ~GivesUp(w, n), NEW d \in Jittered(rows[n].attempt),
               UpdateTo(n, Failed(rows[n], d))
        PROVE  RowMove(m)
    <3>1. d \in 0..BackoffMax
      BY <2>2, <2>4, JitteredRange, SMT, Z3, Zenon
    <3>2. rows[n].max > 1
      BY <2>2, <2>4 DEF GivesUp, WillExceedMaxAttemptsAfterFailure
    <3> QED
      BY <2>1, <2>4, <3>1, <3>2, ZenonT(30) DEF UpdateTo, ProcessTypeOK, RowMove
  <2> QED
    BY <1>6, <2>3, <2>4 DEF HandlePublishFailure
<1> QED
  BY <1>1, <1>2, <1>3, <1>4, <1>5, <1>6, Zenon
     DEF Next, vars, Work, Exit, Crash, BatchAnswered, BatchFailed,
         FailureUpdateError, UpdateBatchError, Tick

-----------------------------------------------------------------------------
(* Safety for publishers of any slowness *)

\* The messages of a batch have been inserted.
BatchInserted == \A w \in Workers : \A m \in batch[w] : rows[m].status # "NONE"

Inv ==
  /\ TypeOK
  /\ OkWasSent
  /\ CleanResults
  /\ BatchInserted
  /\ PublishedWasSent
  /\ \A m \in Msgs : WithinLimit(m)

LEMMA InitInv == Init => Inv
<1> SUFFICES ASSUME Init PROVE Inv
  OBVIOUS
<1>1. TypeOK
  BY InitType
<1>2. OkWasSent /\ CleanResults /\ BatchInserted /\ PublishedWasSent
  BY DEF Init, ProcessInit, OkWasSent, CleanResults, BatchInserted,
         PublishedWasSent, Absent
<1>3. \A m \in Msgs : WithinLimit(m)
  BY DEF Init, ProcessInit, WithinLimit, Absent, Statuses
<1> QED
  BY <1>1, <1>2, <1>3 DEF Inv

LEMMA NextInv == Inv /\ [Next]_vars => Inv'
<1> SUFFICES ASSUME Inv, [Next]_vars PROVE Inv'
  OBVIOUS
<1> USE DEF Inv
<1>1. TypeOK'
  BY NextType
<1>2. OkWasSent' /\ CleanResults'
  BY NextResults
<1>3. \A m \in Msgs : RowMove(m)
  BY NextRowMove, SMT, Z3, Zenon
<1>4. PublishedWasSent'
  BY <1>3, MovePublished, SentGrows DEF TypeOK, PublishedWasSent
<1>5. \A m \in Msgs : WithinLimit(m)'
  BY <1>3, MoveWithinLimit DEF TypeOK
<1>6. BatchInserted'
  <2> SUFFICES ASSUME NEW w \in Workers, NEW m \in batch'[w]
               PROVE  rows'[m].status # "NONE"
    BY DEF BatchInserted
  <2>1. m \in Msgs
    BY <1>1 DEF TypeOK
  <2>2. m \in batch[w] \/ rows[m].status = "ENQUEUED"
    BY WorkerMove
  <2>3. rows[m].status # "NONE"
    BY <2>2 DEF BatchInserted
  <2> QED
    BY <1>3, <2>1, <2>3, MoveInserted, SMT, Z3, Zenon DEF TypeOK
<1> QED
  BY <1>1, <1>2, <1>4, <1>5, <1>6

LEMMA InvHolds == Spec => []Inv
  BY InitInv, NextInv, PTL DEF Spec

\* A row is marked PUBLISHED only after the broker accepted the message, however
\* batches are answered in part, fail or are recovered while they are published.
THEOREM PublishedOnlyIfSent == Spec => []PublishedWasSent
<1>1. Inv => PublishedWasSent
  BY DEF Inv
<1> QED
  BY <1>1, InvHolds, PTL

\* Neither attempt_count nor the number of batches that a message was in ever
\* exceeds max_attempts.
THEOREM RetriesAreLimited == Spec => []RetryLimit
<1>1. Inv => RetryLimit
  <2> SUFFICES ASSUME Inv, NEW m \in Msgs, rows[m].status \in Statuses
               PROVE  rows[m].attempt <= rows[m].max /\ tries[m] <= rows[m].max
    BY DEF RetryLimit
  <2>1. rows[m].attempt \in Nat /\ rows[m].max \in Nat /\ tries[m] \in Nat
    BY DEF Inv, TypeOK, ProcessTypeOK, Row
  <2> QED
    BY <2>1 DEF Inv, WithinLimit
<1> QED
  BY <1>1, InvHolds, PTL

\* PUBLISHED and DEAD are final for batches too.
THEOREM SettledStaysSettled == Spec => SettledIsFinal
<1> DEFINE Final == \A m \in Msgs : rows[m].status \in Settled
                      => /\ rows'[m].status \in {rows[m].status, "DELETED"}
                         /\ tries'[m] = tries[m]
<1>1. Inv /\ [Next]_vars => [Final]_<<rows, tries>>
  BY NextRowMove, MoveSettled DEF Inv, TypeOK
<1> QED
  BY <1>1, InvHolds, PTL DEF Spec, SettledIsFinal

\* OnPublishSuccess is called only for messages whose rows have become PUBLISHED in the
\* same step, and no step takes that back, however slow publishers are.
THEOREM ReportsAreTrue == Spec => []ReportedIsPublished
<1>1. Init => ReportedIsPublished
  BY SMTT(30) DEF Init, ReportedIsPublished
<1>2. ASSUME Inv, ReportedIsPublished, [Next]_vars
      PROVE  ReportedIsPublished'
  <2>1. \A m \in Msgs : RowMove(m)
    BY <1>2, NextRowMove DEF Inv
  <2>2. TypeOK /\ ProcessTypeOK
    BY <1>2 DEF Inv, TypeOK
  <2>3. ASSUME NEW m \in Msgs, rows[m].status \in {"PUBLISHED", "DELETED"}
        PROVE  rows'[m].status \in {"PUBLISHED", "DELETED"}
    <3>1. CASE rows[m].status = "PUBLISHED"
      BY <2>1, <2>2, <3>1, MoveSettled, Zenon DEF Settled
    <3>2. CASE rows[m].status = "DELETED"
      BY <2>1, <2>2, <3>2, NewStatus, TableAssumption
         DEF RowMove, Requeueable, Deletable, TableAssumption
    <3> QED
      BY <2>3, <3>1, <3>2
  <2>4. CASE reported' = reported
    BY <1>2, <2>2, <2>3, <2>4, SMTT(30), Z3T(30) DEF ReportedIsPublished, TypeOK
  <2>5. ASSUME NEW w \in Workers, UpdateBatchToPublished(w)
        PROVE  ReportedIsPublished'
    <3>1. CASE reported' = reported
      BY <2>4, <3>1, SMT, Z3, Zenon
    <3>2. CASE /\ \A m \in Successes(w) : rows[m].status = "PUBLISHING"
               /\ reported' = reported \cup Successes(w)
      <4>1. Successes(w) \subseteq Msgs
        BY <2>2 DEF Successes, TypeOK
      <4>2. \A m \in Successes(w) : rows'[m] = Published(rows[m])
        BY <2>5, <3>2, <4>1, Zenon DEF UpdateBatchToPublished
      <4>3. \A m \in Successes(w) : rows'[m].status = "PUBLISHED"
        BY <2>2, <4>1, <4>2, NewStatus, Zenon
      <4> QED
        BY <1>2, <2>2, <2>3, <3>2, <4>3 DEF ReportedIsPublished, TypeOK
    <3> QED
      BY <2>5, <3>1, <3>2, Zenon DEF UpdateBatchToPublished
  <2> QED
    BY <1>2, <2>4, <2>5, Zenon
       DEF Next, vars, workerVars, Work, Exit, Crash, FetchLockAndMarkPublishing, FetchLost,
           BatchAnswered, BatchFailed, HandlePublishFailure, FailureUpdateError,
           UpdateBatchError, Tick
<1> QED
  BY <1>1, <1>2, InvHolds, PTL DEF Spec

-----------------------------------------------------------------------------
(* What faults leave behind *)

\* A step is one of the process or of time, a stop or a crash, one of a worker, or none.
LEMMA StepCases ==
  ASSUME [Next]_vars
  PROVE  \/ (ProcessNext \/ AgeRows) /\ UNCHANGED workerVars
         \/ \E p \in Procs : Exit(p)
         \/ \E p \in Procs : Crash(p)
         \/ \E w \in Workers : Work(w)
         \/ \E w \in Workers : FetchLost(w)
         \/ \E w \in Workers, m \in Msgs : FailureUpdateError(w, m)
         \/ \E w \in Workers : UpdateBatchError(w)
         \/ UNCHANGED vars
BY Zenon DEF Next, Tick

\* Whoever takes a message out of its batch has recorded its result: no step of a worker
\* leaves a message behind, and none touches one that is.
LEMMA WorkAttends ==
  ASSUME Inv, NEW w \in Workers, Work(w), NEW m \in Unattended'
  PROVE  m \in Unattended /\ rows'[m] = rows[m]
<1>0. /\ CleanResults
      /\ batch \in [Workers -> SUBSET Msgs] /\ res \in [Workers -> [Msgs -> Results]]
      /\ rows \in [Msgs -> Row]
  BY Zenon DEF Inv, TypeOK, ProcessTypeOK
<1>1. /\ m \in Msgs /\ rows'[m].status = "PUBLISHING"
      /\ \A v \in Workers : m \in batch'[v] => res'[v][m] = "done"
  BY DEF Unattended, Open
<1>a. ASSUME rows'[m] = rows[m],
             \A v \in Workers : m \in batch[v] => res[v][m] = "done"
      PROVE  m \in Unattended /\ rows'[m] = rows[m]
  BY <1>1, <1>a DEF Unattended, Open
<1>2. CASE FetchLockAndMarkPublishing(w)
  <2>1. PICK S \in SUBSET Msgs : MarkPublishing(S) /\ batch' = [batch EXCEPT ![w] = S]
    BY <1>2, Zenon DEF FetchLockAndMarkPublishing
  <2>2. batch[w] = {} /\ res' = res
    BY <1>2 DEF FetchLockAndMarkPublishing, Idle
  <2>3. m \notin S
    <3>1. m \in S => m \in batch'[w] /\ res'[w][m] = "none"
      BY <1>0, <2>1, <2>2 DEF CleanResults
    <3> QED
      BY <1>1, <3>1
  <2>4. rows'[m] = rows[m]
    BY <1>1, <2>1, <2>3 DEF MarkPublishing
  <2>5. \A v \in Workers : m \in batch[v] => m \in batch'[v]
    BY <1>0, <2>1, <2>2, Zenon
  <2> QED
    BY <1>1, <1>a, <2>2, <2>4, <2>5
<1>3. ASSUME NEW q \in Queues, BatchAnswered(w, q) \/ BatchFailed(w, q)
      PROVE  m \in Unattended /\ rows'[m] = rows[m]
  <2>1. PICK ok : Answer(w, q, ok)
    BY <1>3, Zenon DEF BatchAnswered, BatchFailed
  <2>2. batch' = batch /\ rows' = rows
    BY <1>3, Zenon DEF BatchAnswered, BatchFailed
  <2>3. \A v \in Workers : res'[v][m] = "done" => res[v][m] = "done"
    BY <1>0, <1>1, <2>1 DEF Answer
  <2> QED
    BY <1>1, <1>a, <2>2, <2>3
<1>4. ASSUME NEW n \in Msgs, HandlePublishFailure(w, n)
      PROVE  m \in Unattended /\ rows'[m] = rows[m]
  <2>1. batch' = batch /\ res' = [res EXCEPT ![w][n] = "done"]
    BY <1>4, Zenon DEF HandlePublishFailure, Done
  <2>2. PICK r : UpdateTo(n, r) /\ r.status # "PUBLISHING"
    <3>1. /\ Dead(rows[n]).status # "PUBLISHING"
          /\ \A d : Failed(rows[n], d).status # "PUBLISHING"
      BY ZenonT(30) DEF Dead, Failed, Updated
    <3> QED
      BY <1>4, <3>1, ZenonT(30) DEF HandlePublishFailure
  <2>3. m # n /\ rows'[m] = rows[m]
    BY <1>0, <1>1, <2>2, Zenon DEF UpdateTo
  <2>4. \A v \in Workers : res'[v][m] = res[v][m]
    BY <1>0, <1>1, <2>1, <2>3, SMT, Z3, Zenon
  <2> QED
    BY <1>1, <1>a, <2>1, <2>3, <2>4
<1>5. CASE UpdateBatchToPublished(w)
  <2>1. /\ batch' = [batch EXCEPT ![w] = {}]
        /\ res' = [res EXCEPT ![w] = [n \in Msgs |-> "none"]]
        /\ FailuresHandled(w)
    BY <1>5, SMT, Z3, Zenon DEF UpdateBatchToPublished, Release
  <2>2. rows'[m] = rows[m] /\ m \notin Successes(w)
    <3>1. Published(rows[m]).status # "PUBLISHING"
      BY SMT, Z3, Zenon DEF Published, Updated
    <3> QED
      BY <1>1, <1>5, <3>1 DEF UpdateBatchToPublished
  <2>3. m \in batch[w] => res[w][m] = "done"
    BY <1>0, <1>1, <2>1, <2>2 DEF Successes, FailuresHandled, Returned, Results, Failures
  <2>4. \A v \in Workers : v # w => batch'[v] = batch[v] /\ res'[v] = res[v]
    BY <1>0, <2>1
  <2> QED
    BY <1>1, <1>a, <2>2, <2>3, <2>4, SMT, Z3, Zenon
<1> QED
  BY <1>2, <1>3, <1>4, <1>5, Zenon DEF Work

\* The steps that concern no worker leave no message behind either.
LEMMA ProcessAttends ==
  ASSUME Inv, ProcessNext \/ AgeRows, UNCHANGED workerVars, NEW m \in Unattended'
  PROVE  m \in Unattended
<1>1. m \in Msgs /\ rows[m].status = "PUBLISHING"
  BY ProcessNextPublishing DEF Unattended, Inv, TypeOK
<1> QED
  BY <1>1 DEF Unattended, Open, workerVars

\* A worker never has more than BatchSize messages.
BatchFits == \A w \in Workers : IsFiniteSet(batch[w]) /\ Cardinality(batch[w]) <= BatchSize

LEMMA InitFits == Init => BatchFits
  BY BatchAssumption, FS_EmptySet DEF Init, BatchFits, BatchAssumption

\* The fetch statement takes no more than its limit.
LEMMA OldestFits ==
  ASSUME NEW S \in SUBSET Msgs, OldestBatch(S)
  PROVE  IsFiniteSet(S) /\ Cardinality(S) <= BatchSize
<1>1. IsFiniteSet(S) /\ BatchSize \in Nat
  BY BatchAssumption, FS_Subset DEF BatchAssumption
<1>2. Cardinality(S) \in Nat
  BY <1>1, FS_CardinalityType
<1>3. Cardinality(S) = BatchSize \/ Cardinality(S) < BatchSize
  BY Zenon DEF OldestBatch
<1> QED
  BY <1>1, <1>2, <1>3

LEMMA NextFits == Inv /\ BatchFits /\ [Next]_vars => BatchFits'
<1> SUFFICES ASSUME Inv, BatchFits, [Next]_vars PROVE BatchFits'
  OBVIOUS
<1>0. batch \in [Workers -> SUBSET Msgs]
  BY DEF Inv, TypeOK
<1>1. IsFiniteSet({}) /\ Cardinality({}) <= BatchSize
  BY BatchAssumption, FS_EmptySet DEF BatchAssumption
<1>2. ASSUME UNCHANGED batch PROVE BatchFits'
  BY <1>2 DEF BatchFits
<1>3. ASSUME NEW w \in Workers, FetchLockAndMarkPublishing(w) PROVE BatchFits'
  <2>1. PICK S \in SUBSET Msgs : OldestBatch(S) /\ batch' = [batch EXCEPT ![w] = S]
    BY <1>3, Zenon DEF FetchLockAndMarkPublishing
  <2>2. IsFiniteSet(S) /\ Cardinality(S) <= BatchSize
    BY <2>1, OldestFits
  <2> QED
    BY <1>0, <2>1, <2>2 DEF BatchFits
<1>4. ASSUME NEW w \in Workers, UpdateBatchToPublished(w) \/ UpdateBatchError(w)
      PROVE  BatchFits'
  <2>1. batch' = [batch EXCEPT ![w] = {}]
    BY <1>4, SMT, Z3, Zenon DEF UpdateBatchToPublished, UpdateBatchError, Release
  <2> QED
    BY <1>0, <1>1, <2>1, SMT, Z3, Zenon DEF BatchFits
<1>5. ASSUME NEW p \in Procs, Crash(p) PROVE BatchFits'
  <2>1. batch' = [w \in Workers |-> IF w[1] = p THEN {} ELSE batch[w]]
    BY <1>5 DEF Crash
  <2> QED
    BY <1>1, <2>1, SMT, Z3, Zenon DEF BatchFits
<1>6. \/ UNCHANGED batch
      \/ \E w \in Workers : FetchLockAndMarkPublishing(w)
      \/ \E w \in Workers : UpdateBatchToPublished(w) \/ UpdateBatchError(w)
      \/ \E p \in Procs : Crash(p)
  BY StepCases, Zenon
     DEF Work, workerVars, vars, Exit, FetchLost, BatchAnswered, BatchFailed,
         HandlePublishFailure, FailureUpdateError
<1> QED
  BY <1>2, <1>3, <1>4, <1>5, <1>6, Zenon

\* A fault leaves behind what the worker, or the workers of the process, had in hand.
LEMMA FaultLeaves ==
  ASSUME Inv, BatchFits, [Next]_vars
  PROVE  \/ Unattended' \subseteq Unattended /\ faults' = faults
         \/ /\ \E k : Fault(k)
            /\ \E T : /\ IsFiniteSet(T)
                      /\ Cardinality(T) <= Cardinality(Slots) * BatchSize
                      /\ Unattended' \subseteq Unattended \cup T
<1> DEFINE Limit == Cardinality(Slots) * BatchSize
           Left == \E T : /\ IsFiniteSet(T) /\ Cardinality(T) <= Limit
                          /\ Unattended' \subseteq Unattended \cup T
<1>0. /\ batch \in [Workers -> SUBSET Msgs] /\ res \in [Workers -> [Msgs -> Results]]
      /\ rows \in [Msgs -> Row]
  BY DEF Inv, TypeOK, ProcessTypeOK
<1>a. IsFiniteSet(Slots) /\ Cardinality(Slots) \in Nat /\ BatchSize \in Nat
  BY BatchAssumption, FS_CardinalityType DEF BatchAssumption
<1>b. ASSUME Unattended' \subseteq Unattended PROVE Left
  <2>1. Limit \in Nat
    BY <1>a
  <2>2. IsFiniteSet({}) /\ Cardinality({}) <= Limit
    BY <2>1, FS_EmptySet
  <2> HIDE DEF Limit
  <2> QED
    BY <1>b, <2>2, Zenon
<1>c. ASSUME NEW w \in Workers, NEW T, IsFiniteSet(T), Cardinality(T) <= BatchSize,
             Unattended' \subseteq Unattended \cup T
      PROVE  Left
  <2>1. Slots # {}
    BY DEF Workers
  <2>2. Cardinality(Slots) >= 1
    BY <1>a, <2>1, FS_EmptySet
  <2>3. BatchSize <= Limit
    <3>1. ASSUME NEW a \in Nat, NEW c \in Nat, a >= 1 PROVE c <= a * c
      BY <3>1
    <3> QED
      BY <1>a, <2>2, <3>1
  <2>4. Cardinality(T) \in Nat /\ Limit \in Nat
    BY <1>a, <1>c, FS_CardinalityType
  <2> HIDE DEF Limit
  <2>5. Cardinality(T) <= Limit
    BY <1>a, <1>c, <2>3, <2>4
  <2> QED
    BY <1>c, <2>5, Zenon
<1>1. CASE (ProcessNext \/ AgeRows) /\ UNCHANGED workerVars
  <2>1. Unattended' \subseteq Unattended
    BY <1>1, ProcessAttends
  <2> QED
    BY <1>1, <1>b, <2>1, ProcessNextFaults
<1>2. ASSUME NEW p \in Procs, Exit(p)
      PROVE  Unattended' \subseteq Unattended /\ faults' = faults
  BY <1>2 DEF Exit, workerVars, Unattended, Open
<1>3. ASSUME NEW p \in Procs, Crash(p) PROVE Left
  <2> DEFINE B == [s \in Slots |-> batch[<<p, s>>]]
             T == UNION {B[s] : s \in Slots}
  <2>1. \A s \in Slots : IsFiniteSet(B[s]) /\ Cardinality(B[s]) <= BatchSize
    BY DEF BatchFits, Workers
  <2>2. \A s \in Slots : B[s] = batch[<<p, s>>]
    OBVIOUS
  <2>3. ASSUME NEW m \in Unattended', m \notin Unattended PROVE m \in T
    <3>1. PICK v \in Workers : m \in batch[v] /\ res[v][m] # "done"
      BY <1>3, <2>3, Zenon DEF Crash, Unattended, Open
    <3>2. v[1] = p
      BY <1>3, <2>3, <3>1 DEF Crash, Unattended, Open
    <3>3. v[2] \in Slots /\ v = <<p, v[2]>>
      BY <3>2, SMTT(30), Z3T(30) DEF Workers
    <3> QED
      BY <2>2, <3>1, <3>3, Zenon
  <2> HIDE DEF B
  <2>4. IsFiniteSet(T) /\ Cardinality(T) <= Limit
    BY <1>a, <2>1, UnionBound, Zenon
  <2> QED
    BY <2>3, <2>4
<1>4. ASSUME NEW w \in Workers, Work(w)
      PROVE  Unattended' \subseteq Unattended /\ faults' = faults
  <2>1. faults' = faults
    BY <1>4, Zenon DEF Work, FetchLockAndMarkPublishing, BatchAnswered, BatchFailed,
                       HandlePublishFailure, UpdateBatchToPublished
  <2> QED
    BY <1>4, <2>1, WorkAttends
<1>5. ASSUME NEW w \in Workers, FetchLost(w) PROVE Left
  <2>1. PICK S \in SUBSET Msgs : OldestBatch(S) /\ MarkPublishing(S)
    BY <1>5, Zenon DEF FetchLost
  <2>2. IsFiniteSet(S) /\ Cardinality(S) <= BatchSize
    BY <2>1, OldestFits, Zenon
  <2>3. Unattended' \subseteq Unattended \cup S
    BY <1>5, <2>1 DEF FetchLost, workerVars, MarkPublishing, Unattended, Open
  <2> QED
    BY <1>c, <2>2, <2>3, Zenon
<1>6. ASSUME NEW w \in Workers, NEW n \in Msgs, FailureUpdateError(w, n) PROVE Left
  <2>1. rows' = rows /\ batch' = batch /\ res' = [res EXCEPT ![w][n] = "done"]
    BY <1>6 DEF FailureUpdateError, Done
  <2>2. \A v \in Workers, m \in Msgs : m # n => res'[v][m] = res[v][m]
    BY <1>0, <2>1, SMT, Z3, Zenon
  <2>3. Unattended' \subseteq Unattended \cup batch[w]
    BY <1>6, <2>1, <2>2 DEF FailureUpdateError, Unattended, Open
  <2> QED
    BY <1>c, <2>3, Zenon DEF BatchFits
<1>7. ASSUME NEW w \in Workers, UpdateBatchError(w) PROVE Left
  <2>1. /\ rows' = rows
        /\ \A v \in Workers : v # w => batch'[v] = batch[v] /\ res'[v] = res[v]
    BY <1>0, <1>7 DEF UpdateBatchError, Release
  <2>2. Unattended' \subseteq Unattended \cup batch[w]
    BY <2>1, SMT, Z3, Zenon DEF Unattended, Open
  <2> QED
    BY <1>c, <2>2, Zenon DEF BatchFits
<1>8. CASE UNCHANGED vars
  BY <1>8 DEF vars, Unattended, Open
<1>9. /\ \A p \in Procs : Crash(p) => \E k : Fault(k)
      /\ \A w \in Workers : FetchLost(w) \/ UpdateBatchError(w) => \E k : Fault(k)
      /\ \A w \in Workers, m \in Msgs : FailureUpdateError(w, m) => \E k : Fault(k)
  BY Zenon DEF Crash, FetchLost, UpdateBatchError, FailureUpdateError
<1> QED
  BY <1>1, <1>2, <1>3, <1>4, <1>5, <1>6, <1>7, <1>8, <1>9, StepCases, ZenonT(30)

\* The messages that are left behind are finitely many, and no more than the faults
\* account for.
LossInv == IsFiniteSet(Unattended) /\ LossIsBounded

LEMMA InitLoss == Init => LossInv
<1> SUFFICES ASSUME Init PROVE LossInv
  OBVIOUS
<1>1. Unattended = {}
  BY DEF Init, ProcessInit, Unattended, Absent
<1>2. faults = 0 /\ Cardinality(Slots) \in Nat /\ BatchSize \in Nat
  BY BatchAssumption, FS_CardinalityType DEF Init, ProcessInit, BatchAssumption
<1>3. Cardinality(Slots) * BatchSize \in Nat
  BY <1>2
<1> QED
  BY <1>1, <1>2, <1>3, FS_EmptySet, SMT, Z3, Zenon DEF LossInv, LossIsBounded

LEMMA NextLoss == Inv /\ BatchFits /\ LossInv /\ [Next]_vars => LossInv'
<1> SUFFICES ASSUME Inv, BatchFits, LossInv, [Next]_vars PROVE LossInv'
  OBVIOUS
<1> DEFINE Limit == Cardinality(Slots) * BatchSize
<1>0. Limit \in Nat
  <2>1. Cardinality(Slots) \in Nat /\ BatchSize \in Nat
    BY BatchAssumption, FS_CardinalityType DEF BatchAssumption
  <2> QED
    BY <2>1
<1>1. /\ IsFiniteSet(Unattended) /\ Cardinality(Unattended) <= faults * Limit
      /\ faults \in Nat
  BY ProcessAssumption
     DEF ProcessAssumption, Inv, TypeOK, ProcessTypeOK, LossInv, LossIsBounded
<1>a. \/ Unattended' \subseteq Unattended /\ faults' = faults
      \/ /\ \E k : Fault(k)
         /\ \E T : /\ IsFiniteSet(T) /\ Cardinality(T) <= Limit
                   /\ Unattended' \subseteq Unattended \cup T
  BY FaultLeaves, Zenon
<1>b. ASSUME IsFiniteSet(Unattended'), Cardinality(Unattended') <= faults' * Limit
      PROVE  LossInv'
  BY <1>b DEF LossInv, LossIsBounded
<1> HIDE DEF Limit
<1>2. CASE Unattended' \subseteq Unattended /\ faults' = faults
  <2>1. IsFiniteSet(Unattended') /\ Cardinality(Unattended') <= Cardinality(Unattended)
    BY <1>1, <1>2, FS_Subset
  <2>2. Cardinality(Unattended') \in Nat /\ Cardinality(Unattended) \in Nat
    BY <1>1, <2>1, FS_CardinalityType
  <2>3. faults * Limit \in Nat
    BY <1>0, <1>1
  <2>4. Cardinality(Unattended') <= faults * Limit
    BY <1>1, <2>1, <2>2, <2>3
  <2> QED
    BY <1>2, <1>b, <2>1, <2>4
<1>3. ASSUME NEW k, Fault(k), NEW T, IsFiniteSet(T), Cardinality(T) <= Limit,
             Unattended' \subseteq Unattended \cup T
      PROVE  LossInv'
  <2>1. faults' = faults + 1
    BY <1>3 DEF Fault
  <2>2. IsFiniteSet(Unattended') /\ Cardinality(Unattended') <= (faults + 1) * Limit
    BY <1>0, <1>1, <1>3, LossGrows, Zenon
  <2> QED
    BY <1>b, <2>1, <2>2
<1> QED
  BY <1>2, <1>3, <1>a, Zenon

\* A crash or a failed database call leaves at most WorkerCount * BatchSize messages
\* PUBLISHING with no worker to record them (core/batch_dispatcher.go); without a fault
\* there is none, whatever partial failures, slow publishers, recoveries and graceful
\* stops do.
THEOREM LossIsLimited == Spec => []LossIsBounded
<1>1. LossInv => LossIsBounded
  BY DEF LossInv
<1> QED
  BY <1>1, InitFits, NextFits, InitLoss, NextLoss, InvHolds, PTL DEF Spec

\* The recovery at start repairs every crash (core/batch_dispatcher.go), if processes
\* start later than the threshold and crashes are the only faults: whole batches in
\* flight, half recorded, or crashed again during the recovery.
THEOREM CrashesAreRepaired ==
  ASSUME LateRestart, FaultKinds \subseteq {"crash"}
  PROVE  Spec => []CrashIsRepaired
<1>1. Init => CrashIsRepaired
  BY DEF Init, ProcessInit, CrashIsRepaired, Unattended, Absent
<1>2. Inv /\ CrashIsRepaired /\ [Next]_vars => CrashIsRepaired'
  <2> SUFFICES ASSUME Inv, CrashIsRepaired, [Next]_vars, NEW m \in Unattended'
               PROVE  AwaitsRecovery(m)'
    BY DEF CrashIsRepaired
  <2>1. m \in Msgs /\ rows'[m].status = "PUBLISHING"
    BY DEF Unattended
  <2>2. CASE (ProcessNext \/ AgeRows) /\ UNCHANGED workerVars
    <3>1. AwaitsRecovery(m)
      BY <2>2, ProcessAttends DEF CrashIsRepaired
    <3> QED
      BY <2>1, <2>2, <3>1, ProcessNextAwaits DEF Inv, TypeOK
  <2>3. ASSUME NEW p \in Procs, Exit(p) \/ Crash(p) PROVE AwaitsRecovery(m)'
    <3>1. proc'[p] = "down"
      BY <2>3, Zenon DEF Exit, Crash, Down, Inv, TypeOK, ProcessTypeOK
    <3> QED
      BY <3>1 DEF AwaitsRecovery
  <2>4. ASSUME NEW w \in Workers, Work(w) PROVE AwaitsRecovery(m)'
    <3>1. AwaitsRecovery(m) /\ rows'[m] = rows[m]
      BY <2>4, WorkAttends DEF CrashIsRepaired
    <3>2. UNCHANGED <<proc, reviving>>
      BY <2>4, ZenonT(30) DEF Work, FetchLockAndMarkPublishing, BatchAnswered, BatchFailed,
                         HandlePublishFailure, UpdateBatchToPublished
    <3> QED
      BY <3>1, <3>2 DEF AwaitsRecovery
  <2>5. /\ \A w \in Workers : ~FetchLost(w) /\ ~UpdateBatchError(w)
        /\ \A w \in Workers, n \in Msgs : ~FailureUpdateError(w, n)
    BY Zenon DEF FetchLost, UpdateBatchError, FailureUpdateError, Fault
  <2>6. CASE UNCHANGED vars
    BY <2>6, Zenon DEF vars, CrashIsRepaired, Unattended, Open, AwaitsRecovery
  <2> QED
    BY <2>2, <2>3, <2>4, <2>5, <2>6, StepCases, Zenon
<1> QED
  BY <1>1, <1>2, InvHolds, PTL DEF Spec

-----------------------------------------------------------------------------
(* The batch dispatcher implements Delivery *)

\* One step of the batch dispatcher is one step of Delivery, or none.
LEMMA StepKeepsPromise ==
  Inv /\ [Next]_vars => Promise!Next \/ UNCHANGED Promise!vars
<1> SUFFICES ASSUME Inv, [Next]_vars
             PROVE  Promise!Next \/ UNCHANGED Promise!vars
  OBVIOUS
<1> USE Phases DEF Inv
<1>0. ProcessTypeOK /\ \A m \in Msgs : rows[m] \in Row
  BY DEF TypeOK, ProcessTypeOK
<1>1. CASE ProcessNext \/ AgeRows
  BY <1>0, <1>1, ProcessKeepsPromise, SMT, Z3, Zenon
<1>2. ASSUME NEW S \in SUBSET Msgs, sent' = sent \cup S, rows' = rows,
             \A m \in S : \E w \in Workers : m \in batch[w]
      PROVE  Promise!Next
  BY <1>0, <1>2, SendKeepsPromise DEF BatchInserted
<1>3. ASSUME NEW p \in Procs, Crash(p) PROVE Promise!Next
  <2>1. PICK S \in SUBSET InFlight(p) : sent' = sent \cup S
    BY <1>3, Zenon DEF Crash
  <2>2. S \in SUBSET Msgs /\ \A m \in S : \E w \in Workers : m \in batch[w]
    BY SMTT(30), Z3T(30) DEF InFlight, WorkersOf, TypeOK
  <2> QED
    BY <1>2, <1>3, <2>1, <2>2, Zenon DEF Crash
<1>4. ASSUME NEW w \in Workers, NEW q \in Queues, BatchAnswered(w, q) \/ BatchFailed(w, q)
      PROVE  Promise!Next
  <2>1. PICK S \in SUBSET Entries(w, q) : sent' = sent \cup S
    BY <1>4 DEF BatchAnswered, BatchFailed
  <2>2. S \in SUBSET Msgs /\ \A m \in S : m \in batch[w]
    BY Zenon DEF Entries, Group, TypeOK
  <2> QED
    BY <1>2, <1>4, <2>1, <2>2, ZenonT(30) DEF BatchAnswered, BatchFailed
<1>5. ASSUME NEW w \in Workers, FetchLockAndMarkPublishing(w) \/ FetchLost(w)
      PROVE  UNCHANGED Promise!vars
  <2>1. PICK S \in SUBSET Msgs : OldestBatch(S) /\ MarkPublishing(S)
    BY <1>5, Zenon DEF FetchLockAndMarkPublishing, FetchLost
  <2>2. \A n \in Msgs : PhaseOf(rows'[n].status) = PhaseOf(rows[n].status)
    <3>1. ASSUME NEW n \in S PROVE PhaseOf(rows'[n].status) = PhaseOf(rows[n].status)
      <4>1. rows[n].status = "ENQUEUED" /\ rows'[n] = Fetched(rows[n])
        BY <2>1, Zenon DEF OldestBatch, MarkPublishing
      <4> QED  BY <1>0, <4>1, NewStatus, ZenonT(30)
    <3>2. ASSUME NEW n \in Msgs \ S PROVE PhaseOf(rows'[n].status) = PhaseOf(rows[n].status)
      BY <2>1, <3>2 DEF MarkPublishing
    <3> QED  BY <3>1, <3>2, SMTT(30), Z3T(30)
  <2> QED
    BY <1>5, <2>2, PhaseStutter, ZenonT(30) DEF FetchLockAndMarkPublishing, FetchLost
<1>6. ASSUME NEW w \in Workers, UpdateBatchToPublished(w) PROVE Promise!Next
  <2> DEFINE S == {m \in Successes(w) : rows[m].status = "PUBLISHING"}
  <2>1. S \in SUBSET Msgs /\ S \subseteq sent /\ sent' = sent
    BY <1>6, SMTT(30) DEF UpdateBatchToPublished, Successes, OkWasSent, TypeOK
  <2>2. \A m \in S : /\ PhaseOf(rows[m].status) \in {"pending"}
                     /\ PhaseOf(rows'[m].status) = "published"
    BY <1>0, <1>6, <2>1, NewStatus, ZenonT(30) DEF UpdateBatchToPublished
  <2>3. \A m \in Msgs \ S : rows'[m] = rows[m]
    BY <1>6, ZenonT(30) DEF UpdateBatchToPublished
  <2> HIDE DEF S
  <2>4. Promise!Move(S, {"pending"}, "published")
    BY <2>1, <2>2, <2>3, PhaseMove, SMTT(30), Z3T(30)
  <2> QED
    BY <2>1, <2>4, Zenon DEF Promise!Next, Promise!Confirm
<1>7. ASSUME NEW w \in Workers, NEW m \in Msgs, HandlePublishFailure(w, m)
      PROVE  Promise!Next \/ UNCHANGED Promise!vars
  <2>1. sent' = sent /\ rows[m].attempt \in Nat
    BY <1>0, <1>7, ZenonT(30) DEF HandlePublishFailure, Row
  <2>2. CASE rows' = rows
    BY <2>1, <2>2, PhaseStutter
  <2>3. CASE rows[m].status = "PUBLISHING" /\ rows' = [rows EXCEPT ![m] = Dead(rows[m])]
    <3>1. /\ PhaseOf(rows[m].status) \in {"pending"}
          /\ PhaseOf(rows'[m].status) = "dead"
          /\ \A n \in Msgs \ {m} : rows'[n] = rows[n]
      BY <1>0, <2>3, NewStatus, Zenon DEF ProcessTypeOK
    <3>2. Promise!Move({m}, {"pending"}, "dead")
      BY <2>1, <3>1, PhaseMove, Zenon
    <3> QED
      BY <3>2, Zenon DEF Promise!Next, Promise!GiveUp
  <2>4. ASSUME rows[m].status = "PUBLISHING", NEW d \in Jittered(rows[m].attempt),
               rows' = [rows EXCEPT ![m] = Failed(rows[m], d)]
        PROVE  UNCHANGED Promise!vars
    <3>1. d \in 0..BackoffMax
      BY <2>1, <2>4, JitteredRange, Zenon
    <3>2. \A n \in Msgs : PhaseOf(rows'[n].status) = PhaseOf(rows[n].status)
      BY <1>0, <2>4, <3>1, NewStatus, ZenonT(30) DEF ProcessTypeOK
    <3> QED
      BY <2>1, <3>2, PhaseStutter
  <2> QED
    BY <1>7, <2>2, <2>3, <2>4, ZenonT(30) DEF HandlePublishFailure, UpdateTo
<1>8. CASE UNCHANGED <<rows, sent>>
  BY <1>8, PhaseStutter
<1> QED
  BY <1>1, <1>3, <1>4, <1>5, <1>6, <1>7, <1>8, ZenonT(30)
     DEF Next, vars, Work, Exit, FailureUpdateError, UpdateBatchError, Tick

\* The outbox promise is kept by the batch dispatcher: publishing in batches,
\* with partial successes and one statement for all of them, shows the
\* application nothing that publishing one by one does not.
THEOREM PromiseIsKept == Spec => KeepsPromise
<1>1. Init => Promise!Init
  BY DEF Init, ProcessInit, Promise!Init, PhaseOf, Absent
<1>2. Inv /\ [Next]_vars => [Promise!Next]_(Promise!vars)
  BY StepKeepsPromise
<1> QED
  BY <1>1, <1>2, InvHolds, PTL DEF Spec, KeepsPromise, Promise!Spec

-----------------------------------------------------------------------------
(* Publishers that finish within StuckThreshold *)

\* Why a recovery never takes a message from a worker: the worker has recorded
\* its result before the row is old enough.
InTime(w) ==
  \A m \in Open(w) : /\ rows[m].status = "PUBLISHING"
                     /\ rows[m].age <= StuckThreshold
                     /\ rows[m].attempt = snap[w][m]

Exclusive ==
  \A v, w \in Workers : v # w => Open(v) \cap Open(w) = {}

Owned ==
  /\ \A w \in Workers : InTime(w)
  /\ Exclusive
  /\ FailedIsRetryable

\* A step that gives no worker a message and leaves the rows that are still to be
\* recorded alone keeps the owners.
LEMMA OwnedFrame ==
  ASSUME Owned,
         \A w \in Workers : Open(w)' \subseteq Open(w),
         \A w \in Workers : \A m \in Open(w)' : /\ rows'[m] = rows[m]
                                               /\ snap'[w][m] = snap[w][m],
         FailedIsRetryable'
  PROVE  Owned'
<1>1. \A w \in Workers : InTime(w)'
  BY SMTT(30), Z3T(30) DEF Owned, InTime
<1>2. Exclusive'
  BY Zenon DEF Owned, Exclusive
<1> QED
  BY <1>1, <1>2, Zenon DEF Owned

\* A worker that records the result of m touches no row of the others.
LEMMA OwnedDone ==
  ASSUME TypeOK, Owned, NEW w \in Workers, NEW m \in batch[w], res[w][m] \in Failures,
         Done(w, m), batch' = batch, snap' = snap,
         \A n \in Msgs \ {m} : rows'[n] = rows[n],
         FailedIsRetryable'
  PROVE  Owned'
<1>1. m \in Open(w)
  BY Zenon DEF Open, Failures
<1>2. /\ Open(w)' \subseteq Open(w) \ {m}
      /\ \A v \in Workers \ {w} : Open(v)' = Open(v) /\ m \notin Open(v)
  BY <1>1, ZenonT(30) DEF Done, Open, TypeOK, Owned, Exclusive
<1>3. \A v \in Workers : \A n \in Open(v)' : rows'[n] = rows[n]
  BY <1>2, ZenonT(30) DEF Open, TypeOK
<1> QED
  BY <1>2, <1>3, OwnedFrame, Zenon

\* A worker that is done with its batch leaves those of the others alone.
LEMMA OwnedRelease ==
  ASSUME TypeOK, Owned, NEW w \in Workers, Release(w),
         \A n \in Msgs \ Open(w) : rows'[n] = rows[n],
         FailedIsRetryable'
  PROVE  Owned'
<1>1. /\ Open(w)' = {}
      /\ \A v \in Workers \ {w} : /\ Open(v)' = Open(v)
                                  /\ snap'[v] = snap[v]
                                  /\ Open(v) \subseteq Msgs \ Open(w)
  BY ZenonT(30) DEF Release, Open, TypeOK, Owned, Exclusive
<1> QED
  BY <1>1, OwnedFrame, Zenon

LEMMA NextOwned ==
  ASSUME ~SlowPublish, StuckSeconds = StuckThreshold
  PROVE  TypeOK /\ Owned /\ [Next]_vars => Owned'
<1> SUFFICES ASSUME TypeOK, Owned, [Next]_vars PROVE Owned'
  OBVIOUS
<1>0. /\ ProcessTypeOK
      /\ \A m \in Msgs : /\ rows[m] \in Row
                         /\ rows[m].attempt \in Nat /\ rows[m].max \in Nat
                         /\ rows[m].age \in 0..AgeCap
  BY Zenon DEF TypeOK, ProcessTypeOK, Row
<1>1. \A w \in Workers : \A m \in Open(w) : /\ m \in Msgs
                                           /\ rows[m].status = "PUBLISHING"
                                           /\ rows[m].age <= StuckThreshold
                                           /\ rows[m].attempt = snap[w][m]
  BY Zenon DEF TypeOK, Open, Owned, InTime
<1>2. ASSUME UNCHANGED workerVars, FailedIsRetryable',
             \A m \in Msgs : rows[m].status = "PUBLISHING" /\ ~Stuck(rows[m])
                             => rows'[m] = rows[m]
      PROVE  Owned'
  <2>1. \A w \in Workers : \A m \in Open(w) : ~Stuck(rows[m])
    <3>1. \A x \in 0..AgeCap : x <= StuckThreshold => ~(x > StuckThreshold)
      BY TableAssumption DEF TableAssumption
    <3> QED
      BY <1>0, <1>1, <3>1 DEF Stuck
  <2>2. \A w \in Workers : Open(w)' = Open(w)
    BY <1>2 DEF Open, workerVars
  <2> QED
    BY <1>1, <1>2, <2>1, <2>2, OwnedFrame, ZenonT(30) DEF workerVars
<1>3. ASSUME NEW m \in Msgs, Insert(m), UNCHANGED workerVars PROVE Owned'
  <2>1. PICK k \in MaxAttempts : rows' = [rows EXCEPT ![m] = InsertedRow(k)]
    BY <1>3, ZenonT(30) DEF Insert
  <2>2. /\ rows'[m].status = "ENQUEUED"
        /\ \A n \in Msgs \ {m} : rows'[n] = rows[n]
    BY <1>0, <2>1 DEF ProcessTypeOK, InsertedRow
  <2>3. FailedIsRetryable'
    BY <2>2 DEF Owned, FailedIsRetryable
  <2> QED
    BY <1>2, <1>3, <2>2, <2>3 DEF Insert
<1>4. CASE DeleteOlderThan /\ UNCHANGED workerVars
  <2>1. \A m \in Msgs : rows'[m] = rows[m] \/ rows'[m].status = "DELETED"
    BY <1>0, <1>4, NewStatus, ZenonT(30) DEF DeleteOlderThan
  <2>2. \A m \in Msgs : rows[m].status = "PUBLISHING" => rows'[m] = rows[m]
    BY <1>4, TableAssumption DEF DeleteOlderThan, Deletable, TableAssumption
  <2>3. FailedIsRetryable'
    BY <2>1, Zenon DEF Owned, FailedIsRetryable
  <2> QED
    BY <1>2, <1>4, <2>2, <2>3
<1>5. ASSUME NEW p \in Procs, Revive(p), UNCHANGED workerVars PROVE Owned'
  <2>1. PICK d \in [Msgs -> 0..BackoffMax] :
          rows' = [m \in Msgs |-> IF Stuck(rows[m]) THEN Revived(rows[m], d[m])
                                                    ELSE rows[m]]
    BY <1>5 DEF Revive
  <2>2. \A m \in Msgs : Revived(rows[m], d[m]).status = "FAILED"
          => Revived(rows[m], d[m]).attempt < Revived(rows[m], d[m]).max
    <3>1. \A m \in Msgs : rows[m] \in Row /\ d[m] \in 0..BackoffMax
      BY Zenon DEF TypeOK, ProcessTypeOK
    <3> QED
      BY <3>1, RevivedIsRetryable, Zenon
  <2>3. FailedIsRetryable'
    BY <2>1, <2>2, Zenon DEF Owned, FailedIsRetryable
  <2> QED
    BY <1>2, <1>5, <2>1, <2>3, Zenon
<1>6. ASSUME NEW p \in Procs, RequeueFailed(p), UNCHANGED workerVars PROVE Owned'
  <2>1. \A m \in Msgs : \/ rows'[m] = rows[m]
                        \/ rows[m].status = "FAILED" /\ rows'[m].status = "ENQUEUED"
    BY <1>0, <1>6, NewStatus, ZenonT(30) DEF RequeueFailed, Requeueable
  <2>2. FailedIsRetryable'
    BY <2>1, Zenon DEF Owned, FailedIsRetryable
  <2> QED
    BY <1>2, <1>6, <2>1, <2>2, SMTT(30), Z3T(30)
<1>7. ASSUME NEW p \in Procs, Crash(p) PROVE Owned'
  <2>1. \A w \in Workers : \/ Open(w)' = {}
                           \/ Open(w)' = Open(w) /\ snap'[w] = snap[w]
    BY <1>7, ZenonT(30) DEF Crash, Open
  <2>2. rows' = rows /\ FailedIsRetryable'
    BY <1>7 DEF Crash, Owned, FailedIsRetryable
  <2> QED
    BY <2>1, <2>2, OwnedFrame, SMTT(30)
<1>8. ASSUME NEW w \in Workers, FetchLockAndMarkPublishing(w) PROVE Owned'
  <2>1. PICK S \in SUBSET Msgs :
          /\ OldestBatch(S)
          /\ MarkPublishing(S)
          /\ batch' = [batch EXCEPT ![w] = S]
          /\ snap' = [snap EXCEPT ![w] = [m \in Msgs |-> IF m \in S THEN rows[m].attempt
                                                                    ELSE 0]]
    BY <1>8, ZenonT(30) DEF FetchLockAndMarkPublishing
  <2>2. /\ Open(w)' \subseteq S
        /\ \A m \in S : snap'[w][m] = rows[m].attempt
        /\ \A v \in Workers \ {w} : Open(v)' = Open(v) /\ snap'[v] = snap[v]
    BY <1>8, <2>1, ZenonT(30) DEF FetchLockAndMarkPublishing, Open, TypeOK
  <2>3. \A v \in Workers : Open(v) \cap S = {}
    BY <1>1, <2>1, ZenonT(30) DEF OldestBatch
  <2>4. \A m \in S : /\ rows'[m].status = "PUBLISHING"
                     /\ rows'[m].age <= StuckThreshold
                     /\ rows'[m].attempt = rows[m].attempt
    <3>1. \A m \in S : rows'[m] = Fetched(rows[m])
      BY <2>1 DEF MarkPublishing
    <3>2. 0 <= StuckThreshold
      BY TableAssumption DEF TableAssumption
    <3>3. \A r : /\ Fetched(r).status = "PUBLISHING"
                 /\ Fetched(r).age = 0
                 /\ Fetched(r).attempt = r.attempt
      BY DEF Fetched, Updated
    <3> QED  BY <3>1, <3>2, <3>3, SMT, Z3, Zenon
  <2>5. \A m \in Msgs \ S : rows'[m] = rows[m]
    BY <2>1, Zenon DEF MarkPublishing
  <2>6. InTime(w)'
    BY <2>2, <2>4, Zenon DEF InTime
  <2>7. ASSUME NEW v \in Workers \ {w} PROVE InTime(v)'
    <3>1. Open(v)' = Open(v) /\ snap'[v] = snap[v]
      BY <2>2, Zenon
    <3>2. \A m \in Open(v) : rows'[m] = rows[m]
      BY <1>1, <2>3, <2>5
    <3> QED  BY <1>1, <3>1, <3>2, SMTT(30), Z3T(30) DEF InTime
  <2>8. Exclusive'
    <3>1. \A v \in Workers \ {w} : Open(v)' \cap Open(w)' = {}
      BY <2>2, <2>3, Zenon
    <3>2. \A u, v \in Workers \ {w} : u # v => Open(u)' \cap Open(v)' = {}
      BY <2>2, Zenon DEF Exclusive, Owned
    <3> QED  BY <3>1, <3>2 DEF Exclusive
  <2>9. FailedIsRetryable'
    BY <2>4, <2>5, Zenon DEF FailedIsRetryable, Owned
  <2> QED
    BY <2>6, <2>7, <2>8, <2>9 DEF Owned
<1>9. ASSUME NEW w \in Workers, FetchLost(w) PROVE Owned'
  <2>1. PICK S \in SUBSET Msgs : OldestBatch(S) /\ MarkPublishing(S)
    BY <1>9, SMTT(30) DEF FetchLost
  <2>2. \A m \in Msgs : IF m \in S THEN /\ rows[m].status = "ENQUEUED"
                                        /\ rows'[m].status = "PUBLISHING"
                                   ELSE rows'[m] = rows[m]
    BY <1>0, <2>1, NewStatus, ZenonT(30) DEF OldestBatch, MarkPublishing
  <2>3. FailedIsRetryable'
    BY <2>2, SMT, Z3, Zenon DEF Owned, FailedIsRetryable
  <2> QED
    BY <1>2, <1>9, <2>2, <2>3, SMT, Z3, Zenon DEF FetchLost
<1>10. ASSUME NEW w \in Workers, NEW q \in Queues, BatchAnswered(w, q) \/ BatchFailed(w, q)
       PROVE  Owned'
  <2>1. PICK ok : Answer(w, q, ok)
    BY <1>10, SMT, Z3, Zenon DEF BatchAnswered, BatchFailed
  <2>2. rows' = rows /\ batch' = batch /\ snap' = snap
    BY <1>10 DEF BatchAnswered, BatchFailed
  <2>3. \A v \in Workers : Open(v)' \subseteq Open(v)
    <3>1. \A m \in Group(w, q) : res[w][m] = "none"
      BY <1>10 DEF BatchAnswered, BatchFailed, Unanswered
    <3>2. Open(w)' \subseteq Open(w)
      BY <2>1, <2>2, <3>1, SMT, Z3, Zenon DEF Answer, Open, TypeOK
    <3>3. \A v \in Workers \ {w} : Open(v)' = Open(v)
      BY <2>1, <2>2, SMT, Z3, Zenon DEF Answer, Open, TypeOK
    <3> QED
      BY <3>2, <3>3, Zenon
  <2>4. FailedIsRetryable'
    BY <2>2, SMTT(30) DEF Owned, FailedIsRetryable
  <2> QED
    BY <2>2, <2>3, <2>4, OwnedFrame, SMT, Z3, Zenon
<1>11. ASSUME NEW w \in Workers, NEW m \in Msgs, HandlePublishFailure(w, m) PROVE Owned'
  <2>1. m \in Open(w) /\ snap[w][m] \in Nat
    BY <1>11, Zenon DEF HandlePublishFailure, Open, Failures, TypeOK
  <2>2. rows[m].status = "PUBLISHING" /\ rows[m].attempt = snap[w][m]
    BY <1>1, <2>1, SMTT(30)
  <2>3. /\ \A n \in Msgs \ {m} : rows'[n] = rows[n]
        /\ rows'[m].status = "DEAD" \/ rows'[m].attempt < rows'[m].max
    <3>1. CASE rows' = [rows EXCEPT ![m] = Dead(rows[m])]
      BY <1>0, <3>1, NewStatus, Zenon DEF ProcessTypeOK
    <3>2. ASSUME ~GivesUp(w, m), NEW d \in Jittered(rows[m].attempt),
                 rows' = [rows EXCEPT ![m] = Failed(rows[m], d)]
          PROVE  /\ \A n \in Msgs \ {m} : rows'[n] = rows[n]
                 /\ rows'[m].attempt < rows'[m].max
      <4>1. rows'[m] = Failed(rows[m], d)
        BY <1>0, <3>2, Zenon DEF ProcessTypeOK
      <4>2. rows[m].attempt + 1 < rows[m].max
        BY <1>0, <2>2, <3>2, SMTT(30), Z3T(30)
           DEF GivesUp, WillExceedMaxAttemptsAfterFailure
      <4> QED
        BY <1>0, <3>2, <4>1, <4>2, ZenonT(30) DEF Failed, Updated, ProcessTypeOK
    <3> QED
      BY <1>11, <2>2, <3>1, <3>2, ZenonT(30) DEF HandlePublishFailure, UpdateTo
  <2>4. FailedIsRetryable'
    BY <2>3, Zenon DEF Owned, FailedIsRetryable
  <2> QED
    BY <1>11, <2>3, <2>4, OwnedDone, ZenonT(30) DEF HandlePublishFailure
<1>12. ASSUME NEW w \in Workers, NEW m \in Msgs, FailureUpdateError(w, m) PROVE Owned'
  <2>1. FailedIsRetryable'
    BY <1>12, SMTT(30) DEF FailureUpdateError, Owned, FailedIsRetryable
  <2> QED
    BY <1>12, <2>1, OwnedDone, Zenon DEF FailureUpdateError
<1>13. ASSUME NEW w \in Workers, UpdateBatchToPublished(w) PROVE Owned'
  <2>1. \A m \in Msgs : \/ rows'[m] = rows[m]
                        \/ m \in Open(w) /\ rows'[m].status = "PUBLISHED"
    BY <1>0, <1>13, NewStatus, ZenonT(30) DEF UpdateBatchToPublished, Successes, Open
  <2>2. FailedIsRetryable'
    BY <2>1 DEF Owned, FailedIsRetryable
  <2> QED
    BY <1>13, <2>1, <2>2, OwnedRelease, ZenonT(30) DEF UpdateBatchToPublished
<1>14. ASSUME NEW w \in Workers, UpdateBatchError(w) PROVE Owned'
  <2>1. FailedIsRetryable'
    BY <1>14, ZenonT(30) DEF UpdateBatchError, Owned, FailedIsRetryable
  <2> QED
    BY <1>14, <2>1, OwnedRelease, SMTT(30) DEF UpdateBatchError
<1>15. CASE Tick
  <2>1. \A m \in Msgs : /\ rows'[m] = Aged(rows[m])
                        /\ rows'[m].status = rows[m].status
                        /\ rows'[m].attempt = rows[m].attempt
                        /\ rows'[m].max = rows[m].max
    BY <1>15, Zenon DEF Tick, AgeRows, Aged
  <2>2. ASSUME NEW w \in Workers, NEW m \in Open(w) PROVE rows'[m].age <= StuckThreshold
    <3>1. m \in Msgs /\ rows[m].age < StuckThreshold
      BY <1>1, <1>15, SMTT(30), Z3T(30) DEF Tick
    <3>2. rows'[m].age \in {rows[m].age, rows[m].age + 1}
      BY <1>0, <2>1, <3>1, AgedAge, SMT, Z3, Zenon
    <3>3. StuckThreshold \in Nat
      BY TableAssumption, SMT, Z3, Zenon DEF TableAssumption
    <3>4. rows[m].age \in Int
      BY <1>0, <3>1, SMTT(30), Z3T(30)
    <3> QED
      BY <3>1, <3>2, <3>3, <3>4, SMTT(30), Z3T(30)
  <2>3. \A w \in Workers : Open(w)' = Open(w) /\ snap'[w] = snap[w]
    BY <1>15, Zenon DEF Tick, Open, workerVars
  <2>4. \A w \in Workers : InTime(w)'
    BY <1>1, <2>1, <2>2, <2>3, SMTT(30), Z3T(30) DEF InTime
  <2> QED
    BY <2>1, <2>3, <2>4, SMTT(30) DEF Owned, Exclusive, FailedIsRetryable
<1>16. CASE UNCHANGED <<rows, workerVars>>
  BY <1>2, <1>16 DEF Owned, FailedIsRetryable
<1> QED
  BY <1>3, <1>4, <1>5, <1>6, <1>7, <1>8, <1>9, <1>10, <1>11, <1>12, <1>13, <1>14,
     <1>15, <1>16, ZenonT(30)
     DEF Next, ProcessNext, vars, workerVars, Work, Start, ReviveError, Stop, Exit

\* When every batch is recorded within the stuck threshold, and the threshold is
\* a whole number of seconds, no two workers work on the same message, no recovery
\* takes a message from its worker, and no message is left FAILED with its
\* attempts used up.
THEOREM TimelyBatchesAreSafe ==
  ASSUME ~SlowPublish, StuckSeconds = StuckThreshold
  PROVE  Spec => [](BatchesAreOwned /\ FailedIsRetryable)
<1>1. Init => Owned
  BY DEF Init, ProcessInit, Owned, InTime, Exclusive, Open, FailedIsRetryable, Absent
<1>2. TypeOK /\ Owned /\ [Next]_vars => Owned'
  BY NextOwned, SMT, Z3, Zenon
<1>3. Owned => BatchesAreOwned /\ FailedIsRetryable
  BY DEF Owned, InTime, Exclusive, BatchesAreOwned
<1> QED
  BY <1>1, <1>2, <1>3, InitType, NextType, PTL DEF Spec
=============================================================================
