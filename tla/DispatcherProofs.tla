--------------------------- MODULE DispatcherProofs ---------------------------
(***************************************************************************)
(* Theorems about Dispatcher, for every number of messages, processes and  *)
(* workers, every retry limit and every backoff, with crashes, lost        *)
(* answers, failed updates and publishers of any slowness. MCDispatcher is *)
(* extended for GormAgrees: the repositories of contrib/gorm and           *)
(* contrib/pgx do the same to every row, not only to those of an instance. *)
(***************************************************************************)
EXTENDS MCDispatcher, OutboxProcessProofs

USE DEF NoMsg

-----------------------------------------------------------------------------
(* Type correctness *)

\* A worker that is inside processOne holds a message.
HeldWhenBusy == \A w \in Workers : ~Idle(w) => held[w] \in Msgs

Typed == TypeOK /\ HeldWhenBusy

LEMMA InitTyped == Init => Typed
  BY ProcessInitType DEF Init, Typed, TypeOK, HeldWhenBusy, Idle, PCs

\* Every step keeps the types, and a busy worker keeps its message.
LEMMA NextTyped == Typed /\ [Next]_vars => Typed'
<1> SUFFICES ASSUME Typed, [Next]_vars PROVE Typed'
  OBVIOUS
<1> USE DEF Typed
<1>1. CASE (ProcessNext \/ AgeRows) /\ UNCHANGED workerVars
  BY <1>1, ProcessNextType DEF TypeOK, HeldWhenBusy, Idle, workerVars
<1>2. ASSUME NEW p \in Procs, Exit(p) PROVE Typed'
  BY <1>2 DEF Exit, Down, TypeOK, ProcessTypeOK, HeldWhenBusy, Idle, workerVars
<1>3. ASSUME NEW p \in Procs, Crash(p) PROVE Typed'
  <2>1. faults' \in 0..MaxFaults
    BY <1>3, FaultType DEF Crash, TypeOK
  <2>2. sent' \in SUBSET Msgs
    BY <1>3 DEF Crash, TypeOK, ProcessTypeOK, HeldWhenBusy, Idle, WorkersOf
  <2>3. /\ pc' \in [Workers -> PCs]
        /\ held' \in [Workers -> Msgs \cup {NoMsg}]
        /\ snap' \in [Workers -> Nat]
        /\ HeldWhenBusy'
    BY <1>3 DEF Crash, TypeOK, HeldWhenBusy, Idle, PCs
  <2>4. proc' \in [Procs -> {"down", "up", "stopping"}] /\ reviving' \in [Procs -> BOOLEAN]
    BY <1>3 DEF Crash, Down, TypeOK, ProcessTypeOK
  <2> QED
    BY <1>3, <2>1, <2>2, <2>3, <2>4 DEF Crash, TypeOK, ProcessTypeOK
<1>4. \A m \in Msgs : rows[m] \in Row
  BY DEF TypeOK, ProcessTypeOK
<1>5. ASSUME NEW m \in Msgs
      PROVE  /\ Fetched(rows[m]) \in Row /\ rows[m].attempt \in Nat
             /\ Published(rows[m]) \in Row
             /\ Dead(rows[m]) \in Row
             /\ \A d \in 0..BackoffMax : Failed(rows[m], d) \in Row
  <2>1. /\ Fetched(rows[m]) \in Row
        /\ Published(rows[m]) \in Row
        /\ Dead(rows[m]) \in Row
    BY <1>4, RowTypes, TableAssumption DEF TableAssumption
  <2>2. \A d \in 0..BackoffMax : Failed(rows[m], d) \in Row
    BY <1>4, RowTypes
  <2>3. rows[m].attempt \in Nat
    BY <1>4 DEF Row
  <2> QED
    BY <2>1, <2>2, <2>3
<1>6. ASSUME NEW w \in Workers, FetchAndLockToPublishing(w) PROVE Typed'
  <2>1. PICK m \in Msgs :
          /\ rows' = [rows EXCEPT ![m] = Fetched(rows[m])]
          /\ held' = [held EXCEPT ![w] = m]
          /\ snap' = [snap EXCEPT ![w] = rows[m].attempt]
          /\ tries' = [tries EXCEPT ![m] = @ + 1]
    BY <1>6, Zenon DEF FetchAndLockToPublishing
  <2>2. /\ rows' \in [Msgs -> Row]
        /\ held' \in [Workers -> Msgs \cup {NoMsg}]
        /\ snap' \in [Workers -> Nat]
        /\ tries' \in [Msgs -> Nat]
    BY <1>5, <2>1 DEF TypeOK, ProcessTypeOK
  <2>3. pc' \in [Workers -> PCs] /\ HeldWhenBusy'
    BY <1>6, <2>1 DEF FetchAndLockToPublishing, TypeOK, HeldWhenBusy, Idle, PCs
  <2> QED
    BY <1>6, <2>2, <2>3 DEF FetchAndLockToPublishing, TypeOK, ProcessTypeOK
<1>7. ASSUME NEW w \in Workers, FetchLost(w) PROVE Typed'
  <2>1. PICK m \in Msgs : rows' = [rows EXCEPT ![m] = Fetched(rows[m])]
    BY <1>7, Zenon DEF FetchLost
  <2>2. rows' \in [Msgs -> Row]
    BY <1>5, <2>1 DEF TypeOK, ProcessTypeOK
  <2>3. faults' \in 0..MaxFaults
    BY <1>7, FaultType DEF FetchLost, TypeOK
  <2> QED
    BY <1>7, <2>2, <2>3
       DEF FetchLost, TypeOK, ProcessTypeOK, HeldWhenBusy, Idle, workerVars
<1>8. ASSUME NEW w \in Workers,
             PublishAccepted(w) \/ PublishRetryable(w) \/ PublishPermanent(w)
      PROVE  Typed'
  <2>1. held[w] \in Msgs
    BY <1>8 DEF PublishAccepted, PublishRetryable, PublishPermanent, HeldWhenBusy, Idle
  <2>2. sent' \in SUBSET Msgs
    BY <1>8, <2>1 DEF PublishAccepted, PublishRetryable, PublishPermanent, TypeOK,
                      ProcessTypeOK
  <2>3. pc' \in [Workers -> PCs] /\ HeldWhenBusy'
    BY <1>8, <2>1 DEF PublishAccepted, PublishRetryable, PublishPermanent, TypeOK,
                      HeldWhenBusy, Idle, PCs, Recording
  <2> QED
    BY <1>8, <2>2, <2>3 DEF PublishAccepted, PublishRetryable, PublishPermanent,
                            TypeOK, ProcessTypeOK
<1>9. ASSUME NEW w \in Workers, Release(w)
      PROVE  /\ pc' \in [Workers -> PCs]
             /\ held' \in [Workers -> Msgs \cup {NoMsg}]
             /\ snap' \in [Workers -> Nat]
             /\ HeldWhenBusy'
  BY <1>9 DEF Release, TypeOK, HeldWhenBusy, Idle, PCs
<1>10. ASSUME NEW w \in Workers, UpdateToPublished(w) PROVE Typed'
  <2>1. held[w] \in Msgs
    BY <1>10 DEF UpdateToPublished, HeldWhenBusy, Idle
  <2>2. rows' \in [Msgs -> Row]
    BY <1>5, <1>10, <2>1, UpdateToType DEF UpdateToPublished, TypeOK
  <2> QED
    BY <1>9, <1>10, <2>2 DEF UpdateToPublished, TypeOK, ProcessTypeOK
<1>11. ASSUME NEW w \in Workers, HandlePublishFailure(w) PROVE Typed'
  <2>1. held[w] \in Msgs
    BY <1>11 DEF HandlePublishFailure, HeldWhenBusy, Idle
  <2>2. CASE UpdateTo(held[w], Dead(rows[held[w]]))
    BY <1>5, <1>9, <1>11, <2>1, <2>2, UpdateToType, SMT, Z3, Zenon
       DEF HandlePublishFailure, TypeOK, ProcessTypeOK
  <2>3. ASSUME NEW d \in Jittered(rows[held[w]].attempt),
               UpdateTo(held[w], Failed(rows[held[w]], d))
        PROVE  Typed'
    <3>1. d \in 0..BackoffMax
      BY <1>5, <2>1, <2>3, JitteredRange
    <3> QED
      BY <1>5, <1>9, <1>11, <2>1, <2>3, <3>1, UpdateToType, SMT, Z3, Zenon
         DEF HandlePublishFailure, TypeOK, ProcessTypeOK
  <2> QED
    BY <1>11, <2>2, <2>3 DEF HandlePublishFailure
<1>12. ASSUME NEW w \in Workers, UpdateError(w) PROVE Typed'
  BY <1>9, <1>12, FaultType DEF UpdateError, TypeOK, ProcessTypeOK
<1>13. CASE UNCHANGED vars
  BY <1>13 DEF vars, workerVars, TypeOK, ProcessTypeOK, HeldWhenBusy, Idle
<1> QED
  BY <1>1, <1>2, <1>3, <1>6, <1>7, <1>8, <1>10, <1>11, <1>12, <1>13 DEF Next, Work, Tick

\* Every reachable state is well typed; in particular a retry delay that the
\* database stores never exceeds RequeueBackoffMax.
THEOREM TypeCorrect == Spec => []TypeOK
<1>1. Spec => []Typed
  BY InitTyped, NextTyped, PTL DEF Spec
<1>2. Typed => TypeOK
  BY Zenon DEF Typed
<1> QED
  BY <1>1, <1>2, PTL

-----------------------------------------------------------------------------
(* What a step can do to one row *)

\* A worker that is about to record a success has had its message accepted.
AcceptedWasSent == \A w \in Workers : pc[w] = "accepted" => held[w] \in sent

\* The broker never gives a message back.
LEMMA SentGrows == Typed /\ [Next]_vars => sent \subseteq sent'
  BY ProcessNextHistory
     DEF Next, vars, Work, Exit, Crash, FetchAndLockToPublishing, FetchLost,
         PublishAccepted, PublishRetryable, PublishPermanent, UpdateToPublished,
         HandlePublishFailure, UpdateError, Tick

\* Only PublishAccepted brings a worker to "accepted", and it sends the message.
LEMMA NextAccepted == Typed /\ AcceptedWasSent /\ [Next]_vars => AcceptedWasSent'
<1> SUFFICES ASSUME Typed, AcceptedWasSent, [Next]_vars,
                    NEW w \in Workers, pc'[w] = "accepted"
             PROVE  held'[w] \in sent'
  BY Zenon DEF AcceptedWasSent
<1>1. \/ pc[w] = "accepted" /\ held'[w] = held[w]
      \/ held[w] \in sent' /\ held'[w] = held[w]
  <2> USE DEF Typed, TypeOK
  <2>1. CASE UNCHANGED workerVars
    BY <2>1, SMT, Z3, Zenon DEF workerVars
  <2>2. ASSUME NEW p \in Procs, Crash(p)
        PROVE  pc[w] = "accepted" /\ held'[w] = held[w]
    BY <2>2, SMT, Z3, Zenon DEF Crash
  <2>3. ASSUME NEW v \in Workers, FetchAndLockToPublishing(v)
        PROVE  pc[w] = "accepted" /\ held'[w] = held[w]
    BY <2>3 DEF FetchAndLockToPublishing
  <2>4. ASSUME NEW v \in Workers, PublishAccepted(v)
        PROVE  \/ pc[w] = "accepted" /\ held'[w] = held[w]
               \/ held[w] \in sent' /\ held'[w] = held[w]
    BY <2>4 DEF PublishAccepted
  <2>5. ASSUME NEW v \in Workers, PublishRetryable(v) \/ PublishPermanent(v)
        PROVE  pc[w] = "accepted" /\ held'[w] = held[w]
    BY <2>5 DEF PublishRetryable, PublishPermanent
  <2>6. ASSUME NEW v \in Workers, Release(v)
        PROVE  pc[w] = "accepted" /\ held'[w] = held[w]
    BY <2>6, SMT, Z3, Zenon DEF Release
  <2> QED
    BY <2>1, <2>2, <2>3, <2>4, <2>5, <2>6
       DEF Next, vars, workerVars, Work, Exit, FetchLost, UpdateToPublished,
           HandlePublishFailure, UpdateError, Tick
<1> QED
  BY <1>1, SentGrows DEF AcceptedWasSent

\* No step does anything else to a row than RowMove says, whoever takes it.
LEMMA NextRowMove ==
  Typed /\ AcceptedWasSent /\ [Next]_vars => \A m \in Msgs : RowMove(m)
<1> SUFFICES ASSUME Typed, AcceptedWasSent, [Next]_vars, NEW m \in Msgs
             PROVE  RowMove(m)
  OBVIOUS
<1> USE DEF Typed, TypeOK
<1>1. CASE UNCHANGED <<rows, tries>>
  BY <1>1 DEF RowMove
<1>2. CASE ProcessNext \/ AgeRows
  BY <1>2, ProcessRowMove, SMT, Z3, Zenon
<1>3. ASSUME NEW w \in Workers, FetchAndLockToPublishing(w) PROVE RowMove(m)
  BY <1>3 DEF FetchAndLockToPublishing, Oldest, ProcessTypeOK, RowMove
<1>4. ASSUME NEW w \in Workers, FetchLost(w) PROVE RowMove(m)
  BY <1>4, SMT, Z3, Zenon DEF FetchLost, Oldest, ProcessTypeOK, RowMove
<1>5. ASSUME NEW w \in Workers, UpdateToPublished(w) PROVE RowMove(m)
  <2>1. held[w] \in sent /\ tries' = tries
    BY <1>5 DEF UpdateToPublished, AcceptedWasSent
  <2> QED
    BY <1>5, <2>1 DEF UpdateToPublished, UpdateTo, ProcessTypeOK, RowMove
<1>6. ASSUME NEW w \in Workers, HandlePublishFailure(w) PROVE RowMove(m)
  <2>1. held[w] \in Msgs /\ tries' = tries
    BY <1>6 DEF HandlePublishFailure, HeldWhenBusy, Idle
  <2>2. rows[held[w]].attempt \in Nat /\ rows[held[w]].max \in Nat /\ snap[w] \in Nat
    BY <2>1 DEF ProcessTypeOK, Row
  <2>3. CASE UpdateTo(held[w], Dead(rows[held[w]]))
    BY <2>1, <2>3, SMT, Z3, Zenon DEF UpdateTo, ProcessTypeOK, RowMove
  <2>4. ASSUME ~WillExceedMaxAttemptsAfterFailure(w),
               NEW d \in Jittered(rows[held[w]].attempt),
               UpdateTo(held[w], Failed(rows[held[w]], d))
        PROVE  RowMove(m)
    <3>1. d \in 0..BackoffMax
      BY <2>2, <2>4, JitteredRange
    <3>2. rows[held[w]].max > 1
      BY <2>2, <2>4 DEF WillExceedMaxAttemptsAfterFailure
    <3> QED
      BY <2>1, <2>4, <3>1, <3>2, SMT, Z3, Zenon DEF UpdateTo, ProcessTypeOK, RowMove
  <2> QED
    BY <1>6, <2>3, <2>4 DEF HandlePublishFailure
<1> QED
  BY <1>1, <1>2, <1>3, <1>4, <1>5, <1>6, SMT, Z3, Zenon
     DEF Next, vars, Work, Exit, Crash, PublishAccepted, PublishRetryable,
         PublishPermanent, UpdateError, Tick

-----------------------------------------------------------------------------
(* Safety for publishers of any slowness *)

Inv ==
  /\ Typed
  /\ AcceptedWasSent
  /\ PublishedWasSent
  /\ \A m \in Msgs : WithinLimit(m)

LEMMA InitInv == Init => Inv
<1> SUFFICES ASSUME Init PROVE Inv
  OBVIOUS
<1>1. Typed
  BY InitTyped
<1>2. AcceptedWasSent /\ PublishedWasSent
  BY DEF Init, ProcessInit, AcceptedWasSent, PublishedWasSent, Absent
<1>3. \A m \in Msgs : WithinLimit(m)
  BY DEF Init, ProcessInit, WithinLimit, Absent, Statuses
<1> QED
  BY <1>1, <1>2, <1>3 DEF Inv

LEMMA NextInv == Inv /\ [Next]_vars => Inv'
<1> SUFFICES ASSUME Inv, [Next]_vars PROVE Inv'
  OBVIOUS
<1> USE DEF Inv
<1>1. Typed'
  BY NextTyped
<1>2. AcceptedWasSent'
  BY NextAccepted
<1>3. \A m \in Msgs : RowMove(m)
  BY NextRowMove
<1>4. PublishedWasSent'
  BY <1>3, MovePublished, SentGrows DEF Typed, TypeOK, PublishedWasSent
<1>5. \A m \in Msgs : WithinLimit(m)'
  BY <1>3, MoveWithinLimit DEF Typed, TypeOK
<1> QED
  BY <1>1, <1>2, <1>4, <1>5

LEMMA InvHolds == Spec => []Inv
  BY InitInv, NextInv, PTL DEF Spec

\* A row is marked PUBLISHED only after the broker accepted the message, for any
\* number of dispatchers, crashes and recoveries that race with slow publishers.
THEOREM PublishedOnlyIfSent == Spec => []PublishedWasSent
<1>1. Inv => PublishedWasSent
  BY DEF Inv
<1> QED
  BY <1>1, InvHolds, PTL

\* Neither attempt_count nor the number of calls of Publish ever exceeds
\* max_attempts.
THEOREM RetriesAreLimited == Spec => []RetryLimit
<1>1. Inv => RetryLimit
  <2> SUFFICES ASSUME Inv, NEW m \in Msgs, rows[m].status \in Statuses
               PROVE  rows[m].attempt <= rows[m].max /\ tries[m] <= rows[m].max
    BY DEF RetryLimit
  <2>1. rows[m].attempt \in Nat /\ rows[m].max \in Nat /\ tries[m] \in Nat
    BY DEF Inv, Typed, TypeOK, ProcessTypeOK, Row
  <2> QED
    BY <2>1 DEF Inv, WithinLimit
<1> QED
  BY <1>1, InvHolds, PTL

\* PUBLISHED and DEAD are final: the conditions in the SQL statements keep late
\* updates, requeues and recoveries away from settled rows.
THEOREM SettledStaysSettled == Spec => SettledIsFinal
<1> DEFINE Final == \A m \in Msgs : rows[m].status \in Settled
                      => /\ rows'[m].status \in {rows[m].status, "DELETED"}
                         /\ tries'[m] = tries[m]
<1>1. Inv /\ [Next]_vars => [Final]_<<rows, tries>>
  BY NextRowMove, MoveSettled DEF Inv, Typed, TypeOK
<1> QED
  BY <1>1, InvHolds, PTL DEF Spec, SettledIsFinal

-----------------------------------------------------------------------------
(* What faults leave behind *)

\* A step is one of the process or of time, a stop or a crash, one of a worker, or none.
LEMMA StepCases ==
  ASSUME [Next]_vars
  PROVE  \/ (ProcessNext \/ AgeRows) /\ UNCHANGED workerVars
         \/ \E p \in Procs : Exit(p)
         \/ \E p \in Procs : Crash(p)
         \/ \E w \in Workers : Work(w)
         \/ \E w \in Workers : FetchLost(w)
         \/ \E w \in Workers : UpdateError(w)
         \/ UNCHANGED vars
BY Zenon DEF Next, Tick

\* Whoever lets go of a message that is PUBLISHING has recorded its result: no step of a
\* worker leaves a message behind, and none touches one that is.
LEMMA WorkAttends ==
  ASSUME Inv, NEW w \in Workers, Work(w), NEW m \in Unattended'
  PROVE  m \in Unattended /\ rows'[m] = rows[m]
<1>0. /\ HeldWhenBusy
      /\ pc \in [Workers -> PCs] /\ held \in [Workers -> Msgs \cup {NoMsg}]
      /\ rows \in [Msgs -> Row]
  BY DEF Inv, Typed, TypeOK, ProcessTypeOK
<1>1. /\ m \in Msgs /\ rows'[m].status = "PUBLISHING"
      /\ \A v \in Workers : pc'[v] # "idle" => held'[v] # m
  BY DEF Unattended, Idle
<1>2. CASE FetchAndLockToPublishing(w)
  <2>1. PICK n \in Msgs : /\ rows' = [rows EXCEPT ![n] = Fetched(rows[n])]
                          /\ held' = [held EXCEPT ![w] = n]
    BY <1>2, ZenonT(30) DEF FetchAndLockToPublishing
  <2>2. pc[w] = "idle" /\ pc' = [pc EXCEPT ![w] = "publishing"]
    BY <1>2 DEF FetchAndLockToPublishing, Idle
  <2>3. m # n
    BY <1>0, <1>1, <2>1, <2>2
  <2>4. \A v \in Workers : pc[v] # "idle" => held[v] # m
    BY <1>0, <1>1, <2>1, <2>2, SMT, Z3, Zenon
  <2> QED
    BY <1>0, <1>1, <2>1, <2>3, <2>4 DEF Unattended, Idle
<1>3. CASE PublishAccepted(w) \/ PublishRetryable(w) \/ PublishPermanent(w)
  <2>1. rows' = rows /\ held' = held
    BY <1>3 DEF PublishAccepted, PublishRetryable, PublishPermanent
  <2>2. \A v \in Workers : pc[v] # "idle" => pc'[v] # "idle"
    BY <1>0, <1>3, SMT, Z3, Zenon DEF PublishAccepted, PublishRetryable, PublishPermanent
  <2> QED
    BY <1>1, <2>1, <2>2 DEF Unattended, Idle
<1>4. CASE UpdateToPublished(w) \/ HandlePublishFailure(w)
  <2>1. held[w] \in Msgs /\ Release(w)
    BY <1>0, <1>4 DEF UpdateToPublished, HandlePublishFailure, HeldWhenBusy, Idle
  <2>2. PICK r : UpdateTo(held[w], r) /\ r.status # "PUBLISHING"
    <3>1. /\ Published(rows[held[w]]).status # "PUBLISHING"
          /\ Dead(rows[held[w]]).status # "PUBLISHING"
          /\ \A d : Failed(rows[held[w]], d).status # "PUBLISHING"
      BY DEF Published, Dead, Failed, Updated
    <3> QED
      BY <1>4, <3>1, Zenon DEF UpdateToPublished, HandlePublishFailure
  <2>3. m # held[w] /\ rows'[m] = rows[m]
    BY <1>0, <1>1, <2>1, <2>2 DEF UpdateTo
  <2>4. \A v \in Workers : v # w => pc'[v] = pc[v] /\ held'[v] = held[v]
    BY <1>0, <2>1 DEF Release
  <2> QED
    BY <1>1, <2>3, <2>4 DEF Unattended, Idle
<1> QED
  BY <1>2, <1>3, <1>4 DEF Work

\* The steps that concern no worker leave no message behind either.
LEMMA ProcessAttends ==
  ASSUME Inv, ProcessNext \/ AgeRows, UNCHANGED workerVars, NEW m \in Unattended'
  PROVE  m \in Unattended
<1>1. m \in Msgs /\ rows[m].status = "PUBLISHING"
  BY ProcessNextPublishing DEF Unattended, Inv, Typed, TypeOK
<1> QED
  BY <1>1, SMT, Z3, Zenon DEF Unattended, Idle, workerVars

\* A fault leaves behind what the worker, or the workers of the process, had in hand.
LEMMA FaultLeaves ==
  ASSUME Inv, [Next]_vars
  PROVE  \/ Unattended' \subseteq Unattended /\ faults' = faults
         \/ /\ \E k : Fault(k)
            /\ \E T : /\ IsFiniteSet(T) /\ Cardinality(T) <= Cardinality(Slots)
                      /\ Unattended' \subseteq Unattended \cup T
<1> DEFINE Left == \E T : /\ IsFiniteSet(T) /\ Cardinality(T) <= Cardinality(Slots)
                          /\ Unattended' \subseteq Unattended \cup T
<1>0. /\ pc \in [Workers -> PCs] /\ held \in [Workers -> Msgs \cup {NoMsg}]
      /\ rows \in [Msgs -> Row]
  BY DEF Inv, Typed, TypeOK, ProcessTypeOK
<1>a. IsFiniteSet(Slots) /\ Cardinality(Slots) \in Nat
  BY DispatcherAssumption, FS_CardinalityType DEF DispatcherAssumption
<1>b. ASSUME Unattended' \subseteq Unattended PROVE Left
  <2>1. IsFiniteSet({}) /\ Cardinality({}) <= Cardinality(Slots)
    BY <1>a, FS_EmptySet
  <2> QED
    BY <1>b, <2>1
<1>c. ASSUME NEW w \in Workers, NEW n, Unattended' \subseteq Unattended \cup {n} PROVE Left
  <2>1. Slots # {}
    BY DEF Workers
  <2>2. Cardinality(Slots) # 0
    BY <1>a, <2>1, FS_EmptySet
  <2>3. IsFiniteSet({n}) /\ Cardinality({n}) = 1
    BY FS_Singleton, Zenon
  <2>4. Cardinality({n}) <= Cardinality(Slots)
    BY <1>a, <2>2, <2>3
  <2> QED
    BY <1>c, <2>3, <2>4
<1>1. CASE (ProcessNext \/ AgeRows) /\ UNCHANGED workerVars
  <2>1. Unattended' \subseteq Unattended
    BY <1>1, ProcessAttends
  <2> QED
    BY <1>1, <1>b, <2>1, ProcessNextFaults
<1>2. ASSUME NEW p \in Procs, Exit(p)
      PROVE  Unattended' \subseteq Unattended /\ faults' = faults
  BY <1>2 DEF Exit, workerVars, Unattended, Idle
<1>3. ASSUME NEW p \in Procs, Crash(p) PROVE Left
  <2> DEFINE f == [s \in Slots |-> held[<<p, s>>]]
             T == {f[s] : s \in Slots}
  <2>1. f \in Surjection(Slots, T)
    BY Zenon DEF Surjection
  <2>2. IsFiniteSet(T) /\ Cardinality(T) <= Cardinality(Slots)
    BY <1>a, <2>1, FS_Surjection
  <2>3. ASSUME NEW m \in Unattended', m \notin Unattended PROVE m \in T
    <3>1. PICK v \in Workers : ~Idle(v) /\ held[v] = m
      BY <1>3, <2>3, SMT, Z3, Zenon DEF Crash, Unattended
    <3>2. v[1] = p
      BY <1>3, <2>3, <3>1 DEF Crash, Unattended, Idle
    <3>3. v[2] \in Slots /\ v = <<p, v[2]>>
      BY <3>2 DEF Workers
    <3> QED
      BY <3>1, <3>3, SMT, Z3, Zenon
  <2> QED
    BY <2>2, <2>3, SMT, Z3, Zenon
<1>4. ASSUME NEW w \in Workers, Work(w)
      PROVE  Unattended' \subseteq Unattended /\ faults' = faults
  <2>1. faults' = faults
    BY <1>4 DEF Work, FetchAndLockToPublishing, PublishAccepted, PublishRetryable,
                PublishPermanent, UpdateToPublished, HandlePublishFailure
  <2> QED
    BY <1>4, <2>1, WorkAttends, Zenon
<1>5. ASSUME NEW w \in Workers, FetchLost(w) PROVE Left
  <2>1. PICK n \in Msgs : rows' = [rows EXCEPT ![n] = Fetched(rows[n])]
    BY <1>5, ZenonT(30) DEF FetchLost
  <2>2. Unattended' \subseteq Unattended \cup {n}
    BY <1>0, <1>5, <2>1 DEF FetchLost, workerVars, Unattended, Idle
  <2> QED
    BY <1>c, <2>2
<1>6. ASSUME NEW w \in Workers, UpdateError(w) PROVE Left
  <2>1. rows' = rows /\ \A v \in Workers : v # w => pc'[v] = pc[v] /\ held'[v] = held[v]
    BY <1>0, <1>6 DEF UpdateError, Release
  <2>2. Unattended' \subseteq Unattended \cup {held[w]}
    BY <2>1 DEF Unattended, Idle
  <2> QED
    BY <1>c, <2>2
<1>7. CASE UNCHANGED vars
  BY <1>7, SMT, Z3, Zenon DEF vars, Unattended, Idle
<1>8. /\ \A p \in Procs : Crash(p) => \E k : Fault(k)
      /\ \A w \in Workers : FetchLost(w) \/ UpdateError(w) => \E k : Fault(k)
  BY DEF Crash, FetchLost, UpdateError
<1> QED
  BY <1>1, <1>2, <1>3, <1>4, <1>5, <1>6, <1>7, <1>8, StepCases, Zenon

\* The messages that are left behind are finitely many, and no more than the faults
\* account for.
LossInv == IsFiniteSet(Unattended) /\ LossIsBounded

LEMMA InitLoss == Init => LossInv
<1> SUFFICES ASSUME Init PROVE LossInv
  OBVIOUS
<1>1. Unattended = {}
  BY DEF Init, ProcessInit, Unattended, Absent
<1>2. faults = 0 /\ Cardinality(Slots) \in Nat
  BY DispatcherAssumption, FS_CardinalityType DEF Init, ProcessInit, DispatcherAssumption
<1> QED
  BY <1>1, <1>2, FS_EmptySet DEF LossInv, LossIsBounded

LEMMA NextLoss == Inv /\ LossInv /\ [Next]_vars => LossInv'
<1> SUFFICES ASSUME Inv, LossInv, [Next]_vars PROVE LossInv'
  OBVIOUS
<1>1. /\ faults \in Nat /\ Cardinality(Slots) \in Nat
      /\ IsFiniteSet(Unattended) /\ Cardinality(Unattended) <= faults * Cardinality(Slots)
  BY DispatcherAssumption, ProcessAssumption, FS_CardinalityType
     DEF DispatcherAssumption, ProcessAssumption, Inv, Typed, TypeOK, ProcessTypeOK,
         LossInv, LossIsBounded
<1>2. CASE Unattended' \subseteq Unattended /\ faults' = faults
  <2>1. IsFiniteSet(Unattended') /\ Cardinality(Unattended') <= Cardinality(Unattended)
    BY <1>1, <1>2, FS_Subset
  <2>2. Cardinality(Unattended') \in Nat /\ Cardinality(Unattended) \in Nat
    BY <1>1, <2>1, FS_CardinalityType
  <2>3. faults * Cardinality(Slots) \in Nat
    BY <1>1
  <2>4. Cardinality(Unattended') <= faults * Cardinality(Slots)
    BY <1>1, <2>1, <2>2, <2>3
  <2> QED
    BY <1>2, <2>1, <2>4 DEF LossInv, LossIsBounded
<1>3. ASSUME NEW k, Fault(k), NEW T, IsFiniteSet(T), Cardinality(T) <= Cardinality(Slots),
             Unattended' \subseteq Unattended \cup T
      PROVE  LossInv'
  <2>1. faults' = faults + 1
    BY <1>3 DEF Fault
  <2>2. /\ IsFiniteSet(Unattended')
        /\ Cardinality(Unattended') <= (faults + 1) * Cardinality(Slots)
    BY <1>1, <1>3, LossGrows
  <2> QED
    BY <2>1, <2>2 DEF LossInv, LossIsBounded
<1> QED
  BY <1>2, <1>3, FaultLeaves, Zenon

\* A crash or a failed database call leaves at most WorkerCount messages PUBLISHING with
\* no worker to record them (core/worker.go, core/dispatcher.go); without a fault there is
\* none, whatever slow publishers, recoveries, requeues and graceful stops do.
THEOREM LossIsLimited == Spec => []LossIsBounded
<1>1. LossInv => LossIsBounded
  BY DEF LossInv
<1> QED
  BY <1>1, InitLoss, NextLoss, InvHolds, PTL DEF Spec

\* The recovery at start repairs every crash (core/dispatcher.go), if processes start
\* later than the threshold and crashes are the only faults: for any number of processes,
\* crashes at any moment, before and during a recovery as well, and any slowness.
THEOREM CrashesAreRepaired ==
  ASSUME LateRestart, FaultKinds \subseteq {"crash"}
  PROVE  Spec => []CrashIsRepaired
<1>1. Init => CrashIsRepaired
  BY DEF Init, ProcessInit, CrashIsRepaired, Unattended, Absent
<1>2. Inv /\ CrashIsRepaired /\ [Next]_vars => CrashIsRepaired'
  <2> SUFFICES ASSUME Inv, CrashIsRepaired, [Next]_vars, NEW m \in Unattended'
               PROVE  AwaitsRecovery(m)'
    BY DEF CrashIsRepaired
  <2>1. m \in Msgs /\ rows'[m].status = "PUBLISHING"
    BY DEF Unattended
  <2>2. CASE (ProcessNext \/ AgeRows) /\ UNCHANGED workerVars
    <3>1. AwaitsRecovery(m)
      BY <2>2, ProcessAttends DEF CrashIsRepaired
    <3> QED
      BY <2>1, <2>2, <3>1, ProcessNextAwaits DEF Inv, Typed, TypeOK
  <2>3. ASSUME NEW p \in Procs, Exit(p) \/ Crash(p) PROVE AwaitsRecovery(m)'
    <3>1. proc'[p] = "down"
      BY <2>3 DEF Exit, Crash, Down, Inv, Typed, TypeOK, ProcessTypeOK
    <3> QED
      BY <3>1, SMT, Z3, Zenon DEF AwaitsRecovery
  <2>4. ASSUME NEW w \in Workers, Work(w) PROVE AwaitsRecovery(m)'
    <3>1. AwaitsRecovery(m) /\ rows'[m] = rows[m]
      BY <2>4, WorkAttends, Zenon DEF CrashIsRepaired
    <3>2. UNCHANGED <<proc, reviving>>
      BY <2>4, Zenon DEF Work, FetchAndLockToPublishing, PublishAccepted, PublishRetryable,
                  PublishPermanent, UpdateToPublished, HandlePublishFailure
    <3> QED
      BY <3>1, <3>2 DEF AwaitsRecovery
  <2>5. \A w \in Workers : ~FetchLost(w) /\ ~UpdateError(w)
    BY SMT, Z3, Zenon DEF FetchLost, UpdateError, Fault
  <2>6. CASE UNCHANGED vars
    BY <2>6, SMT, Z3, Zenon DEF vars, CrashIsRepaired, Unattended, Idle, AwaitsRecovery
  <2> QED
    BY <2>2, <2>3, <2>4, <2>5, <2>6, StepCases, Zenon
<1> QED
  BY <1>1, <1>2, InvHolds, PTL DEF Spec

-----------------------------------------------------------------------------
(* The dispatcher implements Delivery *)

\* The message of a busy worker has been inserted.
HeldInserted == \A w \in Workers : ~Idle(w) => rows[held[w]].status # "NONE"

LEMMA NextHeldInserted == Inv /\ HeldInserted /\ [Next]_vars => HeldInserted'
<1> SUFFICES ASSUME Inv, HeldInserted, [Next]_vars,
                    NEW w \in Workers, ~Idle(w)'
             PROVE  rows'[held'[w]].status # "NONE"
  BY DEF HeldInserted
<1>1. ASSUME NEW m \in Msgs, rows[m].status # "NONE"
      PROVE  rows'[m].status # "NONE"
  BY <1>1, NextRowMove, MoveInserted DEF Inv, Typed, TypeOK
<1>2. ~Idle(w) => held[w] \in Msgs
  BY SMTT(30) DEF Inv, Typed, HeldWhenBusy
<1>3. \/ ~Idle(w) /\ held'[w] = held[w]
      \/ held'[w] \in Msgs /\ rows[held'[w]].status = "ENQUEUED"
  <2> USE DEF Inv, Typed, TypeOK
  <2>1. CASE UNCHANGED workerVars
    BY <2>1, SMT, Z3, Zenon DEF workerVars, Idle
  <2>2. ASSUME NEW p \in Procs, Crash(p) PROVE ~Idle(w) /\ held'[w] = held[w]
    BY <2>2, SMT, Z3, Zenon DEF Crash, Idle
  <2>3. ASSUME NEW v \in Workers, FetchAndLockToPublishing(v)
        PROVE  \/ ~Idle(w) /\ held'[w] = held[w]
               \/ held'[w] \in Msgs /\ rows[held'[w]].status = "ENQUEUED"
    BY <2>3 DEF FetchAndLockToPublishing, Oldest, Idle
  <2>4. ASSUME NEW v \in Workers,
               PublishAccepted(v) \/ PublishRetryable(v) \/ PublishPermanent(v)
        PROVE  ~Idle(w) /\ held'[w] = held[w]
    BY <2>4 DEF PublishAccepted, PublishRetryable, PublishPermanent, Idle
  <2>5. ASSUME NEW v \in Workers, Release(v) PROVE ~Idle(w) /\ held'[w] = held[w]
    BY <2>5, SMTT(30), Z3T(30) DEF Release, Idle
  <2> QED
    BY <2>1, <2>2, <2>3, <2>4, <2>5, ZenonT(30)
       DEF Next, vars, workerVars, Work, Exit, FetchLost, UpdateToPublished,
           HandlePublishFailure, UpdateError, Tick
<1> QED
  BY <1>1, <1>2, <1>3 DEF HeldInserted

\* One step of the dispatcher is one step of Delivery, or none.
LEMMA StepKeepsPromise ==
  Inv /\ HeldInserted /\ [Next]_vars => Promise!Next \/ UNCHANGED Promise!vars
<1> SUFFICES ASSUME Inv, HeldInserted, [Next]_vars
             PROVE  Promise!Next \/ UNCHANGED Promise!vars
  OBVIOUS
<1> USE Phases DEF Inv
<1>0. ProcessTypeOK /\ \A m \in Msgs : rows[m] \in Row
  BY DEF Typed, TypeOK, ProcessTypeOK
<1>1. CASE ProcessNext \/ AgeRows
  BY <1>0, <1>1, ProcessKeepsPromise
<1>2. ASSUME NEW p \in Procs, Crash(p) PROVE Promise!Next
  <2>1. PICK S \in SUBSET {held[w] : w \in {v \in WorkersOf(p) : pc[v] = "publishing"}} :
          sent' = sent \cup S
    BY <1>2, Zenon DEF Crash
  <2>2. S \in SUBSET Msgs /\ \A m \in S : rows[m].status # "NONE"
    BY SMT, Z3, Zenon DEF Typed, HeldWhenBusy, HeldInserted, Idle, WorkersOf
  <2> QED
    BY <1>0, <1>2, <2>1, <2>2, SendKeepsPromise, Zenon DEF Crash
<1>3. ASSUME NEW w \in Workers, FetchAndLockToPublishing(w) \/ FetchLost(w)
      PROVE  UNCHANGED Promise!vars
  <2>1. PICK m \in Msgs : /\ rows[m].status = "ENQUEUED"
                          /\ rows' = [rows EXCEPT ![m] = Fetched(rows[m])]
    BY <1>3, SMT, Z3, Zenon DEF FetchAndLockToPublishing, FetchLost, Oldest
  <2>2. \A n \in Msgs : PhaseOf(rows'[n].status) = PhaseOf(rows[n].status)
    BY <1>0, <2>1, NewStatus DEF ProcessTypeOK
  <2> QED
    BY <1>3, <2>2, PhaseStutter, SMT, Z3, Zenon DEF FetchAndLockToPublishing, FetchLost
<1>4. ASSUME NEW w \in Workers, PublishAccepted(w) \/ PublishRetryable(w)
      PROVE  Promise!Next \/ UNCHANGED Promise!vars
  <2>1. held[w] \in Msgs /\ rows[held[w]].status # "NONE"
    BY <1>4 DEF PublishAccepted, PublishRetryable, Typed, HeldWhenBusy, HeldInserted, Idle
  <2>2. rows' = rows /\ sent' \in {sent, sent \cup {held[w]}}
    BY <1>4 DEF PublishAccepted, PublishRetryable
  <2>3. CASE sent' = sent
    BY <2>2, <2>3, PhaseStutter, SMT, Z3, Zenon
  <2>4. CASE sent' = sent \cup {held[w]}
    <3> DEFINE S == {held[w]}
    <3>1. S \in SUBSET Msgs /\ \A m \in S : rows[m].status # "NONE"
      BY <2>1
    <3> HIDE DEF S
    <3>2. sent' = sent \cup S
      BY <2>4 DEF S
    <3> QED
      BY <1>0, <2>2, <3>1, <3>2, SendKeepsPromise
  <2> QED
    BY <2>2, <2>3, <2>4, SMT, Z3, Zenon
<1>5. ASSUME NEW w \in Workers, UpdateToPublished(w)
      PROVE  Promise!Next \/ UNCHANGED Promise!vars
  <2> DEFINE m == held[w]
  <2>1. m \in Msgs /\ m \in sent /\ sent' = sent
    BY <1>5, SMT, Z3, Zenon DEF UpdateToPublished, Typed, HeldWhenBusy, AcceptedWasSent, Idle
  <2>2. CASE rows[m].status # "PUBLISHING"
    BY <1>5, <2>1, <2>2, PhaseStutter DEF UpdateToPublished, UpdateTo
  <2>3. CASE rows[m].status = "PUBLISHING"
    <3>1. /\ PhaseOf(rows[m].status) \in {"pending"}
          /\ PhaseOf(rows'[m].status) = "published"
          /\ \A n \in Msgs \ {m} : rows'[n] = rows[n]
      BY <1>0, <1>5, <2>1, <2>3, NewStatus, Zenon
         DEF UpdateToPublished, UpdateTo, ProcessTypeOK
    <3>2. Promise!Move({m}, {"pending"}, "published")
      BY <2>1, <3>1, PhaseMove
    <3>3. Promise!Confirm({m})
      BY <2>1, <3>2, Zenon DEF Promise!Confirm
    <3> QED
      BY <2>1, <3>3, SMTT(30) DEF Promise!Next
  <2> QED
    BY <2>2, <2>3, SMT, Z3, Zenon
<1>6. ASSUME NEW w \in Workers, HandlePublishFailure(w)
      PROVE  Promise!Next \/ UNCHANGED Promise!vars
  <2> DEFINE m == held[w]
  <2>1. m \in Msgs /\ sent' = sent /\ rows[m].attempt \in Nat
    BY <1>0, <1>6, Zenon DEF HandlePublishFailure, Typed, HeldWhenBusy, Idle, Row
  <2>2. CASE rows' = rows
    BY <2>1, <2>2, PhaseStutter
  <2>3. CASE rows[m].status = "PUBLISHING" /\ rows' = [rows EXCEPT ![m] = Dead(rows[m])]
    <3>1. /\ PhaseOf(rows[m].status) \in {"pending"}
          /\ PhaseOf(rows'[m].status) = "dead"
          /\ \A n \in Msgs \ {m} : rows'[n] = rows[n]
      BY <1>0, <2>1, <2>3, NewStatus, Zenon DEF ProcessTypeOK
    <3>2. Promise!Move({m}, {"pending"}, "dead")
      BY <2>1, <3>1, PhaseMove, SMT, Z3, Zenon
    <3> QED
      BY <2>1, <3>2, Zenon DEF Promise!Next, Promise!GiveUp
  <2>4. ASSUME rows[m].status = "PUBLISHING", NEW d \in Jittered(rows[m].attempt),
               rows' = [rows EXCEPT ![m] = Failed(rows[m], d)]
        PROVE  UNCHANGED Promise!vars
    <3>1. d \in 0..BackoffMax
      BY <2>1, <2>4, JitteredRange, Zenon
    <3>2. \A n \in Msgs : PhaseOf(rows'[n].status) = PhaseOf(rows[n].status)
      BY <1>0, <2>1, <2>4, <3>1, NewStatus, ZenonT(30) DEF ProcessTypeOK
    <3> QED
      BY <2>1, <3>2, PhaseStutter
  <2> QED
    BY <1>6, <2>2, <2>3, <2>4, Zenon DEF HandlePublishFailure, UpdateTo
<1>7. CASE UNCHANGED <<rows, sent>>
  BY <1>7, PhaseStutter
<1> QED
  BY <1>1, <1>2, <1>3, <1>4, <1>5, <1>6, <1>7, Zenon
     DEF Next, vars, Work, Exit, PublishPermanent, UpdateError, Tick

\* The outbox promise is kept: a message counts as published only after it was
\* handed over, and a verdict on it is never taken back, whatever the workers,
\* recoveries and crashes of any number of dispatchers do.
THEOREM PromiseIsKept == Spec => KeepsPromise
<1>1. Init => Promise!Init
  BY DEF Init, ProcessInit, Promise!Init, PhaseOf, Absent
<1>2. Init => HeldInserted
  BY DEF Init, HeldInserted, Idle
<1>3. Spec => [](Inv /\ HeldInserted)
  BY <1>2, InvHolds, NextHeldInserted, PTL DEF Spec
<1>4. Inv /\ HeldInserted /\ [Next]_vars => [Promise!Next]_(Promise!vars)
  BY StepKeepsPromise, SMT, Z3, Zenon
<1> QED
  BY <1>1, <1>3, <1>4, PTL DEF Spec, KeepsPromise, Promise!Spec

-----------------------------------------------------------------------------
(* Publishers that finish within StuckThreshold *)

\* Why a recovery never takes a message from a worker: the worker is done with it
\* before its row is old enough, so that the count it read is still current.
InTime(w) ==
  ~Idle(w) => /\ rows[held[w]].status = "PUBLISHING"
              /\ rows[held[w]].age <= StuckThreshold
              /\ rows[held[w]].attempt = snap[w]

Owned ==
  /\ \A w \in Workers : Idle(w) => held[w] = NoMsg
  /\ \A w \in Workers : InTime(w)
  /\ ExclusiveOwner
  /\ FailedIsRetryable

\* A step that leaves the workers and their rows alone keeps the owners.
LEMMA OwnedFrame ==
  ASSUME Typed, Owned, UNCHANGED workerVars,
         \A w \in Workers : ~Idle(w) => rows'[held[w]] = rows[held[w]],
         FailedIsRetryable'
  PROVE  Owned'
  BY SMT, Z3, Zenon DEF Owned, InTime, ExclusiveOwner, Idle, workerVars

\* A worker that is done with its message leaves those of the others alone.
LEMMA OwnedRelease ==
  ASSUME Typed, Owned, NEW w \in Workers, ~Idle(w), Release(w),
         \A m \in Msgs \ {held[w]} : rows'[m] = rows[m],
         FailedIsRetryable'
  PROVE  Owned'
<1>1. /\ Idle(w)' /\ held'[w] = NoMsg
      /\ \A v \in Workers \ {w} : /\ pc'[v] = pc[v]
                                  /\ held'[v] = held[v]
                                  /\ snap'[v] = snap[v]
  BY DEF Release, Typed, TypeOK, Idle
<1>2. held[w] \in Msgs /\ held[w] # NoMsg
  BY ProcessAssumption DEF Typed, HeldWhenBusy, ProcessAssumption
<1>3. \A v \in Workers \ {w} : ~Idle(v) => rows'[held[v]] = rows[held[v]]
  BY <1>2, Zenon DEF Owned, ExclusiveOwner, Typed, HeldWhenBusy
<1> QED
  BY <1>1, <1>3, SMT, Z3, Zenon DEF Owned, InTime, ExclusiveOwner, Idle

LEMMA NextOwned ==
  ASSUME ~SlowPublish, StuckSeconds = StuckThreshold
  PROVE  Typed /\ Owned /\ [Next]_vars => Owned'
<1> SUFFICES ASSUME Typed, Owned, [Next]_vars PROVE Owned'
  OBVIOUS
<1>0. /\ ProcessTypeOK
      /\ \A m \in Msgs : /\ rows[m] \in Row
                         /\ rows[m].attempt \in Nat /\ rows[m].max \in Nat
                         /\ rows[m].age \in 0..AgeCap
  BY SMT, Z3, Zenon DEF Typed, TypeOK, ProcessTypeOK, Row
<1>1. \A w \in Workers : ~Idle(w) => /\ held[w] \in Msgs
                                     /\ rows[held[w]].status = "PUBLISHING"
                                     /\ rows[held[w]].age <= StuckThreshold
  BY DEF Typed, HeldWhenBusy, Owned, InTime
<1>2. ASSUME NEW m \in Msgs, Insert(m), UNCHANGED workerVars PROVE Owned'
  <2>1. PICK k \in MaxAttempts : rows' = [rows EXCEPT ![m] = InsertedRow(k)]
    BY <1>2, ZenonT(30) DEF Insert
  <2>2. /\ rows'[m].status = "ENQUEUED"
        /\ \A n \in Msgs \ {m} : rows'[n] = rows[n]
    BY <1>0, <2>1 DEF Typed, TypeOK, ProcessTypeOK, InsertedRow
  <2>3. FailedIsRetryable'
    BY <2>2, Zenon DEF Owned, FailedIsRetryable
  <2> QED
    BY <1>1, <1>2, <2>2, <2>3, OwnedFrame DEF Insert
<1>3. CASE DeleteOlderThan /\ UNCHANGED workerVars
  <2>1. \A m \in Msgs : rows'[m] = rows[m] \/ rows'[m].status = "DELETED"
    BY <1>0, <1>3, NewStatus, SMT, Z3, Zenon DEF DeleteOlderThan
  <2>2. \A m \in Msgs : rows[m].status = "PUBLISHING" => rows'[m] = rows[m]
    BY <1>3, TableAssumption, SMT, Z3, Zenon DEF DeleteOlderThan, Deletable, TableAssumption
  <2>3. FailedIsRetryable'
    BY <2>1, SMTT(30), Z3T(30) DEF Owned, FailedIsRetryable
  <2> QED
    BY <1>1, <1>3, <2>2, <2>3, OwnedFrame, Zenon DEF DeleteOlderThan
<1>4. ASSUME NEW p \in Procs, Revive(p), UNCHANGED workerVars PROVE Owned'
  <2>1. PICK d \in [Msgs -> 0..BackoffMax] :
          rows' = [m \in Msgs |-> IF Stuck(rows[m]) THEN Revived(rows[m], d[m])
                                                    ELSE rows[m]]
    BY <1>4, Zenon DEF Revive
  <2>2. \A w \in Workers : ~Idle(w) => ~Stuck(rows[held[w]])
    <3>1. \A x \in 0..AgeCap : x <= StuckThreshold => ~(x > StuckThreshold)
      BY TableAssumption DEF TableAssumption
    <3> QED
      BY <1>0, <1>1, <3>1 DEF Stuck
  <2>3. \A m \in Msgs : Revived(rows[m], d[m]).status = "FAILED"
          => Revived(rows[m], d[m]).attempt < Revived(rows[m], d[m]).max
    <3>1. \A m \in Msgs : rows[m] \in Row /\ d[m] \in 0..BackoffMax
      BY DEF Typed, TypeOK, ProcessTypeOK
    <3> QED
      BY <3>1, RevivedIsRetryable
  <2>4. FailedIsRetryable'
    BY <2>1, <2>3, Zenon DEF Owned, FailedIsRetryable
  <2> QED
    BY <1>1, <1>4, <2>1, <2>2, <2>4, OwnedFrame, Zenon DEF Revive
<1>5. ASSUME NEW p \in Procs, RequeueFailed(p), UNCHANGED workerVars PROVE Owned'
  <2>1. \A m \in Msgs : \/ rows'[m] = rows[m]
                        \/ rows[m].status = "FAILED" /\ rows'[m].status = "ENQUEUED"
    BY <1>0, <1>5, NewStatus, Zenon DEF RequeueFailed, Requeueable
  <2>2. FailedIsRetryable'
    BY <2>1, SMT, Z3, Zenon DEF Owned, FailedIsRetryable
  <2> QED
    BY <1>1, <1>5, <2>1, <2>2, OwnedFrame, SMTT(30), Z3T(30) DEF RequeueFailed
<1>6. ASSUME NEW p \in Procs, Crash(p) PROVE Owned'
  BY <1>6
     DEF Crash, Owned, InTime, ExclusiveOwner, FailedIsRetryable, Idle, Typed, TypeOK, ProcessTypeOK
<1>7. ASSUME NEW w \in Workers, FetchAndLockToPublishing(w) PROVE Owned'
  <2>1. PICK m \in Msgs :
          /\ rows[m].status = "ENQUEUED"
          /\ rows' = [rows EXCEPT ![m] = Fetched(rows[m])]
          /\ held' = [held EXCEPT ![w] = m]
          /\ snap' = [snap EXCEPT ![w] = rows[m].attempt]
    BY <1>7, Zenon DEF FetchAndLockToPublishing, Oldest
  <2>2. /\ rows'[m] = Fetched(rows[m])
        /\ \A n \in Msgs \ {m} : rows'[n] = rows[n]
        /\ pc'[w] = "publishing" /\ held'[w] = m /\ snap'[w] = rows[m].attempt
        /\ \A v \in Workers \ {w} : /\ pc'[v] = pc[v]
                                    /\ held'[v] = held[v]
                                    /\ snap'[v] = snap[v]
    BY <1>7, <2>1, ZenonT(30) DEF FetchAndLockToPublishing, Typed, TypeOK, ProcessTypeOK
  <2>3. /\ rows'[m].status = "PUBLISHING"
        /\ rows'[m].age <= StuckThreshold
        /\ rows'[m].attempt = rows[m].attempt
    BY <2>2, TableAssumption DEF Fetched, Updated, TableAssumption
  <2>4. \A v \in Workers \ {w} : held[v] # m
    BY <1>1, <2>1, ProcessAssumption, Zenon DEF Owned, ProcessAssumption
  <2>5. InTime(w)'
    BY <2>2, <2>3 DEF InTime
  <2>6. ASSUME NEW v \in Workers \ {w} PROVE InTime(v)'
    <3>1. Idle(v)' <=> Idle(v)
      BY <2>2, Zenon DEF Idle
    <3>2. CASE Idle(v)
      BY <3>1, <3>2 DEF InTime
    <3>3. CASE ~Idle(v)
      <4>1. held[v] \in Msgs \ {m} /\ held'[v] = held[v] /\ snap'[v] = snap[v]
        BY <1>1, <2>2, <2>4, <3>3, Zenon
      <4>2. rows'[held[v]] = rows[held[v]]
        BY <2>2, <4>1
      <4>3. InTime(v)
        BY SMT, Z3, Zenon DEF Owned
      <4> QED  BY <3>3, <4>1, <4>2, <4>3, Zenon DEF InTime
    <3> QED  BY <3>2, <3>3, Zenon
  <2>7. FailedIsRetryable'
    BY <2>2, <2>3, SMT, Z3, Zenon DEF FailedIsRetryable, Owned
  <2>8. ExclusiveOwner' /\ \A v \in Workers : Idle(v)' => held'[v] = NoMsg
    BY <2>2, <2>4, SMTT(30), Z3T(30) DEF ExclusiveOwner, Owned, Idle
  <2> QED
    BY <2>5, <2>6, <2>7, <2>8 DEF Owned
<1>8. ASSUME NEW w \in Workers, FetchLost(w) PROVE Owned'
  <2>1. PICK m \in Msgs : /\ rows[m].status = "ENQUEUED"
                          /\ rows' = [rows EXCEPT ![m] = Fetched(rows[m])]
    BY <1>8, ZenonT(30) DEF FetchLost, Oldest
  <2>2. /\ rows'[m].status = "PUBLISHING"
        /\ \A n \in Msgs \ {m} : rows'[n] = rows[n]
    BY <1>0, <2>1, NewStatus, Zenon DEF Typed, TypeOK, ProcessTypeOK
  <2>3. FailedIsRetryable'
    BY <2>2, Zenon DEF Owned, FailedIsRetryable
  <2> QED
    BY <1>1, <1>8, <2>1, <2>2, <2>3, OwnedFrame, SMT, Z3, Zenon DEF FetchLost
<1>9. ASSUME NEW w \in Workers,
             PublishAccepted(w) \/ PublishRetryable(w) \/ PublishPermanent(w)
      PROVE  Owned'
  BY <1>9 DEF PublishAccepted, PublishRetryable, PublishPermanent, Owned, InTime,
              ExclusiveOwner, FailedIsRetryable, Idle, Typed, TypeOK, ProcessTypeOK
<1>10. ASSUME NEW w \in Workers, UpdateToPublished(w) PROVE Owned'
  <2>1. ~Idle(w) /\ held[w] \in Msgs /\ rows[held[w]].status = "PUBLISHING"
    BY <1>1, <1>10, ZenonT(30) DEF UpdateToPublished, Idle
  <2>2. /\ rows'[held[w]].status = "PUBLISHED"
        /\ \A n \in Msgs \ {held[w]} : rows'[n] = rows[n]
    BY <1>0, <1>10, <2>1, NewStatus, Zenon
       DEF UpdateToPublished, UpdateTo, Typed, TypeOK, ProcessTypeOK
  <2>3. FailedIsRetryable'
    BY <2>2, SMTT(30) DEF Owned, FailedIsRetryable
  <2> QED
    BY <1>10, <2>1, <2>2, <2>3, OwnedRelease, ZenonT(30) DEF UpdateToPublished
<1>11. ASSUME NEW w \in Workers, HandlePublishFailure(w) PROVE Owned'
  <2>1. ~Idle(w) /\ held[w] \in Msgs /\ rows[held[w]].status = "PUBLISHING"
    BY <1>1, <1>11, ZenonT(30) DEF HandlePublishFailure, Idle
  <2>2. rows[held[w]].attempt = snap[w]
    BY <2>1, SMTT(30) DEF Owned, InTime
  <2>3. /\ \A n \in Msgs \ {held[w]} : rows'[n] = rows[n]
        /\ \/ rows'[held[w]].status = "DEAD"
           \/ rows'[held[w]].attempt < rows'[held[w]].max
    <3>1. CASE rows' = [rows EXCEPT ![held[w]] = Dead(rows[held[w]])]
      BY <1>0, <2>1, <3>1, NewStatus, Zenon DEF Typed, TypeOK, ProcessTypeOK
    <3>2. ASSUME ~WillExceedMaxAttemptsAfterFailure(w),
                 NEW d \in Jittered(rows[held[w]].attempt),
                 rows' = [rows EXCEPT ![held[w]] = Failed(rows[held[w]], d)]
          PROVE  /\ \A n \in Msgs \ {held[w]} : rows'[n] = rows[n]
                 /\ rows'[held[w]].attempt < rows'[held[w]].max
      <4>1. rows'[held[w]] = Failed(rows[held[w]], d)
        BY <2>1, <3>2, Zenon DEF Typed, TypeOK, ProcessTypeOK
      <4>2. rows[held[w]].attempt + 1 < rows[held[w]].max
        BY <1>0, <2>1, <2>2, <3>2, SMTT(30), Z3T(30) DEF WillExceedMaxAttemptsAfterFailure
      <4> QED
        BY <3>2, <4>1, <4>2 DEF Failed, Updated, Typed, TypeOK, ProcessTypeOK
    <3> QED
      BY <1>11, <2>1, <3>1, <3>2, ZenonT(30) DEF HandlePublishFailure, UpdateTo
  <2>4. FailedIsRetryable'
    BY <2>3, Zenon DEF Owned, FailedIsRetryable
  <2> QED
    BY <1>11, <2>1, <2>3, <2>4, OwnedRelease, ZenonT(30) DEF HandlePublishFailure
<1>12. ASSUME NEW w \in Workers, UpdateError(w) PROVE Owned'
  <2>1. ~Idle(w)
    BY <1>12 DEF UpdateError, Recording, Idle
  <2>2. FailedIsRetryable'
    BY <1>12, Zenon DEF UpdateError, Owned, FailedIsRetryable
  <2> QED
    BY <1>12, <2>1, <2>2, OwnedRelease, Zenon DEF UpdateError
<1>13. CASE Tick
  <2>1. \A m \in Msgs : /\ rows'[m] = Aged(rows[m])
                        /\ rows'[m].status = rows[m].status
                        /\ rows'[m].attempt = rows[m].attempt
                        /\ rows'[m].max = rows[m].max
    BY <1>13, ZenonT(30) DEF Tick, AgeRows, Aged
  <2>2. ASSUME NEW w \in Workers, ~Idle(w) PROVE rows'[held[w]].age <= StuckThreshold
    <3>1. held[w] \in Msgs /\ rows[held[w]].age < StuckThreshold
      BY <1>1, <1>13, <2>2, Zenon DEF Tick
    <3>2. rows'[held[w]].age \in {rows[held[w]].age, rows[held[w]].age + 1}
      BY <1>0, <2>1, <3>1, AgedAge, Zenon
    <3>3. rows[held[w]].age \in Nat /\ StuckThreshold \in Nat
      BY <1>0, <3>1, TableAssumption, SMTT(30), Z3T(30) DEF TableAssumption
    <3> QED
      BY <3>1, <3>2, <3>3
  <2>3. \A w \in Workers : InTime(w)'
    BY <1>1, <1>13, <2>1, <2>2, Zenon DEF Tick, InTime, Owned, Idle, workerVars
  <2> QED
    BY <1>13, <2>1, <2>3, Zenon
       DEF Tick, Owned, ExclusiveOwner, FailedIsRetryable, Idle, workerVars
<1>14. CASE UNCHANGED <<rows, workerVars>>
  BY <1>14 DEF Owned, InTime, ExclusiveOwner, FailedIsRetryable, Idle, workerVars
<1> QED
  BY <1>2, <1>3, <1>4, <1>5, <1>6, <1>7, <1>8, <1>9, <1>10, <1>11, <1>12, <1>13, <1>14, ZenonT(30)
     DEF Next, ProcessNext, vars, workerVars, Work, Start, ReviveError, Stop, Exit

LEMMA OwnedHolds ==
  ASSUME ~SlowPublish, StuckSeconds = StuckThreshold
  PROVE  Spec => []Owned
<1>1. Init => Owned
  BY DEF Init, ProcessInit, Owned, InTime, ExclusiveOwner, FailedIsRetryable, Idle, Absent
<1>2. Typed /\ Owned /\ [Next]_vars => Owned'
  BY NextOwned
<1> QED
  BY <1>1, <1>2, InitTyped, NextTyped, PTL DEF Spec

\* When every publisher is done within the stuck threshold, and the threshold is
\* a whole number of seconds, no recovery takes a message from the worker that is
\* publishing it.
THEOREM TimelyWorkersAreSafe ==
  ASSUME ~SlowPublish, StuckSeconds = StuckThreshold
  PROVE  Spec => []HeldIsPublishing
<1>1. Owned => HeldIsPublishing
  BY DEF Owned, InTime, HeldIsPublishing
<1> QED
  BY <1>1, OwnedHolds, PTL

\* Under the same conditions no two workers ever hold the same message.
THEOREM OwnersAreExclusive ==
  ASSUME ~SlowPublish, StuckSeconds = StuckThreshold
  PROVE  Spec => []ExclusiveOwner
<1>1. Owned => ExclusiveOwner
  BY DEF Owned
<1> QED
  BY <1>1, OwnedHolds, PTL

\* Under the same conditions no message is left FAILED with its attempts used up,
\* where RequeueFailed would never find it.
THEOREM FailuresAreRetried ==
  ASSUME ~SlowPublish, StuckSeconds = StuckThreshold
  PROVE  Spec => []FailedIsRetryable
<1>1. Owned => FailedIsRetryable
  BY DEF Owned
<1> QED
  BY <1>1, OwnedHolds, PTL

-----------------------------------------------------------------------------
(* The repositories agree *)

\* A threshold cut to whole seconds by division and by the remainder.
LEMMA WholeSeconds ==
  StuckThreshold - (StuckThreshold % TicksPerSecond) = StuckSeconds
BY TableAssumption DEF StuckSeconds

\* Rows with equal columns are equal.
LEMMA RowEquality ==
  ASSUME NEW q \in Row, NEW r \in Row,
         q.status = r.status, q.attempt = r.attempt, q.max = r.max,
         q.retry = r.retry, q.age = r.age
  PROVE  q = r
BY DEF Row

\* A row whose columns are updated one by one is the row written out.
LEMMA RowUpdates ==
  ASSUME NEW r \in Row, NEW s \in Statuses, NEW a \in Nat
  PROVE  /\ [r EXCEPT !.status = s, !.age = 0] = Updated(r, s, r.attempt, r.retry)
         /\ [r EXCEPT !.status = s, !.attempt = a, !.age = 0] = Updated(r, s, a, r.retry)
<1>0. 0 \in 0..AgeCap
  BY TableAssumption
<1>1. [r EXCEPT !.status = s, !.age = 0] = Updated(r, s, r.attempt, r.retry)
  <2>1. [r EXCEPT !.status = s, !.age = 0] \in Row
    BY <1>0, ZenonT(30) DEF Row
  <2>2. Updated(r, s, r.attempt, r.retry) \in Row
    BY <1>0 DEF Row, Updated
  <2> QED
    BY <2>1, <2>2, RowEquality, Zenon DEF Row, Updated
<1>2. [r EXCEPT !.status = s, !.attempt = a, !.age = 0] = Updated(r, s, a, r.retry)
  <2>1. [r EXCEPT !.status = s, !.attempt = a, !.age = 0] \in Row
    BY <1>0, Zenon DEF Row
  <2>2. Updated(r, s, a, r.retry) \in Row
    BY <1>0 DEF Row, Updated
  <2> QED
    BY <2>1, <2>2, RowEquality, Zenon DEF Row, Updated
<1> QED
  BY <1>1, <1>2

Scheduled(r, s, a, d) ==
  [r EXCEPT !.status = s, !.attempt = a, !.retry = d, !.age = 0]

LEMMA RowSchedules ==
  ASSUME NEW r \in Row, NEW s \in Statuses, NEW a \in Nat, NEW d \in NoRetry..BackoffMax
  PROVE  Scheduled(r, s, a, d) = Updated(r, s, a, d)
<1>0. 0 \in 0..AgeCap
  BY TableAssumption
<1>1. Scheduled(r, s, a, d) \in Row
  BY <1>0, Zenon DEF Row, Scheduled
<1>2. Updated(r, s, a, d) \in Row
  BY <1>0, Zenon DEF Row, Updated
<1> QED
  BY <1>1, <1>2, RowEquality, Zenon DEF Row, Updated, Scheduled

\* Each statement takes the same rows and has the same effect on them.
LEMMA SameOnEveryRow ==
  ASSUME NEW r \in Row
  PROVE  SameEffect(r)
<1>0. /\ r.attempt \in Nat /\ r.attempt + 1 \in Nat /\ r.max \in Nat
      /\ r.retry \in NoRetry..BackoffMax
      /\ NoRetry \in NoRetry..BackoffMax
      /\ \A d \in Jittered(r.attempt) : d \in NoRetry..BackoffMax
      /\ {"ENQUEUED", "PUBLISHING", "PUBLISHED", "FAILED", "DEAD"} \subseteq Statuses
  BY TableAssumption, SMTT(30) DEF Row, Jittered, NoRetry, Statuses
<1>1. /\ GormFetchLockAndMarkPublishing(r) = Where(r.status = "ENQUEUED", r, Fetched(r))
      /\ GormUpdateBatchToPublished(r) = Where(r.status = "PUBLISHING", r, Published(r))
      /\ GormUpdateToPublished(r) = Where(r.status = "PUBLISHING", r, Published(r))
  BY <1>0, RowUpdates, ZenonT(30)
     DEF GormFetchLockAndMarkPublishing, GormUpdateBatchToPublished, GormUpdateToPublished,
         Fetched, Published, Where
<1>2. GormRequeueFailed(r) = Where(Requeueable(r), r, Requeued(r))
  <2>1. Requeueable(r) <=> r.status = "FAILED" /\ r.attempt < r.max /\ r.retry = 0
    BY TableAssumption DEF Requeueable, Row, NoRetry
  <2>2. [r EXCEPT !.status = "ENQUEUED", !.age = 0] = Requeued(r)
    BY <1>0, RowUpdates, ZenonT(30) DEF Requeued
  <2> QED
    BY <2>1, <2>2, Zenon DEF GormRequeueFailed, Where
<1>3. CapAttempt(r) \in Nat
      /\ CapAttempt(r) = IF r.attempt + 1 > r.max THEN r.max ELSE r.attempt + 1
  BY <1>0, SMTT(30) DEF CapAttempt
<1>4. GormUpdateToDead(r) = Where(r.status = "PUBLISHING", r, Dead(r))
  <2>1. GormUpdateToDead(r) = IF r.status = "PUBLISHING"
          THEN [r EXCEPT !.status = "DEAD", !.attempt = CapAttempt(r), !.age = 0] ELSE r
    BY <1>3 DEF GormUpdateToDead
  <2>2. [r EXCEPT !.status = "DEAD", !.attempt = CapAttempt(r), !.age = 0] = Dead(r)
    BY <1>0, <1>3, RowUpdates, Zenon DEF Dead
  <2> QED
    BY <2>1, <2>2, Zenon DEF Where
<1>5. ASSUME NEW d \in Jittered(r.attempt)
      PROVE  Scheduled(r, "FAILED", r.attempt + 1, d) = Failed(r, d)
  <2>1. /\ d \in NoRetry..BackoffMax
        /\ "FAILED" \in Statuses
        /\ r.attempt + 1 \in Nat
    BY <1>0
  <2>2. Scheduled(r, "FAILED", r.attempt + 1, d) = Updated(r, "FAILED", r.attempt + 1, d)
    BY <2>1, RowSchedules
  <2> QED
    BY <2>2 DEF Failed
<1>6. ASSUME NEW d \in Jittered(r.attempt)
      PROVE  GormUpdateToFailed(r, d) = Where(r.status = "PUBLISHING", r, Failed(r, d))
  <2>1. GormUpdateToFailed(r, d) = IF r.status = "PUBLISHING"
                                   THEN Scheduled(r, "FAILED", r.attempt + 1, d) ELSE r
    BY DEF GormUpdateToFailed, Scheduled
  <2> QED
    BY <1>5, <2>1, Zenon DEF Where
<1>7. GormStuck(r) <=> Stuck(r)
  BY WholeSeconds DEF GormStuck, Stuck
<1>8. ASSUME NEW d \in Jittered(r.attempt)
      PROVE  GormRevive(r, d) = Where(Stuck(r), r, Revived(r, d))
  <2>1. CASE ~GormStuck(r)
    BY <1>7, <2>1, Zenon DEF GormRevive, Where
  <2>2. CASE GormStuck(r) /\ r.attempt + 1 >= r.max
    <3>1. GormRevive(r, d) = Scheduled(r, "DEAD", CapAttempt(r), NoRetry)
      BY <1>3, <2>2 DEF GormRevive, Scheduled
    <3>2. /\ NoRetry \in NoRetry..BackoffMax
          /\ "DEAD" \in Statuses
          /\ CapAttempt(r) \in Nat
      BY <1>0, <1>3
    <3>3. Scheduled(r, "DEAD", CapAttempt(r), NoRetry)
            = Updated(r, "DEAD", CapAttempt(r), NoRetry)
      BY <3>2, RowSchedules
    <3> QED
      BY <1>7, <2>2, <3>1, <3>3, Zenon DEF Revived, Where
  <2>3. CASE GormStuck(r) /\ ~(r.attempt + 1 >= r.max)
    <3>1. CapAttempt(r) = r.attempt + 1
      BY <1>0, <2>3 DEF CapAttempt
    <3>2. GormRevive(r, d) = Scheduled(r, "FAILED", r.attempt + 1, d)
      BY <1>3, <2>3, <3>1, Zenon DEF GormRevive, Scheduled
    <3> QED
      BY <1>5, <1>7, <2>3, <3>2, Zenon DEF Revived, Where
  <2> QED
    BY <2>1, <2>2, <2>3
<1>9. GormDeletable(r) <=> Deletable(r)
  BY DEF GormDeletable, Deletable
<1> QED
  BY <1>1, <1>2, <1>4, <1>6, <1>8, <1>9, Zenon DEF SameEffect

\* Both repositories fetch the same message of a table.
LEMMA SameFetch ==
  ASSUME TypeOK
  PROVE  GormFetch(rows) = [m \in Msgs |-> Where(Oldest(m), rows[m], Fetched(rows[m]))]
<1>1. DOMAIN rows = Msgs /\ \A m \in Msgs : rows[m] \in Row
  BY SMT, Z3, Zenon DEF TypeOK, ProcessTypeOK
<1>2. ASSUME NEW m \in Msgs
      PROVE  [rows[m] EXCEPT !.status = "PUBLISHING", !.age = 0] = Fetched(rows[m])
  <2>1. "PUBLISHING" \in Statuses /\ rows[m].attempt \in Nat
    BY <1>1 DEF Row, Statuses
  <2> QED
    BY <1>1, <2>1, RowUpdates, Zenon DEF Fetched
<1> QED
  BY <1>1, <1>2, Zenon DEF GormFetch, Where, Oldest

\* A dispatcher may run on either repository: whatever it does, each statement of
\* contrib/gorm would have taken the rows that the one of contrib/pgx takes, and no
\* others, and left the same rows behind.
THEOREM RepositoriesAgree == Spec => []GormAgrees
<1>1. TypeOK => \A m \in Msgs : rows[m] \in Row
  BY SMT, Z3, Zenon DEF TypeOK, ProcessTypeOK
<1>2. \A k \in MaxAttempts : GormInsert(k) = InsertedRow(k)
  BY ProcessAssumption DEF GormInsert, InsertedRow
<1>3. TypeOK => GormAgrees
  BY <1>1, <1>2, SameOnEveryRow, SameFetch DEF GormAgrees
<1> QED
  BY <1>3, TypeCorrect, PTL
=============================================================================
