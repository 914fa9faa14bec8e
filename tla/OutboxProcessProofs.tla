------------------------- MODULE OutboxProcessProofs -------------------------
(***************************************************************************)
(* Lemmas about rows and about the steps that OutboxProcess takes, for the *)
(* proofs about both kinds of dispatcher.                                  *)
(***************************************************************************)
EXTENDS OutboxProcess, FiniteSetTheorems, TLAPS

USE DEF NoRetry

-----------------------------------------------------------------------------
(* Rows *)

\* A delay is between "now" and RequeueBackoffMax.
LEMMA JitteredRange == \A a \in Nat : Jittered(a) \subseteq 0..BackoffMax
  BY DEF Jittered

\* Every statement of the repository keeps a row well typed.
LEMMA RowTypes ==
  ASSUME NEW r \in Row, NEW k \in Nat, NEW d \in 0..BackoffMax
  PROVE  /\ InsertedRow(k) \in Row
         /\ Fetched(r) \in Row
         /\ Published(r) \in Row
         /\ Failed(r, d) \in Row
         /\ Dead(r) \in Row
         /\ Requeued(r) \in Row
         /\ Revived(r, d) \in Row
         /\ Deleted(r) \in Row
         /\ Aged(r) \in Row
<1> USE TableAssumption DEF TableAssumption, Row, Statuses, NoRow, Updated
<1>1. InsertedRow(k) \in Row
  BY DEF InsertedRow
<1>2. Fetched(r) \in Row
  BY DEF Fetched
<1>3. Published(r) \in Row
  BY DEF Published
<1>4. Failed(r, d) \in Row
  BY DEF Failed
<1>5. Dead(r) \in Row
  BY DEF Dead, CapAttempt
<1>6. Requeued(r) \in Row
  BY DEF Requeued
<1>7. Revived(r, d) \in Row
  BY <1>4 DEF Revived, CapAttempt
<1>8. Deleted(r) \in Row
  BY DEF Deleted
<1>9. Aged(r) \in Row
  BY DEF Aged
<1> QED
  BY <1>1, <1>2, <1>3, <1>4, <1>5, <1>6, <1>7, <1>8, <1>9

-----------------------------------------------------------------------------
(* Types *)

\* The update that records a result replaces at most the row of the message.
LEMMA UpdateToType ==
  ASSUME ProcessTypeOK, NEW m \in Msgs, NEW r \in Row, UpdateTo(m, r)
  PROVE  rows' \in [Msgs -> Row]
  BY DEF UpdateTo, ProcessTypeOK

\* A fault stays within the bound on faults.
LEMMA FaultType ==
  ASSUME ProcessTypeOK, NEW k, Fault(k)
  PROVE  faults' \in 0..MaxFaults
  BY ProcessAssumption DEF ProcessAssumption, Fault, ProcessTypeOK

LEMMA ProcessInitType == ProcessInit => ProcessTypeOK
<1> SUFFICES ASSUME ProcessInit PROVE ProcessTypeOK
  OBVIOUS
<1>1. Absent \in Row
  BY TableAssumption DEF TableAssumption, Row, NoRow, Absent
<1>2. 0 \in 0..MaxFaults /\ 0 \in 0..MaxStops
  BY ProcessAssumption DEF ProcessAssumption
<1>3. rows \in [Msgs -> Row]
  BY <1>1 DEF ProcessInit
<1> QED
  BY <1>2, <1>3 DEF ProcessInit, ProcessTypeOK

\* The steps of this module keep the types.
LEMMA ProcessNextType ==
  ProcessTypeOK /\ (ProcessNext \/ AgeRows) => ProcessTypeOK'
<1> SUFFICES ASSUME ProcessTypeOK, ProcessNext \/ AgeRows PROVE ProcessTypeOK'
  OBVIOUS
<1>0. \A m \in Msgs : rows[m] \in Row
  BY DEF ProcessTypeOK
<1>1. ASSUME NEW m \in Msgs, Insert(m) PROVE ProcessTypeOK'
  <2>1. PICK k \in MaxAttempts : rows' = [rows EXCEPT ![m] = InsertedRow(k)]
    BY <1>1, Zenon DEF Insert
  <2>2. InsertedRow(k) \in Row
    BY TableAssumption, ProcessAssumption
       DEF TableAssumption, ProcessAssumption, InsertedRow, Row, Statuses
  <2>3. rows' \in [Msgs -> Row]
    BY <2>1, <2>2 DEF ProcessTypeOK
  <2> QED
    BY <1>1, <2>3 DEF Insert, ProcessTypeOK
<1>2. CASE DeleteOlderThan
  <2>1. rows' \in [Msgs -> Row]
    BY <1>0, <1>2 DEF DeleteOlderThan, Deleted, Row, NoRow
  <2> QED
    BY <1>2, <2>1 DEF DeleteOlderThan, ProcessTypeOK
<1>3. ASSUME NEW p \in Procs, Start(p) PROVE ProcessTypeOK'
  BY <1>3 DEF Start, ProcessTypeOK
<1>4. ASSUME NEW p \in Procs, Revive(p) PROVE ProcessTypeOK'
  <2>1. PICK d \in [Msgs -> 0..BackoffMax] :
          rows' = [m \in Msgs |-> IF Stuck(rows[m]) THEN Revived(rows[m], d[m])
                                                    ELSE rows[m]]
    BY <1>4 DEF Revive
  <2>2. \A m \in Msgs : Revived(rows[m], d[m]) \in Row
    BY <1>0, RowTypes, Zenon
  <2>3. rows' \in [Msgs -> Row]
    BY <1>0, <2>1, <2>2
  <2> QED
    BY <1>4, <2>3 DEF Revive, ProcessTypeOK
<1>5. ASSUME NEW p \in Procs, ReviveError(p) PROVE ProcessTypeOK'
  BY <1>5, FaultType DEF ReviveError, ProcessTypeOK
<1>6. ASSUME NEW p \in Procs, RequeueFailed(p) PROVE ProcessTypeOK'
  <2>1. \A m \in Msgs : Requeued(rows[m]) \in Row
    BY <1>0, TableAssumption DEF TableAssumption, Row, Requeued, Updated, Statuses
  <2>2. rows' \in [Msgs -> Row]
    BY <1>0, <1>6, <2>1 DEF RequeueFailed
  <2> QED
    BY <1>6, <2>2 DEF RequeueFailed, ProcessTypeOK
<1>7. ASSUME NEW p \in Procs, Stop(p) PROVE ProcessTypeOK'
  <2>1. stops' \in 0..MaxStops
    BY <1>7, ProcessAssumption DEF ProcessAssumption, Stop, ProcessTypeOK
  <2> QED
    BY <1>7, <2>1 DEF Stop, ProcessTypeOK
<1>8. CASE AgeRows
  <2>1. \A m \in Msgs : Aged(rows[m]) \in Row
    BY <1>0, RowTypes, TableAssumption DEF TableAssumption
  <2>2. rows' \in [Msgs -> Row]
    BY <1>8, <2>1 DEF AgeRows
  <2> QED
    BY <1>8, <2>2 DEF AgeRows, ProcessTypeOK
<1> QED
  BY <1>1, <1>2, <1>3, <1>4, <1>5, <1>6, <1>7, <1>8 DEF ProcessNext

\* The steps of this module send nothing and start no attempt.
LEMMA ProcessNextHistory ==
  ProcessNext \/ AgeRows => sent' = sent /\ tries' = tries
  BY DEF ProcessNext, Insert, DeleteOlderThan, Start, Revive, ReviveError,
         RequeueFailed, Stop, AgeRows

\* The steps of this module make no row PUBLISHING.
LEMMA ProcessNextPublishing ==
  ASSUME ProcessTypeOK, ProcessNext \/ AgeRows, NEW m \in Msgs,
         rows'[m].status = "PUBLISHING"
  PROVE  rows[m].status = "PUBLISHING"
<1>0. rows[m] \in Row
  BY DEF ProcessTypeOK
<1>1. CASE rows' = rows
  BY <1>1
<1>2. ASSUME NEW n \in Msgs, Insert(n) PROVE rows[m].status = "PUBLISHING"
  <2>1. \A k : InsertedRow(k).status # "PUBLISHING"
    BY DEF InsertedRow
  <2> QED
    BY <1>2, <2>1 DEF Insert, ProcessTypeOK
<1>3. CASE DeleteOlderThan
  <2>1. Deleted(rows[m]).status # "PUBLISHING"
    BY <1>0 DEF Deleted, Row
  <2> QED
    BY <1>3, <2>1 DEF DeleteOlderThan
<1>4. ASSUME NEW p \in Procs, Revive(p) PROVE rows[m].status = "PUBLISHING"
  BY <1>4 DEF Revive, Stuck
<1>5. ASSUME NEW p \in Procs, RequeueFailed(p) PROVE rows[m].status = "PUBLISHING"
  <2>1. Requeued(rows[m]).status # "PUBLISHING"
    BY DEF Requeued, Updated
  <2> QED
    BY <1>5, <2>1 DEF RequeueFailed
<1>6. CASE AgeRows
  <2>1. Aged(rows[m]).status = rows[m].status
    BY DEF Aged
  <2> QED
    BY <1>6, <2>1 DEF AgeRows
<1> QED
  BY <1>1, <1>2, <1>3, <1>4, <1>5, <1>6 DEF ProcessNext, Start, ReviveError, Stop

\* No step of this module hides a fault.
LEMMA ProcessNextFaults ==
  ProcessNext \/ AgeRows => faults' = faults \/ \E k : Fault(k)
  BY DEF ProcessNext, Insert, DeleteOlderThan, Start, Revive, ReviveError,
         RequeueFailed, Stop, AgeRows

\* A row that is stuck stays so until it is recovered.
LEMMA ProcessNextStuck ==
  ASSUME ProcessTypeOK, ProcessNext \/ AgeRows, NEW m \in Msgs, Stuck(rows[m]),
         rows'[m].status = "PUBLISHING"
  PROVE  Stuck(rows'[m]) /\ \A p \in Procs : ~Revive(p)
<1>0. rows[m] \in Row /\ rows[m].status = "PUBLISHING" /\ rows[m].age > StuckSeconds
  BY DEF ProcessTypeOK, Stuck
<1>1. ASSUME NEW p \in Procs PROVE ~Revive(p)
  <2> SUFFICES ASSUME Revive(p) PROVE FALSE
    OBVIOUS
  <2>1. PICK d : rows'[m] = Revived(rows[m], d)
    BY Zenon DEF Revive
  <2>2. Revived(rows[m], d).status # "PUBLISHING"
    BY DEF Revived, Failed, Updated
  <2> QED
    BY <2>1, <2>2
<1>2. CASE rows'[m] = rows[m]
  BY <1>1, <1>2
<1>3. CASE AgeRows
  <2>1. StuckSeconds \in Int /\ rows[m].age \in Int
    BY <1>0, TableAssumption DEF TableAssumption, StuckSeconds, Row
  <2>2. Aged(rows[m]).status = "PUBLISHING" /\ Aged(rows[m]).age >= rows[m].age
    BY <1>0, <2>1 DEF Aged
  <2>3. Aged(rows[m]).age \in Int
    BY <2>1 DEF Aged
  <2> QED
    BY <1>0, <1>1, <1>3, <2>1, <2>2, <2>3 DEF AgeRows, Stuck
<1>4. CASE ProcessNext
  <2>1. ASSUME NEW n \in Msgs, Insert(n) PROVE rows'[m] = rows[m]
    BY <1>0, <2>1 DEF Insert, ProcessTypeOK
  <2>2. CASE DeleteOlderThan
    <3>1. ~Deletable(rows[m])
      BY <1>0, TableAssumption DEF TableAssumption, Deletable
    <3> QED
      BY <1>2, <2>2, <3>1 DEF DeleteOlderThan
  <2>3. ASSUME NEW p \in Procs, RequeueFailed(p) PROVE rows'[m] = rows[m]
    <3>1. ~Requeueable(rows[m])
      BY <1>0 DEF Requeueable
    <3> QED
      BY <2>3, <3>1 DEF RequeueFailed
  <2>4. ASSUME NEW p \in Procs, Start(p) \/ ReviveError(p) \/ Stop(p)
        PROVE  rows'[m] = rows[m]
    BY <2>4 DEF Start, ReviveError, Stop
  <2> QED
    BY <1>1, <1>2, <1>4, <2>1, <2>2, <2>3, <2>4 DEF ProcessNext
<1> QED
  BY <1>3, <1>4

\* A message that waits for a recovery goes on waiting for one until it is recovered, if
\* processes start late and the recovery does not fail.
LEMMA ProcessNextAwaits ==
  ASSUME ProcessTypeOK, ProcessNext \/ AgeRows, LateRestart, "revive" \notin FaultKinds,
         NEW m \in Msgs, rows'[m].status = "PUBLISHING", AwaitsRecovery(m)
  PROVE  AwaitsRecovery(m)'
<1>0. rows[m].status = "PUBLISHING"
  BY ProcessNextPublishing
<1>1. PICK p \in Procs : proc[p] = "down" \/ (reviving[p] /\ Stuck(rows[m]))
  BY DEF AwaitsRecovery
<1>2. Stuck(rows[m]) => Stuck(rows'[m]) /\ \A q \in Procs : ~Revive(q)
  BY ProcessNextStuck
<1>3. \A q \in Procs : ~ReviveError(q)
  BY DEF ReviveError, Fault
<1>4. CASE UNCHANGED <<proc, reviving>>
  BY <1>1, <1>2, <1>4 DEF AwaitsRecovery
<1>5. ASSUME NEW q \in Procs, Start(q) PROVE AwaitsRecovery(m)'
  <2>1. Stuck(rows[m])
    BY <1>0, <1>5 DEF Start, MayStart
  <2>2. reviving'[q]
    BY <1>5 DEF Start, ProcessTypeOK
  <2> QED
    BY <1>2, <2>1, <2>2 DEF AwaitsRecovery
<1>6. ASSUME NEW q \in Procs, Revive(q) PROVE AwaitsRecovery(m)'
  BY <1>1, <1>2, <1>6, Zenon DEF Revive, AwaitsRecovery
<1>7. ASSUME NEW q \in Procs, Stop(q) PROVE AwaitsRecovery(m)'
  <2>1. reviving' = reviving /\ (proc[p] = "down" => proc'[p] = "down")
    BY <1>7 DEF Stop, ProcessTypeOK
  <2> QED
    BY <1>1, <1>2, <2>1 DEF AwaitsRecovery
<1> QED
  BY <1>3, <1>4, <1>5, <1>6, <1>7
     DEF ProcessNext, AgeRows, Insert, DeleteOlderThan, RequeueFailed

\* One more fault that leaves the messages of T behind.
LEMMA LossGrows ==
  ASSUME NEW S, IsFiniteSet(S), NEW T, IsFiniteSet(T), NEW U \in SUBSET (S \cup T),
         NEW f \in Nat, NEW k \in Nat, Cardinality(S) <= f * k, Cardinality(T) <= k
  PROVE  IsFiniteSet(U) /\ Cardinality(U) <= (f + 1) * k
<1>1. IsFiniteSet(S \cup T) /\ IsFiniteSet(S \cap T)
  BY FS_Union, FS_Intersection
<1>2. Cardinality(S \cup T) = Cardinality(S) + Cardinality(T) - Cardinality(S \cap T)
  BY FS_Union
<1>3. IsFiniteSet(U) /\ Cardinality(U) <= Cardinality(S \cup T)
  BY <1>1, FS_Subset
<1>4. /\ Cardinality(S) \in Nat /\ Cardinality(T) \in Nat /\ Cardinality(U) \in Nat
      /\ Cardinality(S \cup T) \in Nat /\ Cardinality(S \cap T) \in Nat
  BY <1>1, <1>3, FS_CardinalityType
<1>5. (f + 1) * k = f * k + k /\ f * k \in Nat
  OBVIOUS
<1> QED
  BY <1>2, <1>3, <1>4, <1>5

\* Sets of at most k elements, one for each element of I, have at most |I| * k in all.
LEMMA UnionBound ==
  ASSUME NEW I, IsFiniteSet(I), NEW k \in Nat, NEW B,
         \A i \in I : IsFiniteSet(B[i]) /\ Cardinality(B[i]) <= k
  PROVE  LET U == UNION {B[i] : i \in I}
         IN  IsFiniteSet(U) /\ Cardinality(U) <= Cardinality(I) * k
<1> DEFINE U == UNION {B[i] : i \in I}
           e == [i \in I |-> CHOOSE g : g \in Bijection(1..Cardinality(B[i]), B[i])]
           at == [x \in U |-> CHOOSE i \in I : x \in B[i]]
           nr == [x \in U |-> CHOOSE n \in 1..k : e[at[x]][n] = x]
           f == [x \in U |-> <<at[x], nr[x]>>]
<1>1. \A x \in U : at[x] \in I /\ x \in B[at[x]]
  BY Zenon
<1>2. ASSUME NEW i \in I
      PROVE  /\ e[i] \in Bijection(1..Cardinality(B[i]), B[i])
             /\ Cardinality(B[i]) \in Nat /\ Cardinality(B[i]) <= k
  <2>1. Cardinality(B[i]) \in Nat /\ ExistsBijection(1..Cardinality(B[i]), B[i])
    BY FS_CardinalityType
  <2> QED
    BY <2>1, Zenon DEF ExistsBijection
<1> HIDE DEF at, e
<1>3. ASSUME NEW x \in U PROVE nr[x] \in 1..k /\ e[at[x]][nr[x]] = x
  <2>1. PICK n \in 1..Cardinality(B[at[x]]) : e[at[x]][n] = x
    BY <1>1, <1>2 DEF Bijection, Surjection
  <2>2. n \in 1..k
    BY <1>1, <1>2, <2>1
  <2> QED
    BY <2>1, <2>2, Zenon
<1> HIDE DEF nr
<1>4. f \in Injection(U, I \X (1..k))
  <2>1. f \in [U -> I \X (1..k)]
    BY <1>1, <1>3
  <2>2. ASSUME NEW x \in U, NEW y \in U, f[x] = f[y] PROVE x = y
    <3>1. at[x] = at[y] /\ nr[x] = nr[y]
      BY <2>2
    <3> QED
      BY <1>3, <3>1
  <2> HIDE DEF U, f
  <2> QED
    BY <2>1, <2>2, Zenon DEF Injection, IsInjective
<1>5. IsFiniteSet(1..k) /\ Cardinality(1..k) = k
  BY FS_Interval
<1>6. IsFiniteSet(I \X (1..k)) /\ Cardinality(I \X (1..k)) = Cardinality(I) * k
  BY <1>5, FS_Product, Zenon
<1> HIDE DEF U, f
<1>7. IsFiniteSet(U) /\ Cardinality(U) <= Cardinality(I \X (1..k))
  BY <1>4, <1>6, FS_Injection
<1> QED
  BY <1>6, <1>7 DEF U

-----------------------------------------------------------------------------
(* What a step can do to one row *)

\* The ways in which a step can change the row of m.
RowMove(m) ==
  \/ rows'[m] = rows[m] /\ tries'[m] = tries[m]
  \/ /\ rows[m].status = "NONE"
     /\ \E k \in MaxAttempts : rows'[m] = InsertedRow(k)
     /\ tries'[m] = tries[m]
  \/ /\ rows[m].status = "ENQUEUED"
     /\ rows'[m] = Fetched(rows[m])
     /\ tries'[m] \in {tries[m], tries[m] + 1}
  \/ /\ rows[m].status = "PUBLISHING"
     /\ \/ m \in sent /\ rows'[m] = Published(rows[m])
        \/ rows'[m] = Dead(rows[m])
        \/ rows[m].max > 1 /\ \E d \in 0..BackoffMax : rows'[m] = Failed(rows[m], d)
        \/ \E d \in 0..BackoffMax : rows'[m] = Revived(rows[m], d)
     /\ tries'[m] = tries[m]
  \/ /\ Requeueable(rows[m])
     /\ rows'[m] = Requeued(rows[m])
     /\ tries'[m] = tries[m]
  \/ /\ Deletable(rows[m])
     /\ rows'[m] = Deleted(rows[m])
     /\ tries'[m] = tries[m]
  \/ rows'[m] = Aged(rows[m]) /\ tries'[m] = tries[m]

\* The steps of this module do nothing else to a row.
LEMMA ProcessRowMove ==
  ProcessTypeOK /\ (ProcessNext \/ AgeRows) => \A m \in Msgs : RowMove(m)
<1> SUFFICES ASSUME ProcessTypeOK, ProcessNext \/ AgeRows, NEW m \in Msgs
             PROVE  RowMove(m)
  OBVIOUS
<1>1. CASE UNCHANGED <<rows, tries>>
  BY <1>1 DEF RowMove
<1>2. ASSUME NEW n \in Msgs, Insert(n) PROVE RowMove(m)
  BY <1>2 DEF Insert, ProcessTypeOK, RowMove
<1>3. CASE DeleteOlderThan
  BY <1>3 DEF DeleteOlderThan, ProcessTypeOK, RowMove
<1>4. ASSUME NEW p \in Procs, Revive(p) PROVE RowMove(m)
  BY <1>4 DEF Revive, Stuck, ProcessTypeOK, RowMove
<1>5. ASSUME NEW p \in Procs, RequeueFailed(p) PROVE RowMove(m)
  BY <1>5 DEF RequeueFailed, ProcessTypeOK, RowMove
<1>6. CASE AgeRows
  BY <1>6, SMT, Z3, Zenon DEF AgeRows, ProcessTypeOK, RowMove
<1> QED
  BY <1>1, <1>2, <1>3, <1>4, <1>5, <1>6 DEF ProcessNext, Start, ReviveError, Stop

\* Why the limit holds: a row that is waiting or being published has an attempt
\* left, unless it is at its first; an attempt is counted when it ends, so a row
\* that is waiting has had fewer attempts than its count says.
WithinLimit(m) ==
  /\ rows[m].status = "NONE" => tries[m] = 0
  /\ rows[m].status \in Statuses
       => /\ rows[m].max >= 1
          /\ rows[m].attempt <= rows[m].max
          /\ tries[m] <= rows[m].attempt
  /\ rows[m].status \in {"ENQUEUED", "FAILED"} => tries[m] < rows[m].attempt
  /\ rows[m].status \in {"ENQUEUED", "PUBLISHING"}
       => rows[m].attempt < rows[m].max \/ rows[m].attempt = 1

\* A row that moves stays within its limit.
LEMMA MoveWithinLimit ==
  ASSUME ProcessTypeOK, NEW m \in Msgs, WithinLimit(m), RowMove(m)
  PROVE  WithinLimit(m)'
<1> DEFINE r == rows[m]
<1> DEFINE s == rows'[m]
<1>1. /\ r.attempt \in Nat /\ r.max \in Nat /\ tries[m] \in Nat
      /\ r.status \in Statuses \cup NoRow
  BY DEF ProcessTypeOK, Row
<1>2. CASE s = r /\ tries'[m] = tries[m]
  BY <1>2 DEF WithinLimit
<1>3. ASSUME r.status = "NONE", NEW k \in MaxAttempts, s = InsertedRow(k),
             tries'[m] = tries[m]
      PROVE  WithinLimit(m)'
  BY <1>3, ProcessAssumption
     DEF ProcessAssumption, WithinLimit, InsertedRow, Statuses
<1>4. CASE /\ r.status = "ENQUEUED"
           /\ s = Fetched(r)
           /\ tries'[m] \in {tries[m], tries[m] + 1}
  BY <1>1, <1>4 DEF WithinLimit, Fetched, Updated, Statuses
<1>5. CASE /\ r.status = "PUBLISHING"
           /\ s = Published(r)
           /\ tries'[m] = tries[m]
  BY <1>1, <1>5 DEF WithinLimit, Published, Updated, Statuses
<1>6. CASE /\ r.status = "PUBLISHING"
           /\ s = Dead(r)
           /\ tries'[m] = tries[m]
  BY <1>1, <1>6 DEF WithinLimit, Dead, CapAttempt, Updated, Statuses
<1>7. ASSUME r.status = "PUBLISHING", r.max > 1, NEW d \in 0..BackoffMax,
             s = Failed(r, d), tries'[m] = tries[m]
      PROVE  WithinLimit(m)'
  BY <1>1, <1>7 DEF WithinLimit, Failed, Updated, Statuses
<1>8. ASSUME r.status = "PUBLISHING", NEW d \in 0..BackoffMax,
             s = Revived(r, d), tries'[m] = tries[m]
      PROVE  WithinLimit(m)'
  BY <1>1, <1>8, SMT, Z3, Zenon DEF WithinLimit, Revived, Failed, CapAttempt, Updated, Statuses
<1>9. CASE Requeueable(r) /\ s = Requeued(r) /\ tries'[m] = tries[m]
  BY <1>1, <1>9, SMT, Z3, Zenon DEF WithinLimit, Requeueable, Requeued, Updated, Statuses
<1>10. CASE Deletable(r) /\ s = Deleted(r) /\ tries'[m] = tries[m]
  <2>1. s.status = "DELETED"
    BY <1>10, SMT, Z3, Zenon DEF Deleted, ProcessTypeOK, Row
  <2> QED
    BY <2>1 DEF WithinLimit, Statuses
<1>11. CASE s = Aged(r) /\ tries'[m] = tries[m]
  BY <1>1, <1>11, SMT, Z3, Zenon DEF WithinLimit, Aged
<1> QED
  BY <1>2, <1>3, <1>4, <1>5, <1>6, <1>7, <1>8, <1>9, <1>10, <1>11 DEF RowMove

\* A row becomes PUBLISHED only by the update of a message that was accepted.
LEMMA MovePublished ==
  ASSUME ProcessTypeOK, NEW m \in Msgs, RowMove(m), rows'[m].status = "PUBLISHED"
  PROVE  rows[m].status = "PUBLISHED" \/ m \in sent
<1>1. Deletable(rows[m]) => Deleted(rows[m]).status = "DELETED"
  BY DEF Deleted, ProcessTypeOK, Row
<1>2. \A k, d : /\ InsertedRow(k).status # "PUBLISHED"
                /\ Fetched(rows[m]).status # "PUBLISHED"
                /\ Dead(rows[m]).status # "PUBLISHED"
                /\ Failed(rows[m], d).status # "PUBLISHED"
                /\ Revived(rows[m], d).status # "PUBLISHED"
                /\ Requeued(rows[m]).status # "PUBLISHED"
  BY DEF InsertedRow, Fetched, Dead, Failed, Revived, Requeued, Updated
<1>3. Aged(rows[m]).status = rows[m].status
  BY DEF Aged
<1> QED
  BY <1>1, <1>2, <1>3 DEF RowMove

\* A settled row stays settled.
LEMMA MoveSettled ==
  ASSUME ProcessTypeOK, NEW m \in Msgs, RowMove(m), rows[m].status \in Settled
  PROVE  /\ rows'[m].status \in {rows[m].status, "DELETED"}
         /\ tries'[m] = tries[m]
<1>1. Deletable(rows[m]) => Deleted(rows[m]).status = "DELETED"
  BY DEF Deleted, ProcessTypeOK, Row
<1> QED
  BY <1>1 DEF RowMove, Settled, Requeueable, Aged

\* What the statements write into the status.
LEMMA NewStatus ==
  ASSUME ProcessTypeOK, NEW m \in Msgs
  PROVE  /\ \A k \in MaxAttempts : InsertedRow(k).status = "ENQUEUED"
         /\ Fetched(rows[m]).status = "PUBLISHING"
         /\ Published(rows[m]).status = "PUBLISHED"
         /\ Dead(rows[m]).status = "DEAD"
         /\ \A d \in 0..BackoffMax :
              /\ Failed(rows[m], d).status = "FAILED"
              /\ Revived(rows[m], d).status
                   = IF rows[m].attempt + 1 >= rows[m].max THEN "DEAD" ELSE "FAILED"
         /\ Requeued(rows[m]).status = "ENQUEUED"
         /\ Deleted(rows[m]).status = "DELETED"
         /\ Aged(rows[m]).status = rows[m].status
<1>1. rows[m] \in Row
  BY DEF ProcessTypeOK
<1>2. Deleted(rows[m]).status = "DELETED"
  BY <1>1, SMT, Z3, Zenon DEF Deleted, Row
<1> QED
  BY <1>2
     DEF InsertedRow, Fetched, Published, Dead, Failed, Revived, Requeued, Updated, Aged

\* A row that exists does not vanish without a trace.
LEMMA MoveInserted ==
  ASSUME ProcessTypeOK, NEW m \in Msgs, RowMove(m), rows[m].status # "NONE"
  PROVE  rows'[m].status # "NONE"
  BY NewStatus DEF RowMove

\* What the recovery leaves FAILED has an attempt left.
LEMMA RevivedIsRetryable ==
  \A r \in Row : \A d \in 0..BackoffMax :
    Revived(r, d).status = "FAILED" => Revived(r, d).attempt < Revived(r, d).max
<1> SUFFICES ASSUME NEW r \in Row, NEW d \in 0..BackoffMax, Revived(r, d).status = "FAILED"
             PROVE  Revived(r, d).attempt < Revived(r, d).max
  OBVIOUS
<1>1. r.attempt \in Nat /\ r.max \in Nat
  BY DEF Row
<1>2. CASE r.attempt + 1 >= r.max
  <2>1. Revived(r, d).status = "DEAD"
    BY <1>2 DEF Revived, Updated
  <2> QED  BY <2>1
<1>3. CASE ~(r.attempt + 1 >= r.max)
  <2>1. Revived(r, d).attempt = r.attempt + 1 /\ Revived(r, d).max = r.max
    BY <1>3 DEF Revived, Failed, Updated
  <2> QED  BY <1>1, <1>3, <2>1
<1> QED
  BY <1>2, <1>3

\* A tick adds at most one to the age of a row.
LEMMA AgedAge == \A r \in Row : Aged(r).age \in {r.age, r.age + 1}
<1> SUFFICES ASSUME NEW r \in Row PROVE Aged(r).age \in {r.age, r.age + 1}
  OBVIOUS
<1>1. CASE r.status \in {"PUBLISHING"} \cup CleanStatuses /\ r.age < AgeCap
  BY <1>1 DEF Aged
<1>2. CASE ~(r.status \in {"PUBLISHING"} \cup CleanStatuses /\ r.age < AgeCap)
  BY <1>2 DEF Aged
<1> QED
  BY <1>1, <1>2

-----------------------------------------------------------------------------
(* Delivery *)

\* The phases that the statuses map to.
LEMMA Phases ==
  /\ PhaseOf("NONE") = "new"
  /\ PhaseOf("ENQUEUED") = "pending"
  /\ PhaseOf("PUBLISHING") = "pending"
  /\ PhaseOf("FAILED") = "pending"
  /\ PhaseOf("PUBLISHED") = "published"
  /\ PhaseOf("DEAD") = "dead"
  /\ PhaseOf("DELETED") = "purged"
  BY DEF PhaseOf

\* A step that takes the messages of S from one phase to another, and leaves the
\* phase of all others alone, is a Move.
LEMMA PhaseMove ==
  ASSUME NEW S \in SUBSET Msgs, NEW from, NEW to,
         \A m \in S : /\ PhaseOf(rows[m].status) \in from
                      /\ PhaseOf(rows'[m].status) = to,
         \A m \in Msgs \ S : PhaseOf(rows'[m].status) = PhaseOf(rows[m].status),
         sent' = sent
  PROVE  Promise!Move(S, from, to)
  BY DEF Promise!Move

\* A step that changes no phase and sends nothing does not show.
LEMMA PhaseStutter ==
  ASSUME \A m \in Msgs : PhaseOf(rows'[m].status) = PhaseOf(rows[m].status),
         sent' = sent
  PROVE  UNCHANGED Promise!vars
  BY DEF Promise!vars

\* The steps of this module are steps of Delivery, or do not show.
LEMMA ProcessKeepsPromise ==
  ProcessTypeOK /\ (ProcessNext \/ AgeRows)
    => Promise!Next \/ UNCHANGED Promise!vars
<1> SUFFICES ASSUME ProcessTypeOK, ProcessNext \/ AgeRows
             PROVE  Promise!Next \/ UNCHANGED Promise!vars
  OBVIOUS
<1> USE Phases
<1>0. \A m \in Msgs : rows[m] \in Row
  BY DEF ProcessTypeOK
<1>1. ASSUME NEW m \in Msgs, Insert(m) PROVE Promise!Next
  <2>1. PICK k \in MaxAttempts : rows' = [rows EXCEPT ![m] = InsertedRow(k)]
    BY <1>1, Zenon DEF Insert
  <2>2. /\ PhaseOf(rows[m].status) \in {"new"}
        /\ PhaseOf(rows'[m].status) = "pending"
        /\ \A n \in Msgs \ {m} : rows'[n] = rows[n]
    BY <1>0, <1>1, <2>1, NewStatus DEF Insert, ProcessTypeOK
  <2>3. Promise!Move({m}, {"new"}, "pending")
    BY <1>1, <2>2, PhaseMove DEF Insert
  <2> QED
    BY <2>3, Zenon DEF Promise!Next, Promise!Accept
<1>2. CASE DeleteOlderThan
  <2> DEFINE S == {m \in Msgs : Deletable(rows[m])}
  <2>1. \A m \in S : /\ PhaseOf(rows[m].status) \in {"published", "dead"}
                     /\ PhaseOf(rows'[m].status) = "purged"
    BY <1>0, <1>2, NewStatus, TableAssumption, Zenon
       DEF DeleteOlderThan, Deletable, TableAssumption
  <2>2. \A m \in Msgs \ S : rows'[m] = rows[m]
    BY <1>2 DEF DeleteOlderThan
  <2>3. Promise!Move(S, {"published", "dead"}, "purged")
    BY <1>2, <2>1, <2>2, PhaseMove DEF DeleteOlderThan
  <2> QED
    BY <2>3 DEF Promise!Next, Promise!Purge
<1>3. ASSUME NEW p \in Procs, Revive(p) PROVE Promise!Next
  <2> DEFINE S == {m \in Msgs : Stuck(rows[m]) /\ rows[m].attempt + 1 >= rows[m].max}
  <2>1. PICK d \in [Msgs -> 0..BackoffMax] :
          rows' = [m \in Msgs |-> IF Stuck(rows[m]) THEN Revived(rows[m], d[m])
                                                    ELSE rows[m]]
    BY <1>3, Zenon DEF Revive
  <2>2. \A m \in S : /\ PhaseOf(rows[m].status) \in {"pending"}
                     /\ PhaseOf(rows'[m].status) = "dead"
    BY <1>0, <2>1, NewStatus, ZenonT(30) DEF Stuck
  <2>3. \A m \in Msgs \ S : PhaseOf(rows'[m].status) = PhaseOf(rows[m].status)
    BY <1>0, <2>1, NewStatus, ZenonT(30) DEF Stuck
  <2>4. Promise!Move(S, {"pending"}, "dead")
    BY <1>3, <2>2, <2>3, PhaseMove DEF Revive
  <2> QED
    BY <2>4 DEF Promise!Next, Promise!GiveUp
<1>4. ASSUME NEW p \in Procs, RequeueFailed(p) PROVE UNCHANGED Promise!vars
  <2>1. \A m \in Msgs : PhaseOf(rows'[m].status) = PhaseOf(rows[m].status)
    BY <1>0, <1>4, NewStatus, ZenonT(30) DEF RequeueFailed, Requeueable
  <2> QED
    BY <1>4, <2>1, PhaseStutter, Zenon DEF RequeueFailed
<1>5. CASE AgeRows
  <2>1. \A m \in Msgs : PhaseOf(rows'[m].status) = PhaseOf(rows[m].status)
    BY <1>0, <1>5, NewStatus DEF AgeRows
  <2> QED
    BY <1>5, <2>1, PhaseStutter, SMT, Z3, Zenon DEF AgeRows
<1>6. CASE UNCHANGED <<rows, sent>>
  BY <1>6, PhaseStutter
<1> QED
  BY <1>1, <1>2, <1>3, <1>4, <1>5, <1>6 DEF ProcessNext, Start, ReviveError, Stop

\* A worker's message, in the hands of the broker, shows as a delivery.
LEMMA SendKeepsPromise ==
  ASSUME ProcessTypeOK, NEW S \in SUBSET Msgs, rows' = rows, sent' = sent \cup S,
         \A m \in S : rows[m].status # "NONE"
  PROVE  Promise!Next
<1>1. \A m \in S : PhaseOf(rows[m].status) # "new"
  BY Phases DEF ProcessTypeOK, Row, Statuses, NoRow
<1>2. Promise!Deliver(S)
  BY <1>1 DEF Promise!Deliver
<1> QED
  BY <1>2 DEF Promise!Next
=============================================================================
