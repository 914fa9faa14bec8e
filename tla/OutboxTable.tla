----------------------------- MODULE OutboxTable -----------------------------
(***************************************************************************)
(* The rows of the outbox table and the SQL statements of                  *)
(* contrib/pgx/repo.go, each as the effect it has on one row.              *)
(*                                                                         *)
(* Times are kept relative, so that no clock grows without bound: "age" is *)
(* the time since updated_at (saturating at AgeCap, beyond every threshold *)
(* that is compared with it) and "retry" is the time left until            *)
(* next_retry_at, NoRetry standing for NULL and 0 for a time that has come.*)
(***************************************************************************)
EXTENDS Integers

CONSTANTS
  BackoffBase,     \* RequeueBackoffBase, in ticks
  BackoffMax,      \* RequeueBackoffMax, in ticks
  StuckThreshold,  \* StuckPublishingThreshold, in ticks
  TicksPerSecond,  \* how many ticks make the second the threshold is cut to
  Retention,       \* the olderThan argument of DeleteOlderThan, in ticks
  CleanStatuses,   \* the statuses argument of DeleteOlderThan
  AgeCap           \* the age at which the model stops counting

Statuses == {"ENQUEUED", "PUBLISHING", "PUBLISHED", "FAILED", "DEAD"}

\* A row that was never inserted, and one that DeleteOlderThan removed.
NoRow == {"NONE", "DELETED"}

NoRetry == -1

ASSUME TableAssumption ==
  /\ BackoffBase \in Nat \ {0}
  /\ BackoffMax \in Nat \ {0}
  /\ StuckThreshold \in Nat
  /\ TicksPerSecond \in Nat \ {0}
  /\ Retention \in Nat
  /\ CleanStatuses \subseteq {"PUBLISHED", "DEAD"}
  /\ AgeCap \in Nat
  /\ AgeCap > StuckThreshold
  /\ AgeCap > Retention

Row == [status  : Statuses \cup NoRow,
        attempt : Nat,
        max     : Nat,
        retry   : NoRetry..BackoffMax,
        age     : 0..AgeCap]

Absent == [status |-> "NONE", attempt |-> 0, max |-> 0, retry |-> NoRetry,
           age |-> 0]

-----------------------------------------------------------------------------
(* Retry delays *)

\* LEAST(base * 2^attempt_count, max), on the attempt_count before the update.
Backoff(a) ==
  IF BackoffBase * 2^a < BackoffMax THEN BackoffBase * 2^a ELSE BackoffMax

\* The delays that "* (0.5 + random() * 0.5)" can give, in whole ticks.
Jittered(a) == {d \in 0..BackoffMax : d <= Backoff(a) /\ Backoff(a) <= 2 * d}

-----------------------------------------------------------------------------
(* Statements that insert or update rows *)

\* queryInsert: attempt_count comes from the column's DEFAULT 1.
InsertedRow(k) == [status |-> "ENQUEUED", attempt |-> 1, max |-> k,
                   retry |-> NoRetry, age |-> 0]

\* Every UPDATE sets updated_at, and none of them sets max_attempts.
Updated(r, status, attempt, retry) ==
  [status |-> status, attempt |-> attempt, max |-> r.max, retry |-> retry,
   age |-> 0]

\* Mutant: the fetch selects the row but does not mark it.
FetchedUnmarked(r) == Updated(r, "ENQUEUED", r.attempt, r.retry)

Fetched(r) == Updated(r, "PUBLISHING", r.attempt, r.retry)

Published(r) == Updated(r, "PUBLISHED", r.attempt, r.retry)

\* Mutant: next_retry_at stays NULL.
FailedUnscheduled(r, d) == Updated(r, "FAILED", r.attempt + 1, NoRetry)

Failed(r, d) == Updated(r, "FAILED", r.attempt + 1, d)

CapAttempt(r) == IF r.attempt + 1 <= r.max THEN r.attempt + 1 ELSE r.max

Dead(r) == Updated(r, "DEAD", CapAttempt(r), r.retry)

\* Mutant: the limit is compared with the attempt after the next one.
RequeueableTooEarly(r) ==
  /\ r.status = "FAILED"
  /\ r.attempt + 1 < r.max
  /\ r.retry # NoRetry
  /\ r.retry <= 0

Requeueable(r) ==
  /\ r.status = "FAILED"
  /\ r.attempt < r.max
  /\ r.retry # NoRetry
  /\ r.retry <= 0

Requeued(r) == Updated(r, "ENQUEUED", r.attempt, r.retry)

\* The threshold is sent to the database as a whole number of seconds.
StuckSeconds == (StuckThreshold \div TicksPerSecond) * TicksPerSecond

\* Mutants: the threshold itself counts as exceeded; the status is not checked.
StuckAtThreshold(r) == r.status = "PUBLISHING" /\ r.age >= StuckSeconds

StuckAnyStatus(r) == r.status \in Statuses /\ r.age > StuckSeconds

Stuck(r) == r.status = "PUBLISHING" /\ r.age > StuckSeconds

Revived(r, d) ==
  IF r.attempt + 1 >= r.max
  THEN Updated(r, "DEAD", CapAttempt(r), NoRetry)
  ELSE Failed(r, d)

\* queryDeleteOlderThan
Deletable(r) == r.status \in CleanStatuses /\ r.age > Retention

Deleted(r) == [r EXCEPT !.status = "DELETED"]

\* One tick of clock_timestamp(). The age is counted only in the statuses in
\* which some statement compares updated_at with a threshold.
Aged(r) ==
  [status  |-> r.status,
   attempt |-> r.attempt,
   max     |-> r.max,
   retry   |-> IF r.retry > 0 THEN r.retry - 1 ELSE r.retry,
   age     |-> IF /\ r.status \in {"PUBLISHING"} \cup CleanStatuses
                  /\ r.age < AgeCap
               THEN r.age + 1 ELSE r.age]
=============================================================================
