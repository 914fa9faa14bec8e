------------------------------ MODULE GormTable ------------------------------
(***************************************************************************)
(* The statements of contrib/gorm/repo.go with their WHERE clauses, read   *)
(* from that file and independent of OutboxTable's reading of              *)
(* contrib/pgx/repo.go. A map given to Updates changes the columns it      *)
(* names and no others; a row that the WHERE clause does not match stays   *)
(* as it is.                                                               *)
(***************************************************************************)
EXTENDS OutboxTable

\* Columns with a zero value and a default tag are left to the default.
GormInsert(k) ==
  [status |-> "ENQUEUED", attempt |-> 1, max |-> IF k = 0 THEN 10 ELSE k,
   retry |-> NoRetry, age |-> 0]

\* The statement on the table t, whose ids are in the order of created_at.
GormFetch(t) ==
  [m \in DOMAIN t |->
     IF /\ t[m].status = "ENQUEUED"
        /\ \A n \in DOMAIN t : t[n].status = "ENQUEUED" => m <= n
     THEN [t[m] EXCEPT !.status = "PUBLISHING", !.age = 0] ELSE t[m]]

\* The other statements, on one row. These take an id and want it PUBLISHING.
GormUpdateToPublished(r) ==
  IF r.status = "PUBLISHING" THEN [r EXCEPT !.status = "PUBLISHED", !.age = 0] ELSE r

\* Mutant: the WHERE clause names the id only.
GormUpdateToFailedById(r, d) ==
  [r EXCEPT !.status = "FAILED", !.attempt = @ + 1, !.retry = d, !.age = 0]

GormUpdateToFailed(r, d) ==
  IF r.status = "PUBLISHING"
  THEN [r EXCEPT !.status = "FAILED", !.attempt = @ + 1, !.retry = d, !.age = 0] ELSE r

GormUpdateToDead(r) ==
  IF r.status = "PUBLISHING"
  THEN [r EXCEPT !.status = "DEAD",
                 !.attempt = IF @ + 1 > r.max THEN r.max ELSE @ + 1, !.age = 0]
  ELSE r

GormRequeueFailed(r) ==
  IF r.status = "FAILED" /\ r.attempt < r.max /\ r.retry = 0
  THEN [r EXCEPT !.status = "ENQUEUED", !.age = 0] ELSE r

\* int64(threshold.Seconds()) rounds towards zero.
GormStuck(r) ==
  r.status = "PUBLISHING" /\ r.age > StuckThreshold - (StuckThreshold % TicksPerSecond)

GormRevive(r, d) ==
  LET last == r.attempt + 1 >= r.max
  IN IF GormStuck(r)
     THEN [r EXCEPT !.status  = IF last THEN "DEAD" ELSE "FAILED",
                    !.attempt = IF @ + 1 > r.max THEN r.max ELSE @ + 1,
                    !.retry   = IF last THEN NoRetry ELSE d,
                    !.age     = 0]
     ELSE r

\* The statements for a batch, on a row within LIMIT and on one whose id is listed.
GormFetchLockAndMarkPublishing(r) ==
  IF r.status = "ENQUEUED" THEN [r EXCEPT !.status = "PUBLISHING", !.age = 0] ELSE r

GormUpdateBatchToPublished(r) ==
  IF r.status = "PUBLISHING" THEN [r EXCEPT !.status = "PUBLISHED", !.age = 0] ELSE r

GormDeletable(r) == r.status \in CleanStatuses /\ r.age > Retention

-----------------------------------------------------------------------------

\* What a statement of contrib/pgx with a WHERE clause leaves of a row.
Where(matches, r, updated) == IF matches THEN updated ELSE r

\* The two repositories agree on a row, whatever its status: every statement leaves the
\* same row behind, be it updated or untouched, whatever delay is drawn.
SameEffect(r) ==
  LET enqueued == r.status = "ENQUEUED"
      publishing == r.status = "PUBLISHING"
  IN /\ GormFetchLockAndMarkPublishing(r) = Where(enqueued, r, Fetched(r))
     /\ GormUpdateBatchToPublished(r) = Where(publishing, r, Published(r))
     /\ GormUpdateToPublished(r) = Where(publishing, r, Published(r))
     /\ GormUpdateToDead(r) = Where(publishing, r, Dead(r))
     /\ GormRequeueFailed(r) = Where(Requeueable(r), r, Requeued(r))
     /\ \A d \in Jittered(r.attempt) :
          /\ GormUpdateToFailed(r, d) = Where(publishing, r, Failed(r, d))
          /\ GormRevive(r, d) = Where(Stuck(r), r, Revived(r, d))
     /\ GormDeletable(r) <=> Deletable(r)
=============================================================================
