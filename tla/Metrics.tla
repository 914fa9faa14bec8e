------------------------------- MODULE Metrics -------------------------------
(***************************************************************************)
(* The collector of examples/app/internal/instrumentation, which the       *)
(* workers of a dispatcher share. The counters are atomics: a worker's     *)
(* additions are one step here, because nothing is decided between them.   *)
(* The minimum and the maximum are kept with compare-and-swap loops, whose *)
(* load and swap are separate steps. Only what is counted is modelled, not *)
(* the sums of durations and the averages that LogStats prints.            *)
(***************************************************************************)
EXTENDS Integers, FiniteSets

CONSTANTS
  Workers,
  WorkerID,   \* the id a worker's instrumented repository was created with
  Durations   \* how long a fetch can take, in nanoseconds

ASSUME MetricsAssumption == Durations \subseteq Nat \ {0}

VARIABLES
  total,        \* the atomic counters
  minTxn,       \* minTxnDuration; 0 stands for no fetch yet
  maxTxn,       \* maxTxnDuration
  workerStats,  \* the map that is guarded by mu
  step,         \* where a worker is in RecordFetch
  loaded,       \* what the worker's last Load returned
  fetch,        \* the FetchMetrics the worker is recording
  taken         \* history: the durations of the fetches so far

metricsVars == <<total, minTxn, maxTxn, workerStats, step, loaded, fetch, taken>>

Ids == {WorkerID[w] : w \in Workers}
Steps == {"idle", "loadMin", "swapMin", "loadMax", "swapMax", "stats"}
Counters == {"fetches", "rows", "empty", "publishes", "success", "failure"}

MetricsTypeOK ==
  /\ total \in [Counters -> Nat]
  /\ minTxn \in Nat
  /\ maxTxn \in Nat
  /\ workerStats \in [Ids -> [fetches : Nat, rows : Nat, empty : Nat]]
  /\ step \in [Workers -> Steps]
  /\ loaded \in [Workers -> Nat]
  /\ fetch \in [Workers -> [duration : Durations \cup {0}, rows : Nat]]
  /\ taken \subseteq Durations

NewMetricsCollector ==
  /\ total = [c \in Counters |-> 0]
  /\ minTxn = 0
  /\ maxTxn = 0
  /\ workerStats = [i \in Ids |-> [fetches |-> 0, rows |-> 0, empty |-> 0]]
  /\ step = [w \in Workers |-> "idle"]
  /\ loaded = [w \in Workers |-> 0]
  /\ fetch = [w \in Workers |-> [duration |-> 0, rows |-> 0]]
  /\ taken = {}

Goto(w, s) == step' = [step EXCEPT ![w] = s]

EmptyFetch(rows) == IF rows = 0 THEN 1 ELSE 0

\* RecordFetch, up to the loop over minTxnDuration.
RecordFetch(w, duration, rows) ==
  /\ step[w] = "idle"
  /\ Goto(w, "loadMin")
  /\ fetch' = [fetch EXCEPT ![w] = [duration |-> duration, rows |-> rows]]
  /\ total' = [total EXCEPT !["fetches"] = @ + 1, !["rows"] = @ + rows,
                            !["empty"] = @ + EmptyFetch(rows)]
  /\ taken' = taken \cup {duration}
  /\ UNCHANGED <<minTxn, maxTxn, workerStats, loaded>>

\* currentMin := Load(); leave the loop unless it is unset or larger.
LoadMin(w) ==
  /\ step[w] = "loadMin"
  /\ loaded' = [loaded EXCEPT ![w] = minTxn]
  /\ Goto(w, IF minTxn = 0 \/ fetch[w].duration < minTxn THEN "swapMin" ELSE "loadMax")
  /\ UNCHANGED <<total, minTxn, maxTxn, workerStats, fetch, taken>>

\* Mutant: a plain store.
StoreMin(w) ==
  /\ step[w] = "swapMin"
  /\ minTxn' = fetch[w].duration
  /\ Goto(w, "loadMax")
  /\ UNCHANGED <<total, maxTxn, workerStats, loaded, fetch, taken>>

\* CompareAndSwap; another round when the value has moved.
SwapMin(w) ==
  /\ step[w] = "swapMin"
  /\ IF minTxn = loaded[w]
     THEN minTxn' = fetch[w].duration /\ Goto(w, "loadMax")
     ELSE UNCHANGED minTxn /\ Goto(w, "loadMin")
  /\ UNCHANGED <<total, maxTxn, workerStats, loaded, fetch, taken>>

LoadMax(w) ==
  /\ step[w] = "loadMax"
  /\ loaded' = [loaded EXCEPT ![w] = maxTxn]
  /\ Goto(w, IF fetch[w].duration > maxTxn THEN "swapMax" ELSE "stats")
  /\ UNCHANGED <<total, minTxn, maxTxn, workerStats, fetch, taken>>

SwapMax(w) ==
  /\ step[w] = "swapMax"
  /\ IF maxTxn = loaded[w]
     THEN maxTxn' = fetch[w].duration /\ Goto(w, "stats")
     ELSE UNCHANGED maxTxn /\ Goto(w, "loadMax")
  /\ UNCHANGED <<total, minTxn, workerStats, loaded, fetch, taken>>

\* The map entry, under the mutex; then RecordFetch returns.
UpdateWorkerStats(w) ==
  /\ step[w] = "stats"
  /\ Goto(w, "idle")
  /\ workerStats' = [workerStats EXCEPT ![WorkerID[w]] =
       [fetches |-> @.fetches + 1, rows |-> @.rows + fetch[w].rows,
        empty |-> @.empty + EmptyFetch(fetch[w].rows)]]
  /\ fetch' = [fetch EXCEPT ![w] = [duration |-> 0, rows |-> 0]]
  /\ loaded' = [loaded EXCEPT ![w] = 0]
  /\ UNCHANGED <<total, minTxn, maxTxn, taken>>

RecordPublish(success, failure) ==
  /\ total' = [total EXCEPT !["publishes"] = @ + 1, !["success"] = @ + success,
                            !["failure"] = @ + failure]
  /\ UNCHANGED <<minTxn, maxTxn, workerStats, step, loaded, fetch, taken>>

Recording(w) ==
  LoadMin(w) \/ SwapMin(w) \/ LoadMax(w) \/ SwapMax(w) \/ UpdateWorkerStats(w)

-----------------------------------------------------------------------------
(* Properties *)

\* A fetch whose duration a worker has still to compare with the minimum, or with
\* the maximum.
MinPending(w) == step[w] \in {"loadMin", "swapMin"}
MaxPending(w) == MinPending(w) \/ step[w] \in {"loadMax", "swapMax"}

\* No fetch is lost between the load and the swap of two workers: the minimum and
\* the maximum bound every duration that has been compared with them, and each is
\* a duration that was measured.
ExtremesAreExact ==
  /\ minTxn \in taken \cup {0}
  /\ maxTxn \in taken \cup {0}
  /\ \A d \in taken :
       /\ minTxn \in 1..d \/ \E w \in Workers : MinPending(w) /\ fetch[w].duration = d
       /\ maxTxn >= d \/ \E w \in Workers : MaxPending(w) /\ fetch[w].duration = d
=============================================================================
