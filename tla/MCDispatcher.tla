---------------------------- MODULE MCDispatcher ----------------------------
(***************************************************************************)
(* Dispatcher for TLC. Processes are interchangeable, and so are the       *)
(* workers of a process.                                                   *)
(***************************************************************************)
EXTENDS Dispatcher, GormTable, TLC

\* A process may use either repository: on every table that a run of the dispatcher
\* produces, contrib/gorm fetches the message that contrib/pgx fetches, and each of its
\* statements changes the rows that contrib/pgx changes, in the same way, and no others:
\* a verdict that comes late finds its row no longer PUBLISHING in both.
GormAgrees ==
  /\ GormFetch(rows) = [m \in Msgs |-> Where(Oldest(m), rows[m], Fetched(rows[m]))]
  /\ \A m \in Msgs : SameEffect(rows[m])
  /\ \A k \in MaxAttempts : GormInsert(k) = InsertedRow(k)

Symmetry == Permutations(Procs) \cup Permutations(Slots)
=============================================================================
