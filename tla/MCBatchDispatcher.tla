-------------------------- MODULE MCBatchDispatcher --------------------------
(***************************************************************************)
(* BatchDispatcher for TLC: the odd messages go to one queue, the even     *)
(* ones to another. One run has two kinds of deployments, and the initial  *)
(* state says which it is: one with the constants of the .cfg, and a       *)
(* timely one, in which a batch is done within the stuck threshold, a      *)
(* process starts later than that and crashes are the only faults.         *)
(***************************************************************************)
EXTENDS BatchDispatcher, TLC

TwoQueues == [m \in Msgs |-> m % 2]

VARIABLE timely

Timely == INSTANCE BatchDispatcher WITH
  SlowPublish <- FALSE,
  LateRestart <- TRUE,
  FaultKinds  <- {"crash"}

mcvars == <<vars, timely>>

MCInit == Init /\ timely \in BOOLEAN

MCNext == (IF timely THEN Timely!Next ELSE Next) /\ UNCHANGED timely

MCSpec == MCInit /\ [][MCNext]_mcvars

\* The same assumptions as for the single-message dispatcher, in a timely deployment.
WhenTimely(A) == timely /\ A /\ UNCHANGED timely

MCFairness ==
  /\ WF_mcvars(WhenTimely(Timely!Tick))
  /\ \A p \in Procs :
       /\ WF_mcvars(WhenTimely(Timely!Start(p) /\ UNCHANGED workerVars))
       /\ WF_mcvars(WhenTimely(Timely!Revive(p) /\ UNCHANGED workerVars))
       /\ WF_mcvars(WhenTimely(Timely!RequeueFailed(p) /\ UNCHANGED workerVars))
       /\ WF_mcvars(WhenTimely(Timely!Exit(p)))
  /\ \A w \in Workers : WF_mcvars(WhenTimely(Timely!Work(w)))

MCFairSpec == MCSpec /\ MCFairness

-----------------------------------------------------------------------------

\* In a timely deployment a batch belongs to its worker until it is recorded: see
\* BatchesAreOwned.
TimelyIsOwned == timely => BatchesAreOwned

\* In a timely deployment every message is eventually published or given up, however
\* batches fail, in part or as a whole, and whenever a process is stopped or killed: the
\* recovery after the restart finds what a crash has left PUBLISHING.
TimelyIsSettled ==
  \A m \in Msgs : timely /\ rows[m].status = "ENQUEUED" ~> rows[m].status \in Settled
=============================================================================
