------------------------------ MODULE SqsQueue ------------------------------
(***************************************************************************)
(* One message in an SQS queue, as the consumer service meets it. SQS is   *)
(* not part of the repository: what is modelled is what the calls in       *)
(* contrib/sqs/consumer/service.go rely on, the visibility timeout, the    *)
(* receive count, and receipt handles. A receive count identifies the      *)
(* receipt handle that was issued with it.                                 *)
(***************************************************************************)
EXTENDS Naturals

CONSTANT Visibility  \* VisibilityTimeout, in ticks

ASSUME VisibilityAssumption == Visibility \in Nat \ {0}

Entry == [state  : {"unsent", "queued", "deleted"},
          hidden : 0..Visibility,  \* the time until it can be received again
          count  : Nat]            \* ApproximateReceiveCount

Unsent == [state |-> "unsent", hidden |-> 0, count |-> 0]

Queued == [state |-> "queued", hidden |-> 0, count |-> 0]

Receivable(e) == e.state = "queued" /\ e.hidden = 0

Received(e) ==
  [state |-> "queued", hidden |-> Visibility, count |-> e.count + 1]

Removed(e) == [state |-> "deleted", hidden |-> 0, count |-> e.count]

\* DeleteMessage with the handle of the latest receive deletes the message. With
\* an older handle it may do so or may leave the message in the queue.
AfterDelete(e, handle) == IF handle = e.count THEN {Removed(e)} ELSE {e, Removed(e)}

Waited(e) ==
  [state  |-> e.state,
   hidden |-> IF e.hidden > 0 THEN e.hidden - 1 ELSE 0,
   count  |-> e.count]
=============================================================================
