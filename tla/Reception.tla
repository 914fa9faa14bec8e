------------------------------ MODULE Reception ------------------------------
(***************************************************************************)
(* What the consumer service promises to the producer of a message: the    *)
(* work of an event is done only after a message of it was sent, and a     *)
(* message leaves the queue for good only after the work was done, or with *)
(* the excuse that it was given up or ignored, which the application is    *)
(* told. Work that was done, and an excuse, are never taken back.          *)
(***************************************************************************)
CONSTANTS
  Copies,   \* messages
  EventOf   \* the event of a message

VARIABLES
  mail,     \* "unsent", "queued" or "deleted", for each message
  done,     \* the events whose work has been done
  excused   \* the messages that may go without

vars == <<mail, done, excused>>

Init ==
  /\ mail = [c \in Copies |-> "unsent"]
  /\ done = {}
  /\ excused = {}

Without(c) == [mail EXCEPT ![c] = "deleted"]

Send(c) ==
  /\ mail[c] = "unsent"
  /\ mail' = [mail EXCEPT ![c] = "queued"]
  /\ UNCHANGED <<done, excused>>

\* Also after the message has gone: a slow handler can outlive it.
Handle(c) ==
  /\ mail[c] # "unsent"
  /\ done' = done \cup {EventOf[c]}
  /\ UNCHANGED <<mail, excused>>

Excuse(c) ==
  /\ mail[c] # "unsent"
  /\ excused' = excused \cup {c}
  /\ mail' \in {mail, Without(c)}
  /\ UNCHANGED done

Delete(c) ==
  /\ mail[c] # "unsent"
  /\ EventOf[c] \in done \/ c \in excused
  /\ mail' = Without(c)
  /\ UNCHANGED <<done, excused>>

Next == \E c \in Copies : Send(c) \/ Handle(c) \/ Excuse(c) \/ Delete(c)

Spec == Init /\ [][Next]_vars
==============================================================================
