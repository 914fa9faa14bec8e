------------------------------ MODULE Delivery ------------------------------
(***************************************************************************)
(* What the outbox promises to the application that inserts messages: a    *)
(* message that was accepted is handed to the broker at least once before  *)
(* it counts as published, or is given up for good; either verdict is      *)
(* final, and only a message with a verdict may be purged.                 *)
(***************************************************************************)
CONSTANT Msgs

VARIABLES
  phase,     \* "new", "pending", "published", "dead" or "purged"
  delivered  \* the messages the broker has been given

vars == <<phase, delivered>>

Phases == {"new", "pending", "published", "dead", "purged"}

Init ==
  /\ phase = [m \in Msgs |-> "new"]
  /\ delivered = {}

Move(S, from, to) ==
  /\ \A m \in S : phase[m] \in from
  /\ phase' = [m \in Msgs |-> IF m \in S THEN to ELSE phase[m]]
  /\ UNCHANGED delivered

Accept(m) == Move({m}, {"new"}, "pending")

\* A message may be handed over again, also after its verdict: a slow publisher
\* can outlive the recovery that gave its message up.
Deliver(S) ==
  /\ \A m \in S : phase[m] # "new"
  /\ delivered' = delivered \cup S
  /\ UNCHANGED phase

Confirm(S) == S \subseteq delivered /\ Move(S, {"pending"}, "published")

GiveUp(S) == Move(S, {"pending"}, "dead")

Purge(S) == Move(S, {"published", "dead"}, "purged")

Next ==
  \/ \E m \in Msgs : Accept(m)
  \/ \E S \in SUBSET Msgs : Deliver(S) \/ Confirm(S) \/ GiveUp(S) \/ Purge(S)

Spec == Init /\ [][Next]_vars
=============================================================================
