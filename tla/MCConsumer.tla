----------------------------- MODULE MCConsumer -----------------------------
(***************************************************************************)
(* Consumer for TLC. Events are numbers.                                   *)
(***************************************************************************)
EXTENDS Consumer, TLC

\* Every message has an event of its own.
OneEach == [c \in Copies |-> c]

\* Message 1 has an event of its own, the other messages are copies of one event.
Duplicated == [c \in Copies |-> IF c = 1 THEN 1 ELSE 2]

BareAndTx == [e \in Events |-> IF e = 1 THEN "bare" ELSE "tx"]
AutoAndTx == [e \in Events |-> IF e = 1 THEN "auto" ELSE "tx"]

Symmetry == Permutations(Procs) \cup Permutations(Slots)
=============================================================================
