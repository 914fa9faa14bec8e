---------------------------- MODULE MCApplication ----------------------------
(***************************************************************************)
(* Application for TLC: three orders of one product whose stock does not   *)
(* cover them all, a client that confirms the first order twice, and two   *)
(* updates of one user at the same instant. The pool has two connections,  *)
(* so that the two confirmations can exhaust it.                           *)
(***************************************************************************)
EXTENDS Application, TLC

CONSTANTS create1, create2, create3, confirm1, confirm2, register, update1, update2

Confirmations == {confirm1, confirm2}
Updates == {update1, update2}

MCKindOf == [r \in Requests |->
  CASE r \in Confirmations -> "ConfirmOrder"
    [] r \in Updates       -> "UpdateUser"
    [] r = register        -> "RegisterUser"
    [] OTHER               -> "CreateOrder"]

MCSubjectOf == [r \in Requests |->
  CASE r \in Updates \cup {register} -> "u"
    [] r = create2                   -> "o2"
    [] r = create3                   -> "o3"
    [] OTHER                         -> "o1"]

MCInstantOf == [r \in Requests |-> 1]
MCStock == [p \in Products |-> 3]
MCProductOf == [o \in Orders |-> "p"]
MCQuantityOf == [o \in Orders |-> IF o = "o2" THEN 2 ELSE 1]

Symmetry == Permutations(Confirmations) \cup Permutations(Updates)
=============================================================================
