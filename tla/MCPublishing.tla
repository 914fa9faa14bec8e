---------------------------- MODULE MCPublishing ----------------------------
(***************************************************************************)
(* Publishing for TLC: two event types that share a beginning, prefixes of *)
(* length 0, 1 and 2, and two workers whose repositories have the same id, *)
(* as in dispatcher-bench.                                                 *)
(***************************************************************************)
EXTENDS Publishing

MCEventTypes == {<<"o", "c">>, <<"u">>}

MCPatterns == {<<>>, <<"o">>, <<"o", "c">>}

MCTypeOf == [m \in Msgs |-> IF m = 3 THEN <<"u">> ELSE <<"o", "c">>]

SameID == [w \in Workers |-> 0]

Symmetry == Permutations(Workers) \cup Permutations(Queues \ {DefaultQueue})
=============================================================================
