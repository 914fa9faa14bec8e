---------------------------- MODULE MCLifecycle ----------------------------
(***************************************************************************)
(* Lifecycle for TLC: the default, a ForceTimeout that is shorter than the *)
(* ShutdownTimeout, and a configuration that only the consumer Service     *)
(* accepts.                                                                *)
(***************************************************************************)
EXTENDS Lifecycle

MCConfigs == {<<0, 0, FALSE>>, <<2, 1, TRUE>>, <<-1, 1, TRUE>>}
=============================================================================
