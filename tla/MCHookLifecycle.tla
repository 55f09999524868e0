-------------------------- MODULE MCHookLifecycle --------------------------
(* The ten hooks as they are: nothing to choose.                           *)
EXTENDS HookLifecycle
=============================================================================
